----------------------------- MODULE Handshake -----------------------------
(***************************************************************************)
(* One `start --listen` (alice) meets one `start --connect` (bob): the     *)
(* authenticated key exchange of main_chat.py over one TCP connection.     *)
(* The relay may damage payloads in transit or fall silent (payloads of    *)
(* other connections are not modelled: there is one), the users may        *)
(* interrupt their processes, and each user may have pinned the identity   *)
(* key of the peer, an outdated one, or none.                              *)
(*                                                                         *)
(* An ephemeral public key is named after the party that made it.  The     *)
(* key two parties derive is known by the two public keys it comes from:   *)
(* X25519 is symmetric and the HKDF input besides is the same for both.    *)
(***************************************************************************)
EXTENDS Naturals, Sequences

CONSTANTS
    Pins,       \* what the users may give as --peer-key
    MaxDamage   \* bound: payloads the relay damages

Party == {"alice", "bob"}
Peer(p) == IF p = "alice" THEN "bob" ELSE "alice"

Unpinned == "none"
ASSUME HandshakeAssumption ==
    /\ Pins \subseteq Party \cup {"outdated", Unpinned}
    /\ MaxDamage \in Nat

\* An altered key is another valid key, an unusable one a low-order point.
PublicKey == Party \cup {"altered", "unusable"}
Signature == [by : Party \cup {"nobody"}, over : PublicKey]
Payload == [key : PublicKey, signature : Signature]

NoPayload == [key |-> "unusable", signature |-> [by |-> "nobody", over |-> "unusable"]]
NoKey == {}

VARIABLES
    at,       \* at[p]: how far p is
    pin,      \* pin[p]: the identity key p requires, if any
    open,     \* open[p]: p has its end of the connection open
    wire,     \* wire[p]: the payload on its way to p
    got,      \* got[p]: the payload p read
    k0,       \* k0[p]: the key p seeded its session state with
    damage,   \* payloads damaged so far
    stalled   \* the relay has fallen silent

vars == <<at, pin, open, wire, got, k0, damage, stalled>>

InProgress == {"sending", "receiving", "verifying", "deriving"}

TypeOK ==
    /\ at \in [Party -> InProgress \cup {"idle", "listening", "established",
                                         "lost", "failed", "gone"}]
    /\ pin \in [Party -> Pins]
    /\ open \in [Party -> BOOLEAN]
    /\ wire \in [Party -> Seq(Payload)]
    /\ got \in [Party -> Payload]
    /\ k0 \in [Party -> SUBSET PublicKey]
    /\ damage \in 0 .. MaxDamage
    /\ stalled \in BOOLEAN

Init ==
    /\ at = [p \in Party |-> "idle"]
    /\ pin \in [Party -> Pins]
    /\ open = [p \in Party |-> FALSE]
    /\ wire = [p \in Party |-> << >>]
    /\ got = [p \in Party |-> NoPayload]
    /\ k0 = [p \in Party |-> NoKey]
    /\ damage = 0
    /\ stalled = FALSE
-----------------------------------------------------------------------------
(* crypto_core.py *)

SignPublicKey(identity, key) == [by |-> identity, over |-> key]

\* Bugs: the signature not looked at, or not compared with the key received.
VerifiesNothing(identity, key, signature) == TRUE

VerifiesSignerOnly(identity, key, signature) == signature.by = identity

\* verify_public_key raises InvalidSignature unless this holds.
Verifies(identity, key, signature) == signature = SignPublicKey(identity, key)

\* Bug: one role passes its name as further input of the HKDF.
DeriveWithRole(own, key) ==
    IF own = "alice" THEN {own, key, "listener"} ELSE {own, key}

\* derive_shared_secret and hkdf_derive
Derive(own, key) == {own, key}
-----------------------------------------------------------------------------
(* The steps of _handshake_listener and _handshake_connector, in order *)

\* Bug: each side waits to read first.
BothReadFirst(p) ==
    [accepted |-> "receiving", receiving |-> "verifying", verifying |-> "sending",
     sending |-> "deriving"]

\* Alice sends before she reads; bob reads and verifies before he sends.
NextStep(p) ==
    IF p = "alice"
    THEN [accepted |-> "sending", sending |-> "receiving", receiving |-> "verifying",
          verifying |-> "deriving"]
    ELSE [accepted |-> "receiving", receiving |-> "verifying", verifying |-> "sending",
          sending |-> "deriving"]

Proceed(p, from) ==
    /\ at[p] = from
    /\ at' = [at EXCEPT ![p] = NextStep(p)[from]]

\* Bug: the failed handshake leaves its connection open.
FailLeavingOpen(p) ==
    /\ at' = [at EXCEPT ![p] = "failed"]
    /\ UNCHANGED open

\* Every exception closes the connection, at the latest as _cmd_start returns
\* and drops the socket; the user is back at the prompt without a session.
Fail(p) ==
    /\ at' = [at EXCEPT ![p] = "failed"]
    /\ open' = [open EXCEPT ![p] = FALSE]

network == <<damage, stalled>>

Listen ==
    /\ at["alice"] = "idle"
    /\ at' = [at EXCEPT !["alice"] = "listening"]
    /\ UNCHANGED <<pin, open, wire, got, k0, network>>

\* the port cannot be bound
ListenFails ==
    /\ at["alice"] = "idle"
    /\ Fail("alice")
    /\ UNCHANGED <<pin, wire, got, k0, network>>

\* The kernel completes the connection before alice accepts it.
Connect ==
    /\ at["bob"] = "idle" /\ at["alice"] = "listening" /\ ~stalled
    /\ at' = [at EXCEPT !["bob"] = NextStep("bob").accepted]
    /\ open' = [p \in Party |-> TRUE]
    /\ UNCHANGED <<pin, wire, got, k0, network>>

\* Refused, or timed out after ten seconds
ConnectFails ==
    /\ at["bob"] = "idle"
    /\ at["alice"] # "listening" \/ stalled
    /\ Fail("bob")
    /\ UNCHANGED <<pin, wire, got, k0, network>>

Accept ==
    /\ at["alice"] = "listening" /\ open["alice"]
    /\ at' = [at EXCEPT !["alice"] = NextStep("alice").accepted]
    /\ UNCHANGED <<pin, open, wire, got, k0, network>>

\* Bytes sent to a peer that is gone are lost, or the call raises.
SendPayload(p) ==
    /\ Proceed(p, "sending")
    /\ LET payload == [key |-> p, signature |-> SignPublicKey(p, p)]
       IN  wire' = [wire EXCEPT ![Peer(p)] = IF open[Peer(p)] THEN Append(@, payload) ELSE @]
    /\ UNCHANGED <<pin, open, got, k0, network>>

SendRaises(p) ==
    /\ at[p] = "sending" /\ ~open[Peer(p)] /\ ~stalled
    /\ Fail(p)
    /\ UNCHANGED <<pin, wire, got, k0, network>>

\* _recv_exactly has all 96 bytes
ReceivePayload(p) ==
    /\ Proceed(p, "receiving")
    /\ wire[p] # << >> /\ ~stalled
    /\ got' = [got EXCEPT ![p] = Head(wire[p])]
    /\ wire' = [wire EXCEPT ![p] = Tail(@)]
    /\ UNCHANGED <<pin, open, k0, network>>

\* End of stream, or a reset that overtakes what was sent
ReceiveFails(p) ==
    /\ at[p] = "receiving" /\ ~open[Peer(p)] /\ ~stalled
    /\ Fail(p)
    /\ UNCHANGED <<pin, wire, got, k0, network>>

Trusted(p) == pin[p] = Unpinned \/ Verifies(pin[p], got[p].key, got[p].signature)

VerifyPayload(p) ==
    /\ Proceed(p, "verifying")
    /\ Trusted(p)
    /\ UNCHANGED <<pin, open, wire, got, k0, network>>

RejectPayload(p) ==
    /\ at[p] = "verifying"
    /\ ~Trusted(p)
    /\ Fail(p)
    /\ UNCHANGED <<pin, wire, got, k0, network>>

Establish(p) ==
    /\ at[p] = "deriving"
    /\ got[p].key # "unusable"
    /\ k0' = [k0 EXCEPT ![p] = Derive(p, got[p].key)]
    /\ at' = [at EXCEPT ![p] = "established"]
    /\ UNCHANGED <<pin, open, wire, got, network>>

\* the exchange of derive_shared_secret raises on a low-order point
DeriveFails(p) ==
    /\ at[p] = "deriving"
    /\ got[p].key = "unusable"
    /\ Fail(p)
    /\ UNCHANGED <<pin, wire, got, k0, network>>

\* the receive thread of the new session finds the connection closed
LosesPeer(p) ==
    /\ at[p] = "established" /\ ~open[Peer(p)] /\ ~stalled
    /\ at' = [at EXCEPT ![p] = "lost"]
    /\ UNCHANGED <<pin, open, wire, got, k0, network>>

\* Ctrl-C in `start` ends the process: only Exception is caught there.
Interrupt(p) ==
    /\ at[p] \in InProgress \cup {"listening"}
    /\ at' = [at EXCEPT ![p] = "gone"]
    /\ open' = [open EXCEPT ![p] = FALSE]
    /\ UNCHANGED <<pin, wire, got, k0, network>>
-----------------------------------------------------------------------------
(* The relay *)

Damaged(payload) ==
    {[payload EXCEPT !.key = "altered"], [payload EXCEPT !.key = "unusable"],
     [payload EXCEPT !.signature.by = "nobody"]}

Damage(p) ==
    /\ damage < MaxDamage
    /\ wire[p] # << >>
    /\ \E d \in Damaged(Head(wire[p])) : wire' = [wire EXCEPT ![p] = <<d>> \o Tail(@)]
    /\ damage' = damage + 1
    /\ UNCHANGED <<at, pin, open, got, k0, stalled>>

Stall ==
    /\ ~stalled
    /\ stalled' = TRUE
    /\ UNCHANGED <<at, pin, open, wire, got, k0, damage>>
-----------------------------------------------------------------------------
Runs(p) ==
    \/ SendPayload(p) \/ SendRaises(p)
    \/ ReceivePayload(p) \/ ReceiveFails(p)
    \/ VerifyPayload(p) \/ RejectPayload(p)
    \/ Establish(p) \/ DeriveFails(p)
    \/ LosesPeer(p)

Next ==
    \/ Listen \/ ListenFails \/ Connect \/ ConnectFails \/ Accept
    \/ \E p \in Party : Runs(p) \/ Interrupt(p) \/ Damage(p)
    \/ Stall

Spec == Init /\ [][Next]_vars

\* Processes run; users and the relay need do nothing.
FairSpec == Spec /\ WF_vars(Accept) /\ \A p \in Party : WF_vars(Runs(p))
-----------------------------------------------------------------------------
(* Properties *)

\* verify_public_key: a party that pinned an identity gets a session only with
\* the ephemeral key its peer signed, and none at all if the pinned identity is not
\* the peer's.  The model has one connection, so one ephemeral key of each party.
PinnedPeerIsGenuine ==
    \A p \in Party : k0[p] # NoKey /\ pin[p] # Unpinned =>
        pin[p] = Peer(p) /\ k0[p] = Derive(p, Peer(p))

\* Two sessions at the ends of one connection start from the same K0, if both
\* parties pinned or nothing was damaged.
Agreement ==
    \A p \in Party :
        /\ k0[p] # NoKey /\ k0[Peer(p)] # NoKey
        /\ damage = 0 \/ \A q \in Party : pin[q] # Unpinned
        => k0[p] = k0[Peer(p)]

\* Whoever waits to read, with nothing to read, waits for a peer that has closed its
\* end or has its payload still to send, and that is not waiting in turn for a payload
\* that nobody sent.
NobodyWaitsInVain ==
    \A p \in Party :
        LET q == Peer(p)
        IN  at[p] = "receiving" /\ wire[p] = << >> =>
              \/ ~open[q]
              \/ q = "alice" /\ at[q] \in {"listening", "sending"}
              \/ q = "bob" /\ at[q] \in {"verifying", "sending"}
              \/ q = "bob" /\ at[q] = "receiving" /\ wire[q] # << >>

\* Neither side waits for ever for a peer that runs and a relay that delivers:
\* the sides do not both wait to read first, and a side that gives up closes.
HandshakeEnds ==
    \A p \in Party : at[p] \in InProgress ~> (at[p] \notin InProgress \/ stalled)

\* Section 7 of the architecture document: a key exchange that gets no answer is
\* abandoned after a timeout.
SilenceIsAbandoned ==
    \A p \in Party : at[p] \in InProgress ~> at[p] \notin InProgress

\* Bob has his session before alice has verified him: when she then refuses him
\* or goes away, he does not keep it (nor she hers, if he goes away).
RefusalIsNoticed ==
    \A p \in Party :
        (at[p] \in {"failed", "gone"} /\ at[Peer(p)] = "established")
            ~> (at[Peer(p)] # "established" \/ stalled)
-----------------------------------------------------------------------------
(* The inductive invariant behind PinnedPeerIsGenuine and Agreement *)

\* Of a payload on its way to p: damage can destroy the peer's signature but
\* not move it to another key, and without damage the key is the peer's.
Traceable(p, payload) ==
    /\ payload.signature.by # "nobody" =>
          payload.signature = SignPublicKey(Peer(p), Peer(p))
    /\ damage = 0 => payload.key \in {Peer(p), "unusable"}

PayloadsTraceable ==
    \A p \in Party :
        /\ Traceable(p, got[p])
        /\ \A i \in DOMAIN wire[p] : Traceable(p, wire[p][i])

\* Nobody derives a key before the payload is verified (bob does not even send).
VerifiedFirst ==
    \A p \in Party :
        at[p] = "deriving" \/ (p = "bob" /\ at[p] = "sending") => Trusted(p)

KeysDerived ==
    \A p \in Party : k0[p] # NoKey =>
        /\ at[p] \in {"established", "lost"}
        /\ Trusted(p)
        /\ got[p].key # "unusable"
        /\ k0[p] = Derive(p, got[p].key)

HandshakeInv == TypeOK /\ PayloadsTraceable /\ VerifiedFirst /\ KeysDerived
=============================================================================
