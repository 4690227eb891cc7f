------------------------------ MODULE Ratchet ------------------------------
(***************************************************************************)
(* Two parties of one established DKE session and the relay between them.  *)
(* Each party drives dke_engine.py and protocol.py as _cmd_send and        *)
(* _receive_loop of main_chat.py do.  The relay is the "dumb pipe": with a *)
(* fault budget of zero it is a TCP connection, with a budget it may lose, *)
(* repeat, delay or damage that many of the envelopes sent to a party.     *)
(***************************************************************************)
EXTENDS Protocol

CONSTANTS
    K0,           \* the key both parties derived in the handshake
    FreshNonces,  \* TRUE: os.urandom never repeats a value in the session
    MaxFaults     \* MaxFaults[p]: how many faults the relay to p may make

Party == {"alice", "bob"}
Peer(p) == IF p = "alice" THEN "bob" ELSE "alice"

ASSUME RatchetAssumption ==
    /\ K0 \in Key
    /\ FreshNonces \in BOOLEAN
    /\ MaxFaults \in [Party -> Nat]

VARIABLES
    state,      \* state[p]: the DKESessionState of p
    wire,       \* wire[p]: the envelopes on their way to p, in order
    faults,     \* faults[p]: the faults the relay to p has made
    sent,       \* sent[p]: the envelopes p sent (history)
    displayed   \* displayed[p]: the texts p showed as coming from its peer

vars == <<state, wire, faults, sent, displayed>>

TypeOK ==
    /\ state \in [Party -> DKESessionState]
    /\ wire \in [Party -> Seq(Envelope)]
    /\ faults \in [Party -> Nat]
    /\ sent \in [Party -> Seq(Envelope)]
    /\ displayed \in [Party -> Seq(Plaintext)]

Init ==
    /\ state = [p \in Party |-> FromK0(K0)]
    /\ wire = [p \in Party |-> << >>]
    /\ faults = [p \in Party |-> 0]
    /\ sent = [p \in Party |-> << >>]
    /\ displayed = [p \in Party |-> << >>]
-----------------------------------------------------------------------------
(* Sending *)

UsedNonces == UNION {{sent[p][i].nonce : i \in DOMAIN sent[p]} : p \in Party}

\* os.urandom(12)
Urandom == IF FreshNonces THEN Nonce \ UsedNonces ELSE Nonce

\* A send at the sequence limit raises in encode_envelope and changes nothing.
Send(p, plaintext, nonce) ==
    LET params   == OutboundParams(state[p])
        envelope == EncodeEnvelope(params.sequence, nonce,
                                   Encrypt(params.key, plaintext, nonce))
    IN  /\ Encodable(params.sequence)
        /\ wire' = [wire EXCEPT ![Peer(p)] = Append(@, envelope)]
        /\ sent' = [sent EXCEPT ![p] = Append(@, envelope)]
        /\ state' = [state EXCEPT ![p] = RotateSend(@, nonce)]
        /\ UNCHANGED <<faults, displayed>>
-----------------------------------------------------------------------------
(* Receiving: one iteration of the receive loop, by how the envelope fares *)

Incoming(p) == Head(wire[p])

InSequence(p) == ValidSequence(state[p].inbound.sequence_number, Incoming(p).sequence)

Opens(p) == Authentic(InboundKey(state[p]), Incoming(p).sealed, Incoming(p).nonce)

Consume(p) == wire[p] # << >> /\ wire' = [wire EXCEPT ![p] = Tail(@)]

Dropped(p) == Consume(p) /\ UNCHANGED <<state, faults, sent, displayed>>

\* ParseError
DropMalformed(p) == Dropped(p) /\ ~Decodable(Incoming(p))

\* SequenceError
DropOutOfSequence(p) == Dropped(p) /\ Decodable(Incoming(p)) /\ ~InSequence(p)

\* Bug: the chain moves on although decrypt failed.
DropUnauthenticRotates(p) ==
    /\ Consume(p)
    /\ Decodable(Incoming(p)) /\ InSequence(p) /\ ~Opens(p)
    /\ state' = [state EXCEPT ![p] =
                    RotateReceive(@, Incoming(p).nonce, Incoming(p).sequence)]
    /\ UNCHANGED <<faults, sent, displayed>>

\* InvalidTag
DropUnauthentic(p) ==
    Dropped(p) /\ Decodable(Incoming(p)) /\ InSequence(p) /\ ~Opens(p)

\* ValueError of rotate_receive: decrypted, yet neither shown nor counted
DropNonceReuse(p) ==
    /\ Dropped(p)
    /\ Decodable(Incoming(p)) /\ InSequence(p) /\ Opens(p)
    /\ NonceReused(state[p], Incoming(p).nonce)

\* Bug: rotate_receive forgotten.
AcceptWithoutRotating(p) ==
    /\ Consume(p)
    /\ Decodable(Incoming(p)) /\ InSequence(p) /\ Opens(p)
    /\ displayed' = [displayed EXCEPT ![p] = Append(@, Incoming(p).sealed.plaintext)]
    /\ UNCHANGED <<state, faults, sent>>

Accept(p) ==
    /\ Consume(p)
    /\ Decodable(Incoming(p)) /\ InSequence(p) /\ Opens(p)
    /\ ~NonceReused(state[p], Incoming(p).nonce)
    /\ state' = [state EXCEPT ![p] =
                    RotateReceive(@, Incoming(p).nonce, Incoming(p).sequence)]
    /\ displayed' = [displayed EXCEPT ![p] = Append(@, Incoming(p).sealed.plaintext)]
    /\ UNCHANGED <<faults, sent>>

Receive(p) ==
    \/ DropMalformed(p)
    \/ DropOutOfSequence(p)
    \/ DropUnauthentic(p)
    \/ DropNonceReuse(p)
    \/ Accept(p)
-----------------------------------------------------------------------------
(* The relay: faults at the head of the stream to p *)

Fault(p) ==
    /\ wire[p] # << >>
    /\ faults[p] < MaxFaults[p]
    /\ faults' = [faults EXCEPT ![p] = @ + 1]
    /\ UNCHANGED <<state, sent, displayed>>

Lose(p) == Fault(p) /\ wire' = [wire EXCEPT ![p] = Tail(@)]

Repeat(p) == Fault(p) /\ wire' = [wire EXCEPT ![p] = Append(@, Head(@))]

Delay(p) ==
    /\ Fault(p)
    /\ Len(wire[p]) > 1
    /\ wire' = [wire EXCEPT ![p] = Append(Tail(@), Head(@))]

Damage(p) ==
    /\ Fault(p)
    /\ \E e \in Damaged(Incoming(p)) : wire' = [wire EXCEPT ![p] = <<e>> \o Tail(@)]

Relay(p) == Lose(p) \/ Repeat(p) \/ Delay(p) \/ Damage(p)
-----------------------------------------------------------------------------
SendSome(p) == \E m \in Plaintext, n \in Urandom : Send(p, m, n)

Next == \E p \in Party : SendSome(p) \/ Receive(p) \/ Relay(p)

Spec == Init /\ [][Next]_vars

\* The receive thread runs as long as the session is active; nothing obliges a
\* user to send or the relay to fail.
FairSpec == Spec /\ \A p \in Party : WF_vars(Receive(p))
-----------------------------------------------------------------------------
(* Properties *)

\* The key of p's outbound chain for its message number i, as p has it.
ChainKey(p, i) ==
    IF i < Len(sent[p]) THEN sent[p][i + 1].sealed.key
                        ELSE state[p].outbound.current_key

\* The session implements PrefixDelivery: whatever the relay loses, repeats,
\* delays or damages, _receive_loop shows a prefix of what the peer's _cmd_send
\* sent.  The header's sequence number is not authenticated, so this rests on
\* validate_sequence and on each key opening one message only.
Texts(envelopes) == [i \in DOMAIN envelopes |-> envelopes[i].sealed.plaintext]

Promise == INSTANCE PrefixDelivery WITH
    Text <- Plaintext, User <- Party, Other <- Peer,
    said <- [p \in Party |-> Texts(sent[p])], heard <- displayed

ImplementsPrefixDelivery == Promise!Spec

\* The correct form of the cross-matching invariant of dke_engine.py: the
\* receiver's inbound chain stands at some earlier point of the sender's
\* outbound chain, the point counted by both its sequence number and the
\* messages it has shown.
ChainsAgree ==
    \A p \in Party :
        LET inbound == state[Peer(p)].inbound
        IN  /\ inbound.sequence_number <= Len(sent[p])
            /\ inbound.sequence_number = Len(displayed[Peer(p)])
            /\ inbound.current_key = ChainKey(p, inbound.sequence_number)

\* The invariant as dke_engine.py words it ("always holds after any exchange"):
\* where the relay made no fault, the sender's and the receiver's keys are equal
\* whenever nothing is in transit.
CrossMatch ==
    FreshNonces => \A p \in Party :
        wire[Peer(p)] = << >> /\ faults[Peer(p)] = 0 =>
            state[p].outbound.current_key = state[Peer(p)].inbound.current_key

\* Nothing a faithful relay delivers is refused: what is in transit to a party is, to
\* the envelope, what it has not shown of what its peer sent, at every moment.
NothingRefused ==
    FreshNonces => \A p \in Party :
        LET all == sent[Peer(p)]
        IN  faults[p] = 0 => wire[p] = SubSeq(all, Len(displayed[p]) + 1, Len(all))

\* "No gaps, no reuse": no two messages of a direction are sealed with one key,
\* and unless nonces repeat the two directions share no key but K0 (rotate_send
\* after every send, each chain hashing its own nonces).
EachKeySealsOneMessage ==
    \A p, q \in Party : \A i \in DOMAIN sent[p], j \in DOMAIN sent[q] :
        sent[p][i].sealed.key = sent[q][j].sealed.key =>
            i = j /\ (p = q \/ i = 1 \/ ~FreshNonces)

\* The direction to p is stuck: p waits for a message of which no copy that it
\* could ever accept is on its way any more.
Stuck(p) ==
    /\ Len(displayed[p]) < Len(sent[Peer(p)])
    /\ \A i \in DOMAIN wire[p] :
          LET e == wire[p][i]
          IN  ~ /\ Decodable(e) /\ e.sealed.intact
                /\ e.sealed.key = InboundKey(state[p])
                /\ ~NonceReused(state[p], e.sealed.nonce)

\* "No implicit key sync" (section 7.1 of the architecture document): nothing
\* either party goes on to send or receive revives a direction that is stuck.
StuckForGood == [][\A p \in Party : Stuck(p) => Stuck(p)']_vars

\* A direction the relay serves faithfully gets every message through, whatever
\* becomes of the other direction: the chains are independent.
EverySentIsDisplayed ==
    \A p \in Party : MaxFaults[p] = 0 =>
        \A n \in 1 .. SeqLimit :
            Len(sent[Peer(p)]) >= n ~> Len(displayed[p]) >= n
-----------------------------------------------------------------------------
(* The inductive invariant behind ChainsAgree and ImplementsPrefixDelivery *)

\* A sender's chain is the hash chain of its own messages, so a key's length
\* tells its place in the chain.
SenderChain ==
    \A p \in Party :
        /\ state[p].outbound.sequence_number = Len(sent[p])
        /\ \A i \in 0 .. Len(sent[p]) : Len(ChainKey(p, i)) = Len(K0) + i
        /\ \A i \in DOMAIN sent[p] :
              /\ sent[p][i].sealed.nonce = sent[p][i].nonce
              /\ ChainKey(p, i) = AdvanceKey(ChainKey(p, i - 1), sent[p][i].nonce, i - 1)

\* What the relay delivers in one piece was sealed by the sender.
WireGenuine ==
    \A p \in Party : \A k \in DOMAIN wire[Peer(p)] :
        wire[Peer(p)][k].sealed.intact =>
            \E i \in DOMAIN sent[p] : wire[Peer(p)][k].sealed = sent[p][i].sealed

\* What a party shows is what its peer sent, message by message.
DisplayedIsSent ==
    \A p \in Party : \A i \in DOMAIN displayed[Peer(p)] :
        i \in DOMAIN sent[p] /\ displayed[Peer(p)][i] = sent[p][i].sealed.plaintext

IndInv == TypeOK /\ SenderChain /\ WireGenuine /\ ChainsAgree /\ DisplayedIsSent
=============================================================================
