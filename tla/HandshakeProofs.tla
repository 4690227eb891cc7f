-------------------------- MODULE HandshakeProofs --------------------------
(***************************************************************************)
(* For every set of pins and every amount of damage: a pinned party only   *)
(* ever shares a key with the peer it pinned, the two ends agree, and      *)
(* nobody waits for a payload that will not come.                          *)
(***************************************************************************)
EXTENDS Handshake, SequenceTheorems, TLAPS

\* The other party is a party, and its other party is the first.
LEMMA PeerOfPeer ==
    \A p \in Party : Peer(p) \in Party /\ Peer(p) # p /\ Peer(Peer(p)) = p
BY DEF Party, Peer

\* Appending to, taking from and replacing the head of a wire keep it a wire
\* of traceable payloads: the elements of each result.
LEMMA WireElements ==
    ASSUME NEW w \in Seq(Payload), NEW e \in Payload
    PROVE  /\ Append(w, e) \in Seq(Payload)
           /\ \A i \in DOMAIN Append(w, e) :
                 Append(w, e)[i] = e \/ (i \in DOMAIN w /\ Append(w, e)[i] = w[i])
           /\ w # << >> =>
                 /\ Head(w) \in Payload /\ 1 \in DOMAIN w /\ Head(w) = w[1]
                 /\ Tail(w) \in Seq(Payload)
                 /\ \A i \in DOMAIN Tail(w) :
                       i + 1 \in DOMAIN w /\ Tail(w)[i] = w[i + 1]
                 /\ <<e>> \o Tail(w) \in Seq(Payload)
                 /\ \A i \in DOMAIN (<<e>> \o Tail(w)) :
                       \/ (<<e>> \o Tail(w))[i] = e
                       \/ i \in DOMAIN w /\ (<<e>> \o Tail(w))[i] = w[i]
<1>1. Append(w, e) \in Seq(Payload)
  BY AppendProperties
<1>2. \A i \in DOMAIN Append(w, e) :
         Append(w, e)[i] = e \/ (i \in DOMAIN w /\ Append(w, e)[i] = w[i])
  BY AppendProperties
<1>3. ASSUME w # << >>
      PROVE  /\ Head(w) \in Payload /\ 1 \in DOMAIN w /\ Head(w) = w[1]
             /\ Tail(w) \in Seq(Payload)
             /\ \A i \in DOMAIN Tail(w) :
                   i + 1 \in DOMAIN w /\ Tail(w)[i] = w[i + 1]
             /\ <<e>> \o Tail(w) \in Seq(Payload)
             /\ \A i \in DOMAIN (<<e>> \o Tail(w)) :
                   \/ (<<e>> \o Tail(w))[i] = e
                   \/ i \in DOMAIN w /\ (<<e>> \o Tail(w))[i] = w[i]
  <2>1. Len(w) \in Nat \ {0} /\ DOMAIN w = 1 .. Len(w)
    BY <1>3, EmptySeq, LenProperties
  <2>2. /\ Head(w) \in Payload /\ Head(w) = w[1]
        /\ Tail(w) \in Seq(Payload) /\ Len(Tail(w)) = Len(w) - 1
        /\ \A i \in 1 .. Len(Tail(w)) : Tail(w)[i] = w[i + 1]
    BY <1>3, HeadTailProperties
  <2>3. DOMAIN Tail(w) = 1 .. Len(w) - 1
    BY <2>2, LenProperties
  <2>4. <<e>> \in Seq(Payload) /\ Len(<<e>>) = 1 /\ <<e>>[1] = e
    OBVIOUS
  <2>5. /\ <<e>> \o Tail(w) \in Seq(Payload)
        /\ Len(<<e>> \o Tail(w)) = 1 + Len(Tail(w))
        /\ \A i \in 1 .. 1 + Len(Tail(w)) : (<<e>> \o Tail(w))[i] =
              IF i <= 1 THEN <<e>>[i] ELSE Tail(w)[i - 1]
    BY <2>2, <2>4, ConcatProperties
  <2>6. DOMAIN (<<e>> \o Tail(w)) = 1 .. Len(w)
    BY <2>1, <2>2, <2>5, LenProperties
  <2> QED  BY <2>1, <2>2, <2>3, <2>4, <2>5, <2>6
<1> QED  BY <1>1, <1>2, <1>3

\* Every payload, damaged or not, is a payload.
LEMMA PayloadTypes ==
    /\ NoPayload \in Payload
    /\ \A p \in Party : [key |-> p, signature |-> SignPublicKey(p, p)] \in Payload
    /\ \A e \in Payload : \A d \in Damaged(e) : d \in Payload
BY DEF NoPayload, Payload, Signature, PublicKey, Party, SignPublicKey, Damaged

\* The initial states satisfy the invariant.
LEMMA InitInv == Init => HandshakeInv
<1> SUFFICES ASSUME Init PROVE HandshakeInv
  OBVIOUS
<1>1. TypeOK
  <2>1. << >> \in Seq(Payload) /\ NoKey \in SUBSET PublicKey /\ NoPayload \in Payload
    BY PayloadTypes DEF NoKey
  <2>2. wire \in [Party -> Seq(Payload)] /\ k0 \in [Party -> SUBSET PublicKey]
    BY <2>1 DEF Init
  <2>3. damage \in 0 .. MaxDamage
    BY HandshakeAssumption DEF Init
  <2> QED  BY <2>1, <2>2, <2>3 DEF Init, TypeOK
<1>2. PayloadsTraceable
  BY DEF Init, PayloadsTraceable, Traceable, NoPayload
<1>3. VerifiedFirst /\ KeysDerived
  BY DEF Init, VerifiedFirst, KeysDerived, NoKey
<1> QED  BY <1>1, <1>2, <1>3 DEF HandshakeInv

\* A step that moves no payload and at most closes connections or moves a party
\* to a place where nothing is derived.
LEMMA QuietStep ==
    ASSUME HandshakeInv, NEW p \in Party, NEW a,
           a \in {"listening", "sending", "receiving", "lost", "failed", "gone"},
           p = "bob" => a # "sending",
           at' = [at EXCEPT ![p] = a],
           k0[p] = NoKey \/ a = "lost",
           open' \in [Party -> BOOLEAN],
           UNCHANGED <<pin, wire, got, k0, network>>
    PROVE  HandshakeInv'
<1>1. TypeOK'
  BY DEF HandshakeInv, TypeOK, network, InProgress
<1>2. PayloadsTraceable'
  BY DEF HandshakeInv, PayloadsTraceable, Traceable, network
<1>3. VerifiedFirst'
  BY DEF HandshakeInv, TypeOK, VerifiedFirst, Trusted, network
<1>4. KeysDerived'
  BY DEF HandshakeInv, TypeOK, KeysDerived, Trusted, network
<1> QED  BY <1>1, <1>2, <1>3, <1>4 DEF HandshakeInv

\* A party still short of "established" has no key.
LEMMA NoKeyYet ==
    ASSUME HandshakeInv, NEW p \in Party, at[p] \notin {"established", "lost"}
    PROVE  k0[p] = NoKey
BY DEF HandshakeInv, KeysDerived

\* Sending puts one's own payload on the wire.
LEMMA SendPayloadInv ==
    ASSUME HandshakeInv, NEW p \in Party, SendPayload(p)
    PROVE  HandshakeInv'
<1> DEFINE e == [key |-> p, signature |-> SignPublicKey(p, p)]
           q == Peer(p)
<1>1. /\ at[p] = "sending"
      /\ at' = [at EXCEPT ![p] = IF p = "alice" THEN "receiving" ELSE "deriving"]
      /\ wire' = [wire EXCEPT ![q] = IF open[q] THEN Append(wire[q], e) ELSE wire[q]]
      /\ UNCHANGED <<pin, open, got, k0, network>>
  BY DEF SendPayload, Proceed, NextStep
<1>2. q \in Party /\ Peer(q) = p /\ e \in Payload /\ wire[q] \in Seq(Payload)
  BY PeerOfPeer, PayloadTypes DEF HandshakeInv, TypeOK
<1>3. /\ Append(wire[q], e) \in Seq(Payload)
      /\ \A i \in DOMAIN Append(wire[q], e) :
            \/ Append(wire[q], e)[i] = e
            \/ i \in DOMAIN wire[q] /\ Append(wire[q], e)[i] = wire[q][i]
  BY <1>2, WireElements
<1>4. TypeOK'
  BY <1>1, <1>2, <1>3 DEF HandshakeInv, TypeOK, network, InProgress
<1>5. Traceable(q, e)
  BY <1>2 DEF Traceable
<1>6. PayloadsTraceable'
  <2> SUFFICES ASSUME NEW r \in Party
               PROVE  /\ Traceable(r, got[r])'
                      /\ \A i \in DOMAIN wire'[r] : Traceable(r, wire[r][i])'
    BY DEF PayloadsTraceable
  <2>1. damage' = damage /\ got' = got
    BY <1>1 DEF network
  <2>2. CASE r = q /\ open[q]
    <3>1. wire'[r] = Append(wire[q], e)
      BY <1>1, <1>2, <2>2 DEF HandshakeInv, TypeOK
    <3> QED  BY <1>3, <1>5, <2>1, <2>2, <3>1
             DEF HandshakeInv, PayloadsTraceable, Traceable
  <2>3. CASE ~(r = q /\ open[q])
    <3>1. wire'[r] = wire[r]
      BY <1>1, <1>2, <2>3 DEF HandshakeInv, TypeOK
    <3> QED  BY <2>1, <3>1 DEF HandshakeInv, PayloadsTraceable, Traceable
  <2> QED  BY <2>2, <2>3
<1>7. VerifiedFirst'
  BY <1>1 DEF HandshakeInv, TypeOK, VerifiedFirst, Trusted, Party
<1>8. KeysDerived'
  BY <1>1, NoKeyYet DEF HandshakeInv, TypeOK, KeysDerived, Trusted
<1> QED  BY <1>4, <1>6, <1>7, <1>8 DEF HandshakeInv

\* Reading moves the head of the wire into got; nobody has relied on got yet.
LEMMA ReceivePayloadInv ==
    ASSUME HandshakeInv, NEW p \in Party, ReceivePayload(p)
    PROVE  HandshakeInv'
<1>1. /\ at[p] = "receiving" /\ at' = [at EXCEPT ![p] = "verifying"]
      /\ wire[p] # << >>
      /\ got' = [got EXCEPT ![p] = Head(wire[p])]
      /\ wire' = [wire EXCEPT ![p] = Tail(wire[p])]
      /\ UNCHANGED <<pin, open, k0, network>>
  BY DEF ReceivePayload, Proceed, NextStep
<1>2. /\ Head(wire[p]) \in Payload /\ 1 \in DOMAIN wire[p] /\ Head(wire[p]) = wire[p][1]
      /\ Tail(wire[p]) \in Seq(Payload)
      /\ \A i \in DOMAIN Tail(wire[p]) :
            i + 1 \in DOMAIN wire[p] /\ Tail(wire[p])[i] = wire[p][i + 1]
  BY <1>1, WireElements, PayloadTypes DEF HandshakeInv, TypeOK
<1>3. TypeOK'
  BY <1>1, <1>2 DEF HandshakeInv, TypeOK, network, InProgress
<1>4. PayloadsTraceable'
  <2> SUFFICES ASSUME NEW r \in Party
               PROVE  /\ Traceable(r, got[r])'
                      /\ \A i \in DOMAIN wire'[r] : Traceable(r, wire[r][i])'
    BY DEF PayloadsTraceable
  <2>1. damage' = damage
    BY <1>1 DEF network
  <2>2. CASE r = p
    <3>1. wire'[r] = Tail(wire[p]) /\ got'[r] = wire[p][1]
      BY <1>1, <1>2, <2>2 DEF HandshakeInv, TypeOK
    <3> QED  BY <1>2, <2>1, <2>2, <3>1
             DEF HandshakeInv, PayloadsTraceable, Traceable
  <2>3. CASE r # p
    <3>1. wire'[r] = wire[r] /\ got'[r] = got[r]
      BY <1>1, <2>3 DEF HandshakeInv, TypeOK
    <3> QED  BY <2>1, <3>1 DEF HandshakeInv, PayloadsTraceable, Traceable
  <2> QED  BY <2>2, <2>3
<1>5. VerifiedFirst'
  BY <1>1 DEF HandshakeInv, TypeOK, VerifiedFirst, Trusted
<1>6. KeysDerived'
  BY <1>1, NoKeyYet DEF HandshakeInv, TypeOK, KeysDerived, Trusted
<1> QED  BY <1>3, <1>4, <1>5, <1>6 DEF HandshakeInv

\* A verified payload is a trusted one.
LEMMA VerifyPayloadInv ==
    ASSUME HandshakeInv, NEW p \in Party, VerifyPayload(p)
    PROVE  HandshakeInv'
<1>1. /\ at[p] = "verifying" /\ Trusted(p)
      /\ at' = [at EXCEPT ![p] = IF p = "alice" THEN "deriving" ELSE "sending"]
      /\ UNCHANGED <<pin, open, wire, got, k0, network>>
  BY DEF VerifyPayload, Proceed, NextStep
<1>2. TypeOK'
  BY <1>1 DEF HandshakeInv, TypeOK, network, InProgress
<1>3. PayloadsTraceable'
  BY <1>1 DEF HandshakeInv, PayloadsTraceable, Traceable, network
<1>4. VerifiedFirst'
  BY <1>1 DEF HandshakeInv, TypeOK, VerifiedFirst, Trusted
<1>5. KeysDerived'
  BY <1>1, NoKeyYet DEF HandshakeInv, TypeOK, KeysDerived, Trusted
<1> QED  BY <1>2, <1>3, <1>4, <1>5 DEF HandshakeInv

\* The key is derived from the trusted payload.
LEMMA EstablishInv ==
    ASSUME HandshakeInv, NEW p \in Party, Establish(p)
    PROVE  HandshakeInv'
<1>1. /\ at[p] = "deriving" /\ got[p].key # "unusable"
      /\ k0' = [k0 EXCEPT ![p] = Derive(p, got[p].key)]
      /\ at' = [at EXCEPT ![p] = "established"]
      /\ UNCHANGED <<pin, open, wire, got, network>>
  BY DEF Establish
<1>2. Derive(p, got[p].key) \in SUBSET PublicKey
  BY DEF HandshakeInv, TypeOK, Payload, PublicKey, Party, Derive
<1>3. TypeOK'
  BY <1>1, <1>2 DEF HandshakeInv, TypeOK, network
<1>4. PayloadsTraceable'
  BY <1>1 DEF HandshakeInv, PayloadsTraceable, Traceable, network
<1>5. VerifiedFirst'
  BY <1>1 DEF HandshakeInv, TypeOK, VerifiedFirst, Trusted
<1>6. Trusted(p)
  BY <1>1 DEF HandshakeInv, VerifiedFirst
<1>7. KeysDerived'
  BY <1>1, <1>6 DEF HandshakeInv, TypeOK, KeysDerived, Trusted
<1> QED  BY <1>3, <1>4, <1>5, <1>7 DEF HandshakeInv

\* Damage leaves the peer's signature alone or destroys it; it never counts as
\* no damage.
LEMMA DamageInv ==
    ASSUME HandshakeInv, NEW p \in Party, Damage(p)
    PROVE  HandshakeInv'
<1>1. PICK d \in Damaged(Head(wire[p])) : wire' = [wire EXCEPT ![p] = <<d>> \o Tail(wire[p])]
  BY DEF Damage
<1>2. /\ damage < MaxDamage /\ damage' = damage + 1 /\ wire[p] # << >>
      /\ UNCHANGED <<at, pin, open, got, k0, stalled>>
  BY DEF Damage
<1>3. Head(wire[p]) \in Payload /\ 1 \in DOMAIN wire[p] /\ Head(wire[p]) = wire[p][1]
  BY <1>2, WireElements, PayloadTypes DEF HandshakeInv, TypeOK
<1>4. d \in Payload
  BY <1>1, <1>3, PayloadTypes
<1>5. /\ <<d>> \o Tail(wire[p]) \in Seq(Payload)
      /\ \A i \in DOMAIN (<<d>> \o Tail(wire[p])) :
            \/ (<<d>> \o Tail(wire[p]))[i] = d
            \/ i \in DOMAIN wire[p] /\ (<<d>> \o Tail(wire[p]))[i] = wire[p][i]
  BY <1>2, <1>4, WireElements DEF HandshakeInv, TypeOK
<1>6. damage' \in 0 .. MaxDamage /\ damage' # 0
  BY <1>2, HandshakeAssumption DEF HandshakeInv, TypeOK
<1>7. TypeOK'
  BY <1>1, <1>2, <1>5, <1>6 DEF HandshakeInv, TypeOK
<1>8. Traceable(p, d)'
  <2>1. Traceable(p, Head(wire[p]))
    BY <1>3 DEF HandshakeInv, PayloadsTraceable
  <2>2. d.signature.by # "nobody" => d.signature = Head(wire[p]).signature
    BY <1>3 DEF Damaged, Payload, Signature
  <2> QED  BY <1>6, <2>1, <2>2 DEF Traceable
<1>9. PayloadsTraceable'
  <2> SUFFICES ASSUME NEW r \in Party
               PROVE  /\ Traceable(r, got[r])'
                      /\ \A i \in DOMAIN wire'[r] : Traceable(r, wire[r][i])'
    BY DEF PayloadsTraceable
  <2>2. Traceable(r, got[r])'
    BY <1>2, <1>6 DEF HandshakeInv, PayloadsTraceable, Traceable
  <2>3. CASE r = p
    <3>1. wire'[r] = <<d>> \o Tail(wire[p])
      BY <1>1, <2>3 DEF HandshakeInv, TypeOK
    <3>2. ASSUME NEW i \in DOMAIN wire'[r]
          PROVE  Traceable(r, wire[r][i])'
      <4>1. CASE wire'[r][i] = d
        BY <1>8, <2>3, <4>1 DEF Traceable
      <4>2. CASE i \in DOMAIN wire[p] /\ wire'[r][i] = wire[p][i]
        BY <1>6, <2>3, <4>2 DEF HandshakeInv, PayloadsTraceable, Traceable
      <4> QED  BY <1>5, <3>1, <4>1, <4>2
    <3> QED  BY <2>2, <3>2
  <2>4. CASE r # p
    <3>1. wire'[r] = wire[r]
      BY <1>1, <2>4 DEF HandshakeInv, TypeOK
    <3> QED  BY <1>6, <2>2, <3>1 DEF HandshakeInv, PayloadsTraceable, Traceable
  <2> QED  BY <2>3, <2>4
<1>10. VerifiedFirst' /\ KeysDerived'
  BY <1>2 DEF HandshakeInv, VerifiedFirst, KeysDerived, Trusted
<1> QED  BY <1>7, <1>9, <1>10 DEF HandshakeInv

\* Connecting and falling silent touch neither payloads nor keys.
LEMMA ConnectionStep ==
    ASSUME HandshakeInv, Connect \/ Accept \/ Listen \/ ListenFails \/ ConnectFails \/ Stall
    PROVE  HandshakeInv'
<1> USE DEF Party
<1>0. open \in [Party -> BOOLEAN] /\ at \in [Party -> InProgress \cup
        {"idle", "listening", "established", "lost", "failed", "gone"}]
  BY DEF HandshakeInv, TypeOK
<1>1. CASE Connect
  <2>1. k0["bob"] = NoKey
    BY <1>1, NoKeyYet DEF Connect
  <2> QED  BY <1>1, <2>1, QuietStep DEF Connect, NextStep
<1>2. CASE Accept
  <2>1. k0["alice"] = NoKey
    BY <1>2, NoKeyYet DEF Accept
  <2> QED  BY <1>0, <1>2, <2>1, QuietStep DEF Accept, NextStep
<1>3. CASE Listen
  <2>1. k0["alice"] = NoKey
    BY <1>3, NoKeyYet DEF Listen
  <2> QED  BY <1>0, <1>3, <2>1, QuietStep DEF Listen
<1>4. CASE ConnectFails
  <2>1. k0["bob"] = NoKey
    BY <1>4, NoKeyYet DEF ConnectFails
  <2> QED  BY <1>0, <1>4, <2>1, QuietStep DEF ConnectFails, Fail
<1>5. CASE Stall
  BY <1>5 DEF Stall, HandshakeInv, TypeOK, PayloadsTraceable, Traceable, VerifiedFirst,
              KeysDerived, Trusted
<1>6. CASE ListenFails
  <2>1. k0["alice"] = NoKey
    BY <1>6, NoKeyYet DEF ListenFails
  <2> QED  BY <1>0, <1>6, <2>1, QuietStep DEF ListenFails, Fail
<1> QED  BY <1>1, <1>2, <1>3, <1>4, <1>5, <1>6

\* A party that gives up, is interrupted, or loses its peer.
LEMMA GiveUpStep ==
    ASSUME HandshakeInv, NEW p \in Party,
           \/ SendRaises(p) \/ ReceiveFails(p) \/ RejectPayload(p) \/ DeriveFails(p)
           \/ LosesPeer(p) \/ Interrupt(p)
    PROVE  HandshakeInv'
<1>0. open \in [Party -> BOOLEAN]
  BY DEF HandshakeInv, TypeOK
<1>1. CASE SendRaises(p) \/ ReceiveFails(p) \/ RejectPayload(p) \/ DeriveFails(p)
  <2>1. k0[p] = NoKey
    BY <1>1, NoKeyYet DEF SendRaises, ReceiveFails, RejectPayload, DeriveFails
  <2>2. /\ at' = [at EXCEPT ![p] = "failed"]
        /\ open' = [open EXCEPT ![p] = FALSE]
        /\ UNCHANGED <<pin, wire, got, k0, network>>
    BY <1>1 DEF SendRaises, ReceiveFails, RejectPayload, DeriveFails, Fail
  <2> QED  BY <1>0, <2>1, <2>2, QuietStep
<1>2. CASE LosesPeer(p)
  BY <1>0, <1>2, QuietStep DEF LosesPeer
<1>3. CASE Interrupt(p)
  <2>1. k0[p] = NoKey
    BY <1>3, NoKeyYet DEF Interrupt, InProgress
  <2> QED  BY <1>0, <1>3, <2>1, QuietStep DEF Interrupt
<1> QED  BY <1>1, <1>2, <1>3

\* Every step keeps the invariant.
LEMMA NextInv == HandshakeInv /\ [Next]_vars => HandshakeInv'
<1> SUFFICES ASSUME HandshakeInv, [Next]_vars PROVE HandshakeInv'
  OBVIOUS
<1>1. CASE Listen \/ ListenFails \/ Connect \/ ConnectFails \/ Accept \/ Stall
  BY <1>1, ConnectionStep
<1>2. ASSUME NEW p \in Party, Runs(p) \/ Interrupt(p) \/ Damage(p)
      PROVE  HandshakeInv'
  BY <1>2, SendPayloadInv, ReceivePayloadInv, VerifyPayloadInv, EstablishInv,
     DamageInv, GiveUpStep
     DEF Runs
<1>3. CASE UNCHANGED vars
  BY <1>3 DEF vars, HandshakeInv, TypeOK, PayloadsTraceable, Traceable, VerifiedFirst,
              KeysDerived, Trusted
<1> QED  BY <1>1, <1>2, <1>3 DEF Next

\* The inductive invariant holds in every run of every instance.
THEOREM HandshakeInvariance == Spec => []HandshakeInv
<1>1. Init => HandshakeInv
  BY InitInv
<1>2. HandshakeInv /\ [Next]_vars => HandshakeInv'
  BY NextInv
<1> QED  BY <1>1, <1>2, PTL DEF Spec

\* Both parties, their wires and what they received keep their types, and no more
\* payloads are damaged than the bound.
THEOREM HandshakeTypes == Spec => []TypeOK
<1>1. HandshakeInv => TypeOK
  BY DEF HandshakeInv
<1> QED  BY <1>1, HandshakeInvariance, PTL

\* What a pinned party's trusted payload says: the peer made the key, and the
\* pinned identity is the peer's.
LEMMA TrustedIsGenuine ==
    ASSUME HandshakeInv, NEW p \in Party, pin[p] # Unpinned, Trusted(p)
    PROVE  pin[p] = Peer(p) /\ got[p].key = Peer(p)
<1>1. got[p].signature = [by |-> pin[p], over |-> got[p].key]
  BY DEF Trusted, Verifies, SignPublicKey
<1>2. pin[p] # "nobody"
  BY HandshakeAssumption DEF HandshakeInv, TypeOK, Party, Unpinned
<1>3. got[p].signature = [by |-> Peer(p), over |-> Peer(p)]
  BY <1>1, <1>2 DEF HandshakeInv, PayloadsTraceable, Traceable, SignPublicKey
<1> QED  BY <1>1, <1>3

\* verify_public_key comes before any key is derived: a pinned party shares a
\* key with the peer it pinned, over the key the peer made, or has no session.
THEOREM PinnedPeersAreGenuine == Spec => []PinnedPeerIsGenuine
<1>1. HandshakeInv => PinnedPeerIsGenuine
  BY TrustedIsGenuine DEF HandshakeInv, KeysDerived, PinnedPeerIsGenuine
<1> QED  BY <1>1, HandshakeInvariance, PTL

\* Two sessions at the ends of one connection start from one K0, unless payloads
\* were damaged and a party did not pin its peer.
THEOREM EndsAgree == Spec => []Agreement
<1>1. HandshakeInv => Agreement
  <2> SUFFICES ASSUME HandshakeInv, NEW p \in Party,
                      k0[p] # NoKey, k0[Peer(p)] # NoKey,
                      damage = 0 \/ \A q \in Party : pin[q] # Unpinned
               PROVE  k0[p] = k0[Peer(p)]
    BY DEF Agreement
  <2>1. ASSUME NEW q \in Party, k0[q] # NoKey
        PROVE  k0[q] = {q, Peer(q)}
    <3>1. Trusted(q) /\ got[q].key # "unusable" /\ k0[q] = {q, got[q].key}
      BY <2>1 DEF HandshakeInv, KeysDerived, Derive
    <3>2. got[q].key = Peer(q)
      BY <3>1, TrustedIsGenuine DEF HandshakeInv, PayloadsTraceable, Traceable
    <3> QED  BY <3>1, <3>2
  <2>2. Peer(p) \in Party /\ Peer(Peer(p)) = p
    BY PeerOfPeer
  <2>3. k0[p] = {p, Peer(p)} /\ k0[Peer(p)] = {Peer(p), p}
    BY <2>1, <2>2
  <2> QED  BY <2>3
<1> QED  BY <1>1, HandshakeInvariance, PTL
-----------------------------------------------------------------------------
(* Who waits for whom.  Alice's payload comes first: while she has not sent it bob *)
(* reads, and until bob has sent his, alice waits for him and not he for her.      *)

SentByBob == {"deriving", "established", "lost"}

InTurn ==
    /\ \A p \in Party : at[p] \in InProgress => open[p]
    /\ at["alice"] = "idle" => ~open["alice"]
    /\ wire["bob"] # << >> => at["alice"] \notin {"idle", "listening", "sending"}
    /\ wire["alice"] # << >> \/ at["alice"] \in {"verifying", "deriving", "established", "lost"}
          => at["bob"] \notin {"idle", "receiving", "verifying", "sending"}
    /\ at["alice"] \in {"listening", "sending"} /\ open["alice"]
          => ~open["bob"] \/ at["bob"] = "receiving"
    /\ at["alice"] = "receiving" =>
          \/ ~open["bob"]
          \/ at["bob"] \in {"verifying", "sending"}
          \/ at["bob"] = "receiving" /\ wire["bob"] # << >>
          \/ at["bob"] \in SentByBob /\ wire["alice"] # << >>
    /\ at["bob"] = "receiving" =>
          \/ ~open["alice"]
          \/ at["alice"] \in {"listening", "sending"}
          \/ at["alice"] = "receiving" /\ wire["bob"] # << >>

\* The types InTurn needs.
Places ==
    /\ at \in [Party -> InProgress \cup {"idle", "listening", "established",
                                         "lost", "failed", "gone"}]
    /\ open \in [Party -> BOOLEAN]
    /\ wire \in [Party -> Seq(Payload)]

\* Both users at the start, the connection, and its acceptance.
LEMMA ConnectingInTurn ==
    ASSUME Places, InTurn, Listen \/ ListenFails \/ Connect \/ ConnectFails \/ Accept
    PROVE  InTurn'
<1> USE DEF Places, InTurn, Party, InProgress, SentByBob
<1>1. CASE Listen
  BY <1>1 DEF Listen
<1>2. CASE Connect
  BY <1>2 DEF Connect, NextStep
<1>3. CASE ConnectFails
  BY <1>3 DEF ConnectFails, Fail
<1>4. CASE Accept
  BY <1>4 DEF Accept, NextStep
<1>5. CASE ListenFails
  BY <1>5 DEF ListenFails, Fail
<1> QED  BY <1>1, <1>2, <1>3, <1>4, <1>5

\* A payload is sent: the reader at the other end has something to read.
LEMMA SendInTurn ==
    ASSUME Places, InTurn, NEW p \in Party, SendPayload(p)
    PROVE  InTurn'
<1> DEFINE e == [key |-> p, signature |-> SignPublicKey(p, p)]
<1>1. /\ at[p] = "sending"
      /\ at' = [at EXCEPT ![p] = IF p = "alice" THEN "receiving" ELSE "deriving"]
      /\ wire' = [wire EXCEPT ![Peer(p)] =
                     IF open[Peer(p)] THEN Append(wire[Peer(p)], e) ELSE wire[Peer(p)]]
      /\ open' = open
  BY DEF SendPayload, Proceed, NextStep
<1>2. Append(wire[Peer(p)], e) # << >>
  BY PeerOfPeer, PayloadTypes, AppendProperties DEF Places
<1> HIDE DEF e
<1>3. /\ open[Peer(p)] => wire'[Peer(p)] # << >>
      /\ ~open[Peer(p)] => wire'[Peer(p)] = wire[Peer(p)]
      /\ wire'[p] = wire[p]
  BY <1>1, <1>2, PeerOfPeer DEF Places
<1>4. CASE p = "alice"
  BY <1>1, <1>3, <1>4 DEF Places, InTurn, Party, Peer, InProgress, SentByBob
<1>5. CASE p = "bob"
  BY <1>1, <1>3, <1>5 DEF Places, InTurn, Party, Peer, InProgress, SentByBob
<1> QED  BY <1>4, <1>5 DEF Party

\* A payload is read, and verified.
LEMMA ReadInTurn ==
    ASSUME Places, InTurn, NEW p \in Party, ReceivePayload(p) \/ VerifyPayload(p)
    PROVE  InTurn'
<1>1. CASE ReceivePayload(p)
  <2>1. /\ at[p] = "receiving" /\ wire[p] # << >>
        /\ at' = [at EXCEPT ![p] = "verifying"] /\ open' = open
        /\ \A r \in Party : r # p => wire'[r] = wire[r]
    BY <1>1 DEF ReceivePayload, Proceed, NextStep, Places
  <2>2. CASE p = "alice"
    BY <2>1, <2>2 DEF Places, InTurn, Party, InProgress, SentByBob
  <2>3. CASE p = "bob"
    BY <2>1, <2>3 DEF Places, InTurn, Party, InProgress, SentByBob
  <2> QED  BY <2>2, <2>3 DEF Party
<1>2. CASE VerifyPayload(p)
  <2>1. /\ at[p] = "verifying" /\ UNCHANGED <<open, wire>>
        /\ at' = [at EXCEPT ![p] = IF p = "alice" THEN "deriving" ELSE "sending"]
    BY <1>2 DEF VerifyPayload, Proceed, NextStep
  <2> QED  BY <2>1 DEF Places, InTurn, Party, InProgress, SentByBob
<1> QED  BY <1>1, <1>2

\* A party gives up, and closes its end.
LEMMA ClosingInTurn ==
    ASSUME Places, InTurn, NEW p \in Party,
           NEW a \in {"failed", "gone"}, at' = [at EXCEPT ![p] = a],
           open' = [open EXCEPT ![p] = FALSE], wire' = wire
    PROVE  InTurn'
<1>1. CASE p = "alice"
  BY <1>1 DEF Places, InTurn, Party, InProgress, SentByBob
<1>2. CASE p = "bob"
  BY <1>2 DEF Places, InTurn, Party, InProgress, SentByBob
<1> QED  BY <1>1, <1>2 DEF Party

\* A session is established, or finds its connection closed.
LEMMA SessionInTurn ==
    ASSUME Places, InTurn, NEW p \in Party, Establish(p) \/ LosesPeer(p)
    PROVE  InTurn'
<1>1. CASE Establish(p)
  BY <1>1 DEF Establish, Places, InTurn, Party, InProgress, SentByBob
<1>2. CASE LosesPeer(p)
  BY <1>2 DEF LosesPeer, Places, InTurn, Party, InProgress, SentByBob
<1> QED  BY <1>1, <1>2

\* Damage empties no wire.
LEMMA DamageInTurn ==
    ASSUME Places, InTurn, NEW p \in Party, Damage(p)
    PROVE  InTurn'
<1>1. PICK d \in Damaged(Head(wire[p])) : wire' = [wire EXCEPT ![p] = <<d>> \o Tail(wire[p])]
  BY DEF Damage
<1>2. wire[p] # << >> /\ UNCHANGED <<at, open>> /\ wire[p] \in Seq(Payload)
  BY DEF Damage, Places
<1>3. d \in Payload
  BY <1>2, PayloadTypes, WireElements
<1>4. <<d>> \o Tail(wire[p]) # << >>
  <2>1. Tail(wire[p]) \in Seq(Payload)
    BY <1>2, <1>3, WireElements
  <2> QED  BY <1>3, <2>1
<1>5. \A r \in Party : wire'[r] = << >> <=> wire[r] = << >>
  BY <1>1, <1>2, <1>4 DEF Places
<1> QED  BY <1>2, <1>5 DEF InTurn, Party

\* Every step keeps the order.
LEMMA InTurnNext == HandshakeInv /\ InTurn /\ [Next]_vars => InTurn'
<1> SUFFICES ASSUME HandshakeInv, InTurn, [Next]_vars PROVE InTurn'
  OBVIOUS
<1>0. Places
  BY DEF HandshakeInv, TypeOK, Places
<1>1. CASE Listen \/ ListenFails \/ Connect \/ ConnectFails \/ Accept
  BY <1>0, <1>1, ConnectingInTurn
<1>2. ASSUME NEW p \in Party,
             SendRaises(p) \/ ReceiveFails(p) \/ RejectPayload(p) \/ DeriveFails(p) \/ Interrupt(p)
      PROVE  InTurn'
  BY <1>0, <1>2, ClosingInTurn
     DEF SendRaises, ReceiveFails, RejectPayload, DeriveFails, Interrupt, Fail
<1>3. ASSUME NEW p \in Party,
             \/ SendPayload(p) \/ ReceivePayload(p) \/ VerifyPayload(p)
             \/ Establish(p) \/ LosesPeer(p) \/ Damage(p)
      PROVE  InTurn'
  BY <1>0, <1>3, SendInTurn, ReadInTurn, SessionInTurn, DamageInTurn
<1>4. CASE Stall \/ UNCHANGED vars
  BY <1>4 DEF Stall, vars, InTurn
<1> QED  BY <1>1, <1>2, <1>3, <1>4 DEF Next, Runs

\* The order of the steps of _handshake_listener and _handshake_connector, and that
\* every failure closes the connection, leave no side waiting for the other in vain:
\* the safety half of HandshakeEnds, for any pins, damage, interrupts and silence.
THEOREM NobodyWaits == Spec => []NobodyWaitsInVain
<1>1. Init => InTurn
  BY DEF Init, InTurn, Party, InProgress
<1>2. InTurn => NobodyWaitsInVain
  BY DEF InTurn, NobodyWaitsInVain, Party, Peer, SentByBob
<1> QED  BY <1>1, <1>2, InTurnNext, HandshakeInvariance, PTL DEF Spec
=============================================================================
