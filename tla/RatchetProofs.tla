--------------------------- MODULE RatchetProofs ---------------------------
(***************************************************************************)
(* Proofs about Ratchet: the inductive invariant IndInv, and with it that  *)
(* the chains agree and that a session implements PrefixDelivery, for      *)
(* every K0, nonce and plaintext set, sequence limit and fault budget.     *)
(***************************************************************************)
EXTENDS Ratchet, SequenceTheorems, TLAPS

\* Peer is an involution without fixed points on the two parties.
LEMMA PeerProperties ==
    \A p \in Party : Peer(p) \in Party /\ Peer(p) # p /\ Peer(Peer(p)) = p
  BY DEF Party, Peer

\* advance_key makes a key one step longer.
LEMMA AdvanceKeyType ==
    ASSUME NEW k \in Key, NEW n \in Nonce, NEW s \in Nat
    PROVE  AdvanceKey(k, n, s) \in Key /\ Len(AdvanceKey(k, n, s)) = Len(k) + 1
<1>1. [nonce |-> n, sequence |-> s] \in Step
  BY DEF Step
<1> QED
  BY <1>1, AppendProperties DEF AdvanceKey, Key

LEMMA RotatedType ==
    ASSUME NEW d \in DirectionState, NEW n \in Nonce, NEW s \in Nat
    PROVE  /\ Rotated(d, n, s) \in DirectionState
           /\ Rotated(d, n, s).sequence_number = d.sequence_number + 1
           /\ Rotated(d, n, s).current_key = AdvanceKey(d.current_key, n, s)
<1>1. AdvanceKey(d.current_key, n, s) \in Key
  BY AdvanceKeyType DEF DirectionState
<1> QED
  BY <1>1 DEF Rotated, DirectionState

\* RotateSend and RotateReceive keep a session state well typed and touch only
\* their own direction.
LEMMA RotateSendType ==
    ASSUME NEW st \in DKESessionState, NEW n \in Nonce
    PROVE  /\ RotateSend(st, n) \in DKESessionState
           /\ RotateSend(st, n).inbound = st.inbound
           /\ RotateSend(st, n).outbound.sequence_number = st.outbound.sequence_number + 1
           /\ RotateSend(st, n).outbound.current_key =
                AdvanceKey(st.outbound.current_key, n, st.outbound.sequence_number)
<1>1. st.outbound \in DirectionState /\ st.outbound.sequence_number \in Nat
  BY DEF DKESessionState, DirectionState
<1>2. Rotated(st.outbound, n, st.outbound.sequence_number) \in DirectionState
  BY <1>1, RotatedType
<1> QED
  BY <1>1, <1>2, RotatedType DEF RotateSend, DKESessionState

LEMMA RotateReceiveType ==
    ASSUME NEW st \in DKESessionState, NEW n \in Nonce, NEW s \in Nat
    PROVE  /\ RotateReceive(st, n, s) \in DKESessionState
           /\ RotateReceive(st, n, s).outbound = st.outbound
           /\ RotateReceive(st, n, s).inbound.sequence_number = st.inbound.sequence_number + 1
           /\ RotateReceive(st, n, s).inbound.current_key =
                AdvanceKey(st.inbound.current_key, n, s)
<1>1. st.inbound \in DirectionState
  BY DEF DKESessionState
<1>2. Rotated(st.inbound, n, s) \in DirectionState
  BY <1>1, RotatedType
<1> QED
  BY <1>1, <1>2, RotatedType DEF RotateReceive, DKESessionState

\* Damage keeps an envelope an envelope and never forges an intact ciphertext.
LEMMA DamagedType ==
    ASSUME NEW e \in Envelope, NEW d \in Damaged(e)
    PROVE  d \in Envelope /\ (d.sealed.intact => d.sealed = e.sealed)
<1>1. CASE d = [e EXCEPT !.wellformed = FALSE]
  BY <1>1 DEF Envelope
<1>2. CASE d = [e EXCEPT !.sealed.intact = FALSE]
  <2>1. [e.sealed EXCEPT !.intact = FALSE] \in Sealed
    BY DEF Envelope, Sealed
  <2>2. d = [e EXCEPT !.sealed = [e.sealed EXCEPT !.intact = FALSE]]
    BY <1>2
  <2>3. d.sealed = [e.sealed EXCEPT !.intact = FALSE] /\ d \in Envelope
    BY <2>1, <2>2 DEF Envelope
  <2>4. d.sealed.intact = FALSE
    BY <2>3 DEF Envelope, Sealed
  <2> QED
    BY <2>3, <2>4
<1>3. CASE \E s \in (0 .. SeqLimit - 1) \ {e.sequence} : d = [e EXCEPT !.sequence = s]
  BY <1>3, SeqLimitAssumption DEF Envelope
<1>4. CASE \E n \in Nonce \ {e.nonce} : d = [e EXCEPT !.nonce = n]
  BY <1>4 DEF Envelope
<1> QED
  BY <1>1, <1>2, <1>3, <1>4 DEF Damaged

\* What _cmd_send seals is an envelope.
LEMMA SentType ==
    ASSUME NEW st \in DKESessionState, NEW n \in Nonce, NEW m \in Plaintext
    PROVE  EncodeEnvelope(OutboundParams(st).sequence, n,
                          Encrypt(OutboundParams(st).key, m, n)) \in Envelope
  BY DEF EncodeEnvelope, Encrypt, OutboundParams, DKESessionState, DirectionState,
         Envelope, Sealed

LEMMA TypeInit == Init => TypeOK
  BY RatchetAssumption, NonceAssumption
  DEF Init, TypeOK, FromK0, DKESessionState, DirectionState

\* Types survive every step.
LEMMA TypeNext == TypeOK /\ [Next]_vars => TypeOK'
<1> SUFFICES ASSUME TypeOK, [Next]_vars PROVE TypeOK'
  OBVIOUS
<1> USE DEF TypeOK
<1>1. ASSUME NEW p \in Party, SendSome(p) PROVE TypeOK'
  <2>1. PICK m \in Plaintext, n \in Urandom : Send(p, m, n)
    BY <1>1 DEF SendSome
  <2>2. n \in Nonce
    BY DEF Urandom
  <2>3. RotateSend(state[p], n) \in DKESessionState
    BY <2>2, RotateSendType
  <2> DEFINE e == EncodeEnvelope(OutboundParams(state[p]).sequence, n,
                                 Encrypt(OutboundParams(state[p]).key, m, n))
  <2>4. e \in Envelope
    BY <2>2, SentType
  <2> HIDE DEF e
  <2>5. /\ wire' = [wire EXCEPT ![Peer(p)] = Append(@, e)]
        /\ sent' = [sent EXCEPT ![p] = Append(@, e)]
        /\ state' = [state EXCEPT ![p] = RotateSend(@, n)]
        /\ UNCHANGED <<faults, displayed>>
    BY <2>1 DEF Send, e
  <2>6. /\ Append(wire[Peer(p)], e) \in Seq(Envelope)
        /\ Append(sent[p], e) \in Seq(Envelope)
    BY <2>4, PeerProperties, AppendProperties
  <2> QED
    BY <2>3, <2>5, <2>6
<1>2. ASSUME NEW p \in Party, Receive(p) PROVE TypeOK'
  <2>1. CASE Accept(p)
    <3>1. wire[p] # << >>
      BY <2>1 DEF Accept, Consume
    <3>2. Incoming(p) \in Envelope /\ Tail(wire[p]) \in Seq(Envelope)
      BY <3>1, HeadTailProperties DEF Incoming
    <3> DEFINE e == Incoming(p)
    <3>3. e.nonce \in Nonce /\ e.sequence \in Nat /\ e.sealed.plaintext \in Plaintext
      BY <3>2 DEF Envelope, Sealed
    <3>4. RotateReceive(state[p], e.nonce, e.sequence) \in DKESessionState
      BY <3>3, RotateReceiveType
    <3>5. Append(displayed[p], e.sealed.plaintext) \in Seq(Plaintext)
      BY <3>3, AppendProperties
    <3> QED
      BY <2>1, <3>2, <3>4, <3>5 DEF Accept, Consume
  <2>2. CASE Dropped(p)
    <3>1. Tail(wire[p]) \in Seq(Envelope)
      BY <2>2, HeadTailProperties DEF Dropped, Consume
    <3> QED
      BY <2>2, <3>1 DEF Dropped, Consume
  <2> QED
    BY <1>2, <2>1, <2>2
    DEF Receive, DropMalformed, DropOutOfSequence, DropUnauthentic, DropNonceReuse
<1>3. ASSUME NEW p \in Party, Relay(p) PROVE TypeOK'
  <2>1. /\ wire[p] # << >>
        /\ faults' = [faults EXCEPT ![p] = @ + 1]
        /\ UNCHANGED <<state, sent, displayed>>
    BY <1>3 DEF Relay, Lose, Repeat, Delay, Damage, Fault
  <2>2. Head(wire[p]) \in Envelope /\ Tail(wire[p]) \in Seq(Envelope)
    BY <2>1, HeadTailProperties
  <2>3. PICK w \in Seq(Envelope) : wire' = [wire EXCEPT ![p] = w]
    <3>1. CASE Lose(p)
      BY <3>1, <2>2 DEF Lose
    <3>2. CASE Repeat(p)
      BY <3>2, <2>2, AppendProperties DEF Repeat
    <3>3. CASE Delay(p)
      BY <3>3, <2>2, AppendProperties DEF Delay
    <3>4. CASE Damage(p)
      <4>1. PICK e \in Damaged(Incoming(p)) : wire' = [wire EXCEPT ![p] = <<e>> \o Tail(@)]
        BY <3>4 DEF Damage
      <4>2. e \in Envelope
        BY <2>2, DamagedType DEF Incoming
      <4>3. <<e>> \o Tail(wire[p]) \in Seq(Envelope)
        BY <4>2, <2>2, ConcatProperties
      <4> QED
        BY <4>1, <4>3
    <3> QED
      BY <1>3, <3>1, <3>2, <3>3, <3>4 DEF Relay
  <2> QED
    BY <2>1, <2>3
<1>4. CASE UNCHANGED vars
  BY <1>4 DEF vars
<1> QED
  BY <1>1, <1>2, <1>3, <1>4 DEF Next

\* Type correctness of every reachable state.
THEOREM TypeCorrect == Spec => []TypeOK
  BY TypeInit, TypeNext, PTL DEF Spec
-----------------------------------------------------------------------------
(* The inductive invariant *)

LEMMA IndInvInit == Init => IndInv
<1> SUFFICES ASSUME Init PROVE IndInv
  OBVIOUS
<1>1. TypeOK
  BY TypeInit
<1>2. \A p \in Party : /\ sent[p] = << >> /\ displayed[p] = << >> /\ wire[p] = << >>
                       /\ state[p].outbound.current_key = K0
                       /\ state[p].inbound.current_key = K0
                       /\ state[p].outbound.sequence_number = 0
                       /\ state[p].inbound.sequence_number = 0
  BY DEF Init, FromK0
<1>3. Len(K0) \in Nat
  BY RatchetAssumption, LenProperties DEF Key
<1> QED
  BY <1>1, <1>2, <1>3, PeerProperties
  DEF IndInv, SenderChain, WireGenuine, ChainsAgree, DisplayedIsSent, ChainKey

\* What a send does to the histories and chains.
LEMMA SendEffect ==
    ASSUME TypeOK, SenderChain, NEW p \in Party, NEW m \in Plaintext, NEW n \in Nonce,
           Send(p, m, n)
    PROVE  \E e \in Envelope :
             /\ e.nonce = n /\ e.sealed.nonce = n
             /\ e.sealed.key = state[p].outbound.current_key
             /\ e.wellformed /\ e.sealed.intact /\ e.sequence = Len(sent[p])
             /\ sent' = [sent EXCEPT ![p] = Append(@, e)]
             /\ wire' = [wire EXCEPT ![Peer(p)] = Append(@, e)]
             /\ displayed' = displayed
             /\ \A q \in Party : state'[q].inbound = state[q].inbound
             /\ state'[Peer(p)] = state[Peer(p)]
             /\ state'[p].outbound.sequence_number = Len(sent[p]) + 1
             /\ state'[p].outbound.current_key =
                  AdvanceKey(state[p].outbound.current_key, n, Len(sent[p]))
<1> DEFINE e == EncodeEnvelope(OutboundParams(state[p]).sequence, n,
                               Encrypt(OutboundParams(state[p]).key, m, n))
<1>1. state[p] \in DKESessionState
  BY DEF TypeOK
<1>2. e \in Envelope
  BY <1>1, SentType
<1>3. /\ e.nonce = n /\ e.sealed.nonce = n /\ e.sealed.key = state[p].outbound.current_key
      /\ e.wellformed /\ e.sealed.intact /\ e.sequence = Len(sent[p])
  <2>1. e.sequence = state[p].outbound.sequence_number
    BY DEF EncodeEnvelope, OutboundParams
  <2> QED
    BY <2>1 DEF EncodeEnvelope, Encrypt, OutboundParams, SenderChain
<1>4. /\ wire' = [wire EXCEPT ![Peer(p)] = Append(@, e)]
      /\ sent' = [sent EXCEPT ![p] = Append(@, e)]
      /\ state' = [state EXCEPT ![p] = RotateSend(@, n)]
      /\ displayed' = displayed
  BY DEF Send
<1>5. state'[p] = RotateSend(state[p], n) /\ \A q \in Party \ {p} : state'[q] = state[q]
  BY <1>4 DEF TypeOK
<1>6. \A q \in Party : state'[q].inbound = state[q].inbound
  BY <1>1, <1>5, RotateSendType
<1>7. /\ state'[p].outbound.sequence_number = Len(sent[p]) + 1
      /\ state'[p].outbound.current_key =
           AdvanceKey(state[p].outbound.current_key, n, Len(sent[p]))
  <2>1. state[p].outbound.sequence_number = Len(sent[p])
    BY DEF SenderChain
  <2> QED
    BY <1>1, <1>5, <2>1, RotateSendType
<1> HIDE DEF e
<1> QED
  BY <1>2, <1>3, <1>4, <1>5, <1>6, <1>7, PeerProperties

\* A send extends p's chain by one key and leaves every earlier key in its place.
LEMMA SendChain ==
    ASSUME TypeOK, SenderChain, NEW p \in Party, NEW m \in Plaintext, NEW n \in Nonce,
           Send(p, m, n)
    PROVE  /\ \A i \in 0 .. Len(sent[p]) : ChainKey(p, i)' = ChainKey(p, i)
           /\ \A i \in Nat : i = Len(sent[p]) =>
                ChainKey(p, i + 1)' = AdvanceKey(ChainKey(p, i), n, i)
           /\ \A i \in Nat : ChainKey(Peer(p), i)' = ChainKey(Peer(p), i)
<1>1. PICK e \in Envelope :
         /\ e.sealed.key = state[p].outbound.current_key
         /\ sent' = [sent EXCEPT ![p] = Append(@, e)]
         /\ state'[Peer(p)] = state[Peer(p)]
         /\ state'[p].outbound.current_key =
              AdvanceKey(state[p].outbound.current_key, n, Len(sent[p]))
  BY SendEffect
<1>2. /\ sent[p] \in Seq(Envelope)
      /\ sent'[p] = Append(sent[p], e)
      /\ sent'[Peer(p)] = sent[Peer(p)]
  BY <1>1, PeerProperties DEF TypeOK
<1>3. /\ Len(sent'[p]) = Len(sent[p]) + 1 /\ Len(sent[p]) \in Nat
      /\ \A i \in 1 .. Len(sent[p]) : sent'[p][i] = sent[p][i]
      /\ sent'[p][Len(sent[p]) + 1] = e
  BY <1>2, AppendProperties, LenProperties
<1>4. ASSUME NEW i \in 0 .. Len(sent[p]) PROVE ChainKey(p, i)' = ChainKey(p, i)
  <2>1. CASE i < Len(sent[p])
    <3>1. i + 1 \in 1 .. Len(sent[p]) /\ i < Len(sent'[p])
      BY <1>3, <2>1
    <3> QED
      BY <1>3, <2>1, <3>1 DEF ChainKey
  <2>2. CASE i = Len(sent[p])
    <3>1. i < Len(sent'[p]) /\ ~(i < Len(sent[p]))
      BY <1>3, <2>2
    <3> QED
      BY <1>1, <1>3, <2>2, <3>1 DEF ChainKey
  <2> QED
    BY <1>3, <2>1, <2>2
<1>5. ASSUME NEW i \in Nat, i = Len(sent[p])
      PROVE  ChainKey(p, i + 1)' = AdvanceKey(ChainKey(p, i), n, i)
  <2>1. ~(i + 1 < Len(sent'[p])) /\ ~(i < Len(sent[p]))
    BY <1>3, <1>5
  <2> QED
    BY <1>1, <1>5, <2>1 DEF ChainKey
<1>6. ASSUME NEW i \in Nat PROVE ChainKey(Peer(p), i)' = ChainKey(Peer(p), i)
  BY <1>1, <1>2 DEF ChainKey
<1> QED
  BY <1>4, <1>5, <1>6

LEMMA SendInv ==
    ASSUME IndInv, NEW p \in Party, NEW m \in Plaintext, NEW n \in Nonce, Send(p, m, n)
    PROVE  SenderChain' /\ WireGenuine' /\ ChainsAgree' /\ DisplayedIsSent'
<1> USE DEF IndInv
<1>1. PICK e \in Envelope :
         /\ e.nonce = n /\ e.sealed.nonce = n
         /\ sent' = [sent EXCEPT ![p] = Append(@, e)]
         /\ wire' = [wire EXCEPT ![Peer(p)] = Append(@, e)]
         /\ displayed' = displayed
         /\ \A q \in Party : state'[q].inbound = state[q].inbound
         /\ state'[Peer(p)] = state[Peer(p)]
         /\ state'[p].outbound.sequence_number = Len(sent[p]) + 1
  BY SendEffect
<1>2. /\ sent[p] \in Seq(Envelope) /\ wire[Peer(p)] \in Seq(Envelope)
      /\ sent'[p] = Append(sent[p], e) /\ wire'[Peer(p)] = Append(wire[Peer(p)], e)
      /\ sent'[Peer(p)] = sent[Peer(p)] /\ wire'[p] = wire[p]
  BY <1>1, PeerProperties DEF TypeOK
<1>3. /\ Len(sent'[p]) = Len(sent[p]) + 1 /\ Len(sent[p]) \in Nat
      /\ \A i \in 1 .. Len(sent[p]) : sent'[p][i] = sent[p][i]
      /\ sent'[p][Len(sent[p]) + 1] = e
      /\ DOMAIN sent'[p] = 1 .. Len(sent[p]) + 1
      /\ DOMAIN sent[p] = 1 .. Len(sent[p])
  BY <1>2, AppendProperties, LenProperties
<1>4. \A q \in Party : q = p \/ q = Peer(p)
  BY DEF Party, Peer
<1>5. SenderChain'
  <2>1. ASSUME NEW i \in 0 .. Len(sent[p]) + 1
        PROVE  Len(ChainKey(p, i)') = Len(K0) + i
    <3>1. CASE i \in 0 .. Len(sent[p])
      BY <3>1, SendChain DEF SenderChain
    <3>2. CASE i = Len(sent[p]) + 1
      <4>1. ChainKey(p, Len(sent[p])) = state[p].outbound.current_key
        BY <1>3 DEF ChainKey
      <4>2. ChainKey(p, Len(sent[p])) \in Key
        BY <4>1 DEF TypeOK, DKESessionState, DirectionState
      <4>3. Len(ChainKey(p, i)') = Len(ChainKey(p, Len(sent[p]))) + 1
        BY <1>3, <3>2, <4>2, SendChain, AdvanceKeyType
      <4>4. Len(ChainKey(p, Len(sent[p]))) = Len(K0) + Len(sent[p])
        BY <1>3 DEF SenderChain
      <4>5. Len(K0) \in Nat
        BY RatchetAssumption, LenProperties DEF Key
      <4> QED
        BY <1>3, <3>2, <4>3, <4>4, <4>5
    <3> QED
      BY <1>3, <3>1, <3>2
  <2>2. ASSUME NEW i \in 1 .. Len(sent[p]) + 1
        PROVE  /\ sent'[p][i].sealed.nonce = sent'[p][i].nonce
               /\ ChainKey(p, i)' = AdvanceKey(ChainKey(p, i - 1)', sent'[p][i].nonce, i - 1)
    <3>1. CASE i \in 1 .. Len(sent[p])
      <4>1. ChainKey(p, i)' = ChainKey(p, i) /\ ChainKey(p, i - 1)' = ChainKey(p, i - 1)
        BY <1>3, <3>1, SendChain
      <4> QED
        BY <1>3, <3>1, <4>1 DEF SenderChain
    <3>2. CASE i = Len(sent[p]) + 1
      <4>1. i - 1 = Len(sent[p]) /\ i - 1 \in 0 .. Len(sent[p])
        BY <1>3, <3>2
      <4> QED
        BY <1>1, <1>3, <3>2, <4>1, SendChain
    <3> QED
      BY <1>3, <3>1, <3>2
  <2>3. /\ state'[Peer(p)].outbound.sequence_number = Len(sent'[Peer(p)])
        /\ \A i \in 0 .. Len(sent'[Peer(p)]) : Len(ChainKey(Peer(p), i)') = Len(K0) + i
        /\ \A i \in DOMAIN sent'[Peer(p)] :
              /\ sent'[Peer(p)][i].sealed.nonce = sent'[Peer(p)][i].nonce
              /\ ChainKey(Peer(p), i)' =
                   AdvanceKey(ChainKey(Peer(p), i - 1)', sent'[Peer(p)][i].nonce, i - 1)
    <3>1. Peer(p) \in Party /\ sent[Peer(p)] \in Seq(Envelope)
      BY PeerProperties DEF TypeOK
    <3>2. \A i \in DOMAIN sent[Peer(p)] : i \in Nat /\ i - 1 \in Nat
      BY <3>1, LenProperties
    <3> QED
      BY <1>1, <1>2, <3>1, <3>2, SendChain, LenProperties DEF SenderChain
  <2>4. ASSUME NEW q \in Party
        PROVE  /\ state'[q].outbound.sequence_number = Len(sent'[q])
               /\ \A i \in 0 .. Len(sent'[q]) : Len(ChainKey(q, i)') = Len(K0) + i
               /\ \A i \in DOMAIN sent'[q] :
                     /\ sent'[q][i].sealed.nonce = sent'[q][i].nonce
                     /\ ChainKey(q, i)' =
                          AdvanceKey(ChainKey(q, i - 1)', sent'[q][i].nonce, i - 1)
    <3>1. CASE q = p
      BY <1>1, <1>3, <2>1, <2>2, <3>1
    <3>2. CASE q = Peer(p)
      BY <2>3, <3>2
    <3> QED
      BY <1>4, <3>1, <3>2
  <2> QED
    BY <2>4 DEF SenderChain
<1>6. WireGenuine'
  <2>1. ASSUME NEW k \in DOMAIN wire'[Peer(p)], wire'[Peer(p)][k].sealed.intact
        PROVE  \E i \in DOMAIN sent'[p] : wire'[Peer(p)][k].sealed = sent'[p][i].sealed
    <3>1. CASE k \in DOMAIN wire[Peer(p)]
      <4>1. wire'[Peer(p)][k] = wire[Peer(p)][k]
        BY <1>2, <3>1, AppendProperties, LenProperties
      <4>2. PICK i \in DOMAIN sent[p] : wire[Peer(p)][k].sealed = sent[p][i].sealed
        BY <2>1, <3>1, <4>1 DEF WireGenuine
      <4>3. i \in DOMAIN sent'[p] /\ sent'[p][i] = sent[p][i]
        BY <1>3
      <4> QED
        BY <4>1, <4>2, <4>3
    <3>2. CASE wire'[Peer(p)][k] = e
      BY <1>3, <3>2
    <3>3. k \in DOMAIN wire[Peer(p)] \/ wire'[Peer(p)][k] = e
      BY <1>2, AppendProperties, LenProperties
    <3> QED
      BY <3>1, <3>2, <3>3
  <2>2. ASSUME NEW k \in DOMAIN wire'[p], wire'[p][k].sealed.intact
        PROVE  \E i \in DOMAIN sent'[Peer(p)] : wire'[p][k].sealed = sent'[Peer(p)][i].sealed
    BY <1>2, <2>2, PeerProperties DEF WireGenuine
  <2> QED
    BY <1>4, <2>1, <2>2, PeerProperties DEF WireGenuine
<1>7. ChainsAgree'
  <2> SUFFICES ASSUME NEW q \in Party
               PROVE  (LET inbound == state[Peer(q)].inbound
                       IN  /\ inbound.sequence_number <= Len(sent[q])
                           /\ inbound.sequence_number = Len(displayed[Peer(q)])
                           /\ inbound.current_key = ChainKey(q, inbound.sequence_number))'
    BY DEF ChainsAgree
  <2> DEFINE i == state[Peer(q)].inbound.sequence_number
  <2>1. /\ state'[Peer(q)].inbound = state[Peer(q)].inbound
        /\ displayed' = displayed /\ Peer(q) \in Party
    BY <1>1, PeerProperties
  <2>2. /\ i \in 0 .. Len(sent[q]) /\ i = Len(displayed[Peer(q)])
        /\ state[Peer(q)].inbound.current_key = ChainKey(q, i)
    BY <2>1, LenProperties DEF ChainsAgree, TypeOK, DKESessionState, DirectionState
  <2>3. ASSUME NEW j \in 0 .. Len(sent[q])
        PROVE  ChainKey(q, j)' = ChainKey(q, j) /\ j <= Len(sent'[q])
    <3>1. CASE q = p
      BY <1>3, <3>1, SendChain
    <3>2. CASE q = Peer(p)
      BY <1>2, <3>2, SendChain, LenProperties, PeerProperties DEF TypeOK
    <3> QED
      BY <1>4, <3>1, <3>2
  <2>4. state'[Peer(q)].inbound.sequence_number = i
    BY <2>1
  <2> QED
    BY <2>1, <2>2, <2>3, <2>4
<1>8. DisplayedIsSent'
  BY <1>1, <1>2, <1>3, <1>4, PeerProperties DEF DisplayedIsSent
<1> QED
  BY <1>5, <1>6, <1>7, <1>8

\* A step that neither sends nor rotates an outbound key leaves sender chains alone.
LEMMA ChainFrame ==
    ASSUME sent' = sent,
           \A p \in Party : state'[p].outbound = state[p].outbound
    PROVE  /\ \A p \in Party, i \in Nat : ChainKey(p, i)' = ChainKey(p, i)
           /\ SenderChain /\ TypeOK => SenderChain'
<1>1. \A p \in Party, i \in Nat : ChainKey(p, i)' = ChainKey(p, i)
  BY DEF ChainKey
<1>2. ASSUME SenderChain, TypeOK PROVE SenderChain'
  <2>1. \A p \in Party : \A i \in DOMAIN sent[p] : i \in Nat /\ i - 1 \in Nat
    BY <1>2, LenProperties DEF TypeOK
  <2>2. \A p \in Party : \A i \in 0 .. Len(sent[p]) : i \in Nat
    BY <1>2, LenProperties DEF TypeOK
  <2> QED
    BY <1>1, <1>2, <2>1, <2>2 DEF SenderChain
<1> QED
  BY <1>1, <1>2

\* The envelope a party accepts is the next one its peer sent: the key opens it,
\* and the key's length tells which message it sealed.
LEMMA AcceptedIsNext ==
    ASSUME IndInv, NEW p \in Party, Accept(p)
    PROVE  LET e == Incoming(p)
               d == state[p].inbound.sequence_number
           IN  /\ d + 1 \in DOMAIN sent[Peer(p)]
               /\ e \in Envelope
               /\ e.sequence = d
               /\ e.sealed = sent[Peer(p)][d + 1].sealed
               /\ AdvanceKey(state[p].inbound.current_key, e.nonce, e.sequence) =
                    ChainKey(Peer(p), d + 1)
<1> DEFINE e == Incoming(p)
           d == state[p].inbound.sequence_number
           q == Peer(p)
<1> USE DEF IndInv
<1>1. q \in Party /\ Peer(q) = p
  BY PeerProperties
<1>2. wire[p] # << >> /\ wire[p] \in Seq(Envelope) /\ sent[q] \in Seq(Envelope)
  BY <1>1 DEF Accept, Consume, TypeOK
<1>3. 1 \in DOMAIN wire[p] /\ e = wire[p][1] /\ e \in Envelope
  BY <1>2, HeadTailProperties, LenProperties, EmptySeq DEF Incoming
<1>4. /\ e.sealed.intact /\ e.sealed.key = state[p].inbound.current_key
      /\ e.sealed.nonce = e.nonce /\ e.sequence = d
  BY DEF Accept, Opens, Authentic, InboundKey, InSequence, ValidSequence
<1>5. PICK i \in DOMAIN sent[q] : e.sealed = sent[q][i].sealed
  BY <1>1, <1>3, <1>4 DEF WireGenuine
<1>6. i \in 1 .. Len(sent[q]) /\ Len(sent[q]) \in Nat
  BY <1>2, <1>5, LenProperties
<1>7. e.sealed.key = ChainKey(q, i - 1)
  <2>1. i - 1 < Len(sent[q]) /\ (i - 1) + 1 = i
    BY <1>6
  <2> QED
    BY <1>5, <2>1 DEF ChainKey
<1>8. Len(e.sealed.key) = Len(K0) + (i - 1)
  BY <1>1, <1>6, <1>7 DEF SenderChain
<1>9. d \in 0 .. Len(sent[q]) /\ state[p].inbound.current_key = ChainKey(q, d)
  BY <1>1, <1>6 DEF ChainsAgree, TypeOK, DKESessionState, DirectionState
<1>10. Len(state[p].inbound.current_key) = Len(K0) + d
  BY <1>1, <1>9 DEF SenderChain
<1>11. Len(K0) \in Nat
  BY RatchetAssumption, LenProperties DEF Key
<1>12. i = d + 1
  <2>1. Len(e.sealed.key) = Len(K0) + d
    BY <1>4, <1>10
  <2> HIDE DEF e, d
  <2> QED
    BY <1>6, <1>8, <1>9, <1>11, <2>1
<1>13. e.nonce = sent[q][i].nonce
  BY <1>1, <1>4, <1>5 DEF SenderChain
<1>14. ChainKey(q, i) = AdvanceKey(ChainKey(q, i - 1), sent[q][i].nonce, i - 1)
  BY <1>1, <1>5 DEF SenderChain
<1>15. i - 1 = d
  BY <1>9, <1>12
<1> QED
  BY <1>3, <1>4, <1>5, <1>9, <1>12, <1>13, <1>14, <1>15

\* Consuming the head of the stream keeps the rest genuine.
LEMMA ConsumeGenuine ==
    ASSUME TypeOK, WireGenuine, NEW p \in Party, Consume(p), sent' = sent
    PROVE  WireGenuine'
<1>1. wire[p] # << >> /\ wire[p] \in Seq(Envelope)
  BY DEF Consume, TypeOK
<1>2. /\ wire' = [wire EXCEPT ![p] = Tail(wire[p])]
      /\ \A r \in Party : wire'[r] = IF r = p THEN Tail(wire[p]) ELSE wire[r]
  BY DEF Consume, TypeOK
<1>3. \A k \in DOMAIN Tail(wire[p]) :
          k + 1 \in DOMAIN wire[p] /\ Tail(wire[p])[k] = wire[p][k + 1]
  BY <1>1, HeadTailProperties, LenProperties
<1> QED
  BY <1>2, <1>3, PeerProperties DEF WireGenuine

LEMMA AcceptInv ==
    ASSUME IndInv, NEW p \in Party, Accept(p)
    PROVE  SenderChain' /\ WireGenuine' /\ ChainsAgree' /\ DisplayedIsSent'
<1> DEFINE e == Incoming(p)
           d == state[p].inbound.sequence_number
           q == Peer(p)
           st == RotateReceive(state[p], e.nonce, e.sequence)
<1> USE DEF IndInv
<1>1. /\ d + 1 \in DOMAIN sent[q] /\ e \in Envelope /\ e.sequence = d
      /\ e.sealed = sent[q][d + 1].sealed
      /\ AdvanceKey(state[p].inbound.current_key, e.nonce, e.sequence) = ChainKey(q, d + 1)
  BY AcceptedIsNext
<1>2. /\ Consume(p) /\ sent' = sent
      /\ state' = [state EXCEPT ![p] = st]
      /\ displayed' = [displayed EXCEPT ![p] = Append(@, e.sealed.plaintext)]
  BY DEF Accept
<1>3. /\ state[p] \in DKESessionState /\ e.nonce \in Nonce /\ e.sequence \in Nat
      /\ d \in Nat /\ e.sealed.plaintext \in Plaintext
  BY <1>1 DEF TypeOK, Envelope, Sealed, DKESessionState, DirectionState
<1>4. /\ st.outbound = state[p].outbound
      /\ st.inbound.sequence_number = d + 1
      /\ st.inbound.current_key = ChainKey(q, d + 1)
  BY <1>1, <1>3, RotateReceiveType
<1> HIDE DEF e, st
<1>5. /\ state'[p] = st /\ state'[q] = state[q]
      /\ displayed'[p] = Append(displayed[p], e.sealed.plaintext)
      /\ displayed'[q] = displayed[q]
      /\ q \in Party /\ Peer(q) = p
  BY <1>2, PeerProperties DEF TypeOK
<1>6. \A r \in Party : r = p \/ r = q
  BY DEF Party, Peer
<1>7. \A r \in Party : state'[r].outbound = state[r].outbound
  BY <1>4, <1>5, <1>6
<1>8. SenderChain' /\ \A r \in Party, i \in Nat : ChainKey(r, i)' = ChainKey(r, i)
  BY <1>2, <1>7, ChainFrame
<1>9. WireGenuine'
  BY <1>2, ConsumeGenuine
<1>10. /\ Len(displayed[p]) = d /\ DOMAIN displayed[p] = 1 .. d
       /\ Len(displayed'[p]) = d + 1 /\ DOMAIN displayed'[p] = 1 .. d + 1
       /\ \A i \in 1 .. d : displayed'[p][i] = displayed[p][i]
       /\ displayed'[p][d + 1] = e.sealed.plaintext
  <2>1. displayed[p] \in Seq(Plaintext) /\ Len(displayed[p]) = d
    BY <1>5 DEF ChainsAgree, TypeOK
  <2> QED
    BY <1>3, <1>5, <2>1, AppendProperties, LenProperties
<1>11. ChainsAgree'
  <2>1. (LET inbound == state[Peer(q)].inbound
         IN  /\ inbound.sequence_number <= Len(sent[q])
             /\ inbound.sequence_number = Len(displayed[Peer(q)])
             /\ inbound.current_key = ChainKey(q, inbound.sequence_number))'
    <3>1. d + 1 <= Len(sent'[q])
      BY <1>1, <1>2, <1>5, LenProperties DEF TypeOK
    <3>2. PICK n \in Nat : n = d + 1
      BY <1>3
    <3>3. /\ state'[p].inbound.sequence_number = n
          /\ state'[p].inbound.current_key = ChainKey(q, n)
      BY <1>4, <1>5, <3>2
    <3>4. ChainKey(q, n)' = ChainKey(q, n)
      BY <1>5, <1>8
    <3>5. Len(displayed'[p]) = n /\ n <= Len(sent'[q])
      BY <1>10, <3>1, <3>2
    <3> QED
      BY <1>5, <3>3, <3>4, <3>5
  <2>2. (LET inbound == state[Peer(p)].inbound
         IN  /\ inbound.sequence_number <= Len(sent[p])
             /\ inbound.sequence_number = Len(displayed[Peer(p)])
             /\ inbound.current_key = ChainKey(p, inbound.sequence_number))'
    <3>1. state[q].inbound.sequence_number \in Nat
      BY <1>5 DEF TypeOK, DKESessionState, DirectionState
    <3> QED
      BY <1>2, <1>5, <1>8, <3>1 DEF ChainsAgree
  <2> QED
    BY <1>6, <2>1, <2>2 DEF ChainsAgree
<1>12. DisplayedIsSent'
  <2>1. \A i \in DOMAIN displayed'[p] :
            i \in DOMAIN sent[q] /\ displayed'[p][i] = sent[q][i].sealed.plaintext
    <3>1. \A i \in 1 .. d : i \in DOMAIN sent[q] /\ displayed[p][i] = sent[q][i].sealed.plaintext
      BY <1>5, <1>10 DEF DisplayedIsSent
    <3>2. \A i \in DOMAIN displayed'[p] : i \in 1 .. d \/ i = d + 1
      BY <1>3, <1>10
    <3> QED
      BY <1>1, <1>10, <3>1, <3>2
  <2> QED
    BY <1>2, <1>5, <1>6, <2>1 DEF DisplayedIsSent
<1> QED
  BY <1>8, <1>9, <1>11, <1>12

\* A step that changes only the stream, and adds nothing forged to it.
LEMMA WireInv ==
    ASSUME IndInv, UNCHANGED <<state, sent, displayed>>, WireGenuine'
    PROVE  SenderChain' /\ WireGenuine' /\ ChainsAgree' /\ DisplayedIsSent'
<1> USE DEF IndInv
<1>1. SenderChain' /\ \A r \in Party, i \in Nat : ChainKey(r, i)' = ChainKey(r, i)
  BY ChainFrame
<1>2. ChainsAgree'
  <2>1. \A r \in Party : state[Peer(r)].inbound.sequence_number \in Nat
    BY PeerProperties DEF TypeOK, DKESessionState, DirectionState
  <2> QED
    BY <1>1, <2>1 DEF ChainsAgree
<1>3. DisplayedIsSent'
  BY DEF DisplayedIsSent
<1> QED
  BY <1>1, <1>2, <1>3

\* The relay rearranges, loses, repeats and damages, but does not forge.
LEMMA RelayGenuine ==
    ASSUME TypeOK, WireGenuine, NEW p \in Party, Relay(p)
    PROVE  WireGenuine'
<1>1. sent' = sent /\ wire[p] # << >> /\ wire[p] \in Seq(Envelope)
  BY DEF Relay, Lose, Repeat, Delay, Damage, Fault, TypeOK
<1> DEFINE h == Head(wire[p])
           t == Tail(wire[p])
<1>2. /\ h \in Envelope /\ t \in Seq(Envelope)
      /\ 1 \in DOMAIN wire[p] /\ h = wire[p][1]
      /\ \A k \in DOMAIN t : k + 1 \in DOMAIN wire[p] /\ t[k] = wire[p][k + 1]
  BY <1>1, HeadTailProperties, LenProperties, EmptySeq
<1> HIDE DEF h, t
<1> DEFINE Genuine(e) ==
        e.sealed.intact => \E i \in DOMAIN sent[Peer(p)] : e.sealed = sent[Peer(p)][i].sealed
<1>3. \A k \in DOMAIN wire[p] : Genuine(wire[p][k])
  BY PeerProperties DEF WireGenuine
<1>4. Genuine(h) /\ \A k \in DOMAIN t : Genuine(t[k])
  BY <1>2, <1>3
<1>5. PICK w : /\ wire' = [wire EXCEPT ![p] = w]
               /\ \A k \in DOMAIN w : Genuine(w[k])
  <2>1. CASE Lose(p)
    BY <2>1, <1>4 DEF Lose, t
  <2>2. CASE Repeat(p)
    <3>1. wire' = [wire EXCEPT ![p] = Append(wire[p], h)]
      BY <2>2 DEF Repeat, h, TypeOK
    <3>2. \A k \in DOMAIN Append(wire[p], h) :
              (k \in DOMAIN wire[p] /\ Append(wire[p], h)[k] = wire[p][k])
              \/ Append(wire[p], h)[k] = h
      BY <1>1, <1>2, AppendProperties, LenProperties
    <3> HIDE DEF Genuine
    <3> QED
      BY <1>3, <1>4, <3>1, <3>2
  <2>3. CASE Delay(p)
    <3>1. wire' = [wire EXCEPT ![p] = Append(t, h)]
      BY <2>3 DEF Delay, h, t, TypeOK
    <3>2. \A k \in DOMAIN Append(t, h) :
              (k \in DOMAIN t /\ Append(t, h)[k] = t[k]) \/ Append(t, h)[k] = h
      BY <1>2, AppendProperties, LenProperties
    <3> HIDE DEF Genuine
    <3> QED
      BY <1>4, <3>1, <3>2
  <2>4. CASE Damage(p)
    <3>1. PICK e \in Damaged(h) : wire' = [wire EXCEPT ![p] = <<e>> \o t]
      BY <2>4 DEF Damage, Incoming, h, t, TypeOK
    <3>2. e.sealed.intact => e.sealed = h.sealed
      BY <1>2, DamagedType
    <3>3. Genuine(e)
      BY <1>4, <3>2
    <3>4. \A k \in DOMAIN (<<e>> \o t) :
              (<<e>> \o t)[k] = e \/ (k - 1 \in DOMAIN t /\ (<<e>> \o t)[k] = t[k - 1])
      BY <1>2, LenProperties
    <3> HIDE DEF Genuine
    <3> QED
      BY <1>4, <3>1, <3>3, <3>4
  <2> QED
    BY <2>1, <2>2, <2>3, <2>4 DEF Relay
<1>6. \A r \in Party : wire'[r] = IF r = p THEN w ELSE wire[r]
  BY <1>5 DEF TypeOK
<1> QED
  BY <1>1, <1>5, <1>6, PeerProperties DEF WireGenuine

\* IndInv is inductive.
LEMMA IndInvNext == IndInv /\ [Next]_vars => IndInv'
<1> SUFFICES ASSUME IndInv, [Next]_vars PROVE IndInv'
  OBVIOUS
<1>1. TypeOK'
  BY TypeNext DEF IndInv
<1>2. ASSUME NEW p \in Party, SendSome(p)
      PROVE  SenderChain' /\ WireGenuine' /\ ChainsAgree' /\ DisplayedIsSent'
  BY <1>2, SendInv DEF SendSome, Urandom
<1>3. ASSUME NEW p \in Party, Receive(p)
      PROVE  SenderChain' /\ WireGenuine' /\ ChainsAgree' /\ DisplayedIsSent'
  <2>1. CASE Accept(p)
    BY <2>1, AcceptInv
  <2>2. CASE Dropped(p)
    BY <2>2, WireInv, ConsumeGenuine DEF Dropped, IndInv
  <2> QED
    BY <1>3, <2>1, <2>2
    DEF Receive, DropMalformed, DropOutOfSequence, DropUnauthentic, DropNonceReuse
<1>4. ASSUME NEW p \in Party, Relay(p)
      PROVE  SenderChain' /\ WireGenuine' /\ ChainsAgree' /\ DisplayedIsSent'
  <2>1. UNCHANGED <<state, sent, displayed>>
    BY <1>4 DEF Relay, Lose, Repeat, Delay, Damage, Fault
  <2> QED
    BY <1>4, <2>1, RelayGenuine, WireInv DEF IndInv
<1>5. CASE UNCHANGED vars
  <2>1. UNCHANGED <<state, sent, displayed>> /\ WireGenuine'
    BY <1>5 DEF vars, IndInv, WireGenuine
  <2> QED
    BY <1>1, <2>1, WireInv DEF IndInv
<1> QED
  BY <1>1, <1>2, <1>3, <1>4, <1>5 DEF Next, IndInv

\* The inductive invariant holds in every reachable state.
THEOREM Invariance == Spec => []IndInv
  BY IndInvInit, IndInvNext, PTL DEF Spec

\* Sender's and receiver's chains agree up to the messages shown.
THEOREM ChainsAlwaysAgree == Spec => []ChainsAgree
<1>1. IndInv => ChainsAgree
  BY DEF IndInv
<1> QED
  BY <1>1, Invariance, PTL
-----------------------------------------------------------------------------
(* Refinement of PrefixDelivery *)

LEMMA TextsLength ==
    ASSUME NEW t \in Seq(Envelope)
    PROVE  Texts(t) \in Seq(Plaintext) /\ Len(Texts(t)) = Len(t)
<1>1. /\ Len(t) \in Nat /\ DOMAIN t = 1 .. Len(t)
      /\ \A i \in 1 .. Len(t) : t[i].sealed.plaintext \in Plaintext
  <2>1. \A i \in 1 .. Len(t) : t[i] \in Envelope
    BY ElementOfSeq
  <2> QED
    BY <2>1, LenProperties DEF Envelope, Sealed
<1>2. Texts(t) = [i \in 1 .. Len(t) |-> t[i].sealed.plaintext]
  BY <1>1 DEF Texts
<1>3. Texts(t) \in Seq(Plaintext)
  BY <1>1, <1>2, IsASeq
<1> QED
  BY <1>1, <1>2, <1>3, LenProperties

LEMMA TextsAppend ==
    ASSUME NEW s \in Seq(Envelope), NEW e \in Envelope
    PROVE  Texts(Append(s, e)) = Append(Texts(s), e.sealed.plaintext)
<1>1. Texts(s) \in Seq(Plaintext) /\ Len(Texts(s)) = Len(s)
  BY TextsLength
<1>2. /\ Append(s, e) \in Seq(Envelope) /\ Len(Append(s, e)) = Len(s) + 1
      /\ Texts(Append(s, e)) \in Seq(Plaintext)
      /\ Len(Texts(Append(s, e))) = Len(s) + 1
  BY AppendProperties, TextsLength
<1>3. Append(Texts(s), e.sealed.plaintext) \in Seq(Plaintext)
  BY <1>1, AppendProperties DEF Envelope, Sealed
<1>4. Len(Append(Texts(s), e.sealed.plaintext)) = Len(s) + 1
  BY <1>1, AppendProperties DEF Envelope, Sealed
<1>5. ASSUME NEW i \in 1 .. Len(s) + 1
      PROVE  Texts(Append(s, e))[i] = Append(Texts(s), e.sealed.plaintext)[i]
  <2>1. /\ e.sealed.plaintext \in Plaintext /\ Len(s) \in Nat
        /\ DOMAIN Append(s, e) = 1 .. Len(s) + 1 /\ DOMAIN s = 1 .. Len(s)
    BY AppendProperties, LenProperties DEF Envelope, Sealed
  <2>2. CASE i \in 1 .. Len(s)
    <3>1. Append(s, e)[i] = s[i] /\ Append(Texts(s), e.sealed.plaintext)[i] = Texts(s)[i]
      BY <1>1, <2>1, <2>2, AppendProperties
    <3> QED
      BY <2>1, <2>2, <3>1 DEF Texts
  <2>3. CASE i = Len(s) + 1
    <3>1. /\ Append(s, e)[i] = e
          /\ Append(Texts(s), e.sealed.plaintext)[i] = e.sealed.plaintext
      BY <1>1, <2>1, <2>3, AppendProperties
    <3> QED
      BY <2>1, <2>3, <3>1 DEF Texts
  <2>4. i \in 1 .. Len(s) \/ i = Len(s) + 1
    BY <2>1
  <2> QED
    BY <2>2, <2>3, <2>4
<1>6. \A i \in 1 .. Len(Texts(Append(s, e))) :
          Texts(Append(s, e))[i] = Append(Texts(s), e.sealed.plaintext)[i]
  BY <1>2, <1>5
<1> QED
  BY <1>2, <1>3, <1>4, <1>6, SeqEqual

LEMMA RefinesInit == Init => Promise!Init
<1> SUFFICES ASSUME Init PROVE Promise!Init
  OBVIOUS
<1>1. Texts(<< >>) = << >>
  <2>1. << >> \in Seq(Envelope) /\ Len(<< >>) = 0
    BY EmptySeq
  <2>2. Texts(<< >>) \in Seq(Plaintext) /\ Len(Texts(<< >>)) = 0
    BY <2>1, TextsLength
  <2> QED
    BY <2>2, EmptySeq
<1>2. \A p \in Party : sent[p] = << >>
  BY DEF Init
<1> QED
  BY <1>1, <1>2 DEF Init, Promise!Init

\* A send is a Say, an accepted envelope a Hear, everything else a stutter.
LEMMA RefinesNext ==
    IndInv /\ [Next]_vars => [Promise!Next]_(<<[p \in Party |-> Texts(sent[p])], displayed>>)
<1> SUFFICES ASSUME IndInv, [Next]_vars
             PROVE  [Promise!Next]_(<<[p \in Party |-> Texts(sent[p])], displayed>>)
  OBVIOUS
<1> USE DEF IndInv
<1> DEFINE said == [p \in Party |-> Texts(sent[p])]
<1>1. ASSUME NEW p \in Party, NEW m \in Plaintext, NEW n \in Nonce, Send(p, m, n)
      PROVE  Promise!Say(p, m)
  <2> DEFINE e == EncodeEnvelope(OutboundParams(state[p]).sequence, n,
                                 Encrypt(OutboundParams(state[p]).key, m, n))
  <2>1. e \in Envelope /\ e.sealed.plaintext = m
    BY SentType DEF TypeOK, EncodeEnvelope, Encrypt
  <2>2. sent' = [sent EXCEPT ![p] = Append(@, e)] /\ displayed' = displayed
    BY <1>1 DEF Send
  <2> HIDE DEF e
  <2>3. Texts(Append(sent[p], e)) = Append(Texts(sent[p]), m)
    BY <2>1, TextsAppend DEF TypeOK
  <2>4. said' = [said EXCEPT ![p] = Append(@, m)]
    BY <2>2, <2>3 DEF TypeOK
  <2> QED
    BY <2>2, <2>4 DEF Promise!Say
<1>2. ASSUME NEW p \in Party, Accept(p) PROVE Promise!Hear(p)
  <2> DEFINE d == state[p].inbound.sequence_number
  <2>1. /\ d + 1 \in DOMAIN sent[Peer(p)]
        /\ Incoming(p).sealed = sent[Peer(p)][d + 1].sealed
    BY <1>2, AcceptedIsNext
  <2>2. sent' = sent /\ displayed' = [displayed EXCEPT ![p] =
                                          Append(@, Incoming(p).sealed.plaintext)]
    BY <1>2 DEF Accept
  <2>3. Len(displayed[p]) = d /\ Peer(p) \in Party
    BY PeerProperties DEF ChainsAgree
  <2>4. said[Peer(p)][d + 1] = Incoming(p).sealed.plaintext
    BY <2>1, <2>3 DEF Texts
  <2>5. d < Len(said[Peer(p)])
    <3>1. /\ sent[Peer(p)] \in Seq(Envelope) /\ d \in Nat
          /\ d + 1 \in 1 .. Len(sent[Peer(p)]) /\ Len(sent[Peer(p)]) \in Nat
      BY <2>1, <2>3, LenProperties DEF TypeOK, DKESessionState, DirectionState
    <3>2. Len(said[Peer(p)]) = Len(sent[Peer(p)])
      BY <2>3, <3>1, LenProperties, TextsLength
    <3> QED
      BY <3>1, <3>2
  <2> HIDE DEF d
  <2> QED
    BY <2>2, <2>3, <2>4, <2>5 DEF Promise!Hear
<1>3. ASSUME UNCHANGED <<sent, displayed>> PROVE UNCHANGED <<said, displayed>>
  BY <1>3
<1>4. ASSUME NEW p \in Party, Receive(p), ~Accept(p) PROVE UNCHANGED <<sent, displayed>>
  BY <1>4 DEF Receive, DropMalformed, DropOutOfSequence, DropUnauthentic,
              DropNonceReuse, Dropped
<1>5. ASSUME NEW p \in Party, Relay(p) PROVE UNCHANGED <<sent, displayed>>
  BY <1>5 DEF Relay, Lose, Repeat, Delay, Damage, Fault
<1>6. CASE UNCHANGED vars
  BY <1>3, <1>6 DEF vars
<1>7. ASSUME NEW p \in Party, SendSome(p) PROVE Promise!Next
  BY <1>1, <1>7 DEF SendSome, Urandom, Promise!Next
<1> QED
  BY <1>2, <1>3, <1>4, <1>5, <1>6, <1>7 DEF Next, Promise!Next

\* Whatever the relay does, each user reads a prefix of what the other wrote.
THEOREM PrefixDeliveryHolds == Spec => ImplementsPrefixDelivery
  BY RefinesInit, RefinesNext, Invariance, PTL
  DEF Spec, ImplementsPrefixDelivery, Promise!Spec
=============================================================================
