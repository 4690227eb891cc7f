----------------------- MODULE RatchetDeliveryProofs -----------------------
(***************************************************************************)
(* What the relay's faults do to a direction.                              *)
(*                                                                         *)
(* The cross-matching invariant of dke_engine.py: as long as the relay     *)
(* makes no fault on the way to a party, nothing it is sent is ever        *)
(* refused, so whenever nothing is in transit both ends have hashed in the *)
(* same messages.  Faults on the other way do not matter.                  *)
(*                                                                         *)
(* And the price of having no key sync: a direction that has lost the      *)
(* message it waits for never recovers, because every later one is sealed  *)
(* with a longer key.                                                      *)
(***************************************************************************)
EXTENDS RatchetSecrecyProofs

\* What _cmd_send seals can be decoded and opened at its place in the chain.
SentSound ==
    \A p \in Party : \A i \in DOMAIN sent[p] :
        sent[p][i].wellformed /\ sent[p][i].sealed.intact /\ sent[p][i].sequence = i - 1

\* In transit to p is what p has not accepted of what its peer sent, as it was sent.
Faithful(p) ==
    LET d == state[p].inbound.sequence_number
    IN  /\ Len(wire[p]) + d = Len(sent[Peer(p)])
        /\ \A k \in DOMAIN wire[p] : wire[p][k] = sent[Peer(p)][d + k]
        /\ d > 0 => state[p].inbound.last_nonce = sent[Peer(p)][d].nonce

CrossInv ==
    /\ SecrecyInv
    /\ SentSound
    /\ FreshNonces => \A p \in Party : faults[p] = 0 => Faithful(p)

LEMMA FaithfulFrame ==
    ASSUME NEW p \in Party, Faithful(p), wire'[p] = wire[p],
           state'[p].inbound = state[p].inbound, sent'[Peer(p)] = sent[Peer(p)]
    PROVE  Faithful(p)'
BY DEF Faithful

\* rotate_receive keeps the nonce it hashed in.
LEMMA RotateReceiveNonce ==
    ASSUME NEW st \in DKESessionState, NEW n \in Nonce, NEW s \in Nat
    PROVE  RotateReceive(st, n, s).inbound.last_nonce = n
<1>1. Rotated(st.inbound, n, s).last_nonce = n
  BY DEF Rotated
<1>2. RotateReceive(st, n, s).inbound = Rotated(st.inbound, n, s)
  BY DEF RotateReceive, DKESessionState
<1> QED
  BY <1>1, <1>2

\* A send puts the same envelope behind what was sent and what is in transit.
LEMMA SendCross ==
    ASSUME CrossInv, NEW p \in Party, NEW m \in Plaintext, NEW n \in Nonce, Send(p, m, n)
    PROVE  /\ SentSound'
           /\ FreshNonces => \A r \in Party : faults'[r] = 0 => Faithful(r)'
<1>0. TypeOK /\ SenderChain /\ SentSound
  BY DEF CrossInv, SecrecyInv, IndInv
<1>1. PICK q \in Party : q = Peer(p) /\ q # p /\ p = Peer(q)
  BY PeerProperties
<1>2. PICK e \in Envelope :
         /\ e.wellformed /\ e.sealed.intact /\ e.sequence = Len(sent[p])
         /\ sent' = [sent EXCEPT ![p] = Append(sent[p], e)]
         /\ wire' = [wire EXCEPT ![q] = Append(wire[q], e)]
         /\ \A r \in Party : state'[r].inbound = state[r].inbound
  BY <1>0, <1>1, SendEffect DEF TypeOK
<1>3. /\ sent[p] \in Seq(Envelope) /\ wire[q] \in Seq(Envelope)
      /\ sent'[p] = Append(sent[p], e) /\ sent'[q] = sent[q]
      /\ wire'[q] = Append(wire[q], e) /\ wire'[p] = wire[p]
  BY <1>0, <1>1, <1>2 DEF TypeOK
<1>4. PICK l \in Nat : l = Len(sent[p])
  BY <1>3, LenProperties
<1>5. /\ DOMAIN sent[p] = 1 .. l /\ DOMAIN sent'[p] = 1 .. l + 1 /\ Len(sent'[p]) = l + 1
      /\ sent'[p][l + 1] = e /\ \A i \in 1 .. l : sent'[p][i] = sent[p][i]
  BY <1>3, <1>4, AppendProperties, LenProperties
<1>6. SentSound'
  <2>1. \A i \in DOMAIN sent'[p] : /\ sent'[p][i].wellformed /\ sent'[p][i].sealed.intact
                                   /\ sent'[p][i].sequence = i - 1
    <3>1. \A i \in 1 .. l + 1 : i \in 1 .. l \/ i = l + 1
      BY <1>4
    <3>2. \A i \in 1 .. l : /\ sent[p][i].wellformed /\ sent[p][i].sealed.intact
                            /\ sent[p][i].sequence = i - 1
      BY <1>0, <1>5 DEF SentSound
    <3>3. e.sequence = (l + 1) - 1
      BY <1>2, <1>4
    <3> QED
      BY <1>2, <1>5, <3>1, <3>2, <3>3
  <2>2. \A r \in Party : r = p \/ r = q
    BY <1>1 DEF Party, Peer
  <2> QED
    BY <1>0, <1>3, <2>1, <2>2 DEF SentSound
<1>7. ASSUME FreshNonces, NEW r \in Party, faults'[r] = 0 PROVE Faithful(r)'
  <2>1. Faithful(r)
    BY <1>7 DEF CrossInv, Send
  <2>2. CASE r = p
    BY <1>1, <1>2, <1>3, <2>1, <2>2, FaithfulFrame
  <2>3. CASE r = q
    <3>1. PICK d \in Nat : d = state[q].inbound.sequence_number
      BY <1>0 DEF TypeOK, DKESessionState, DirectionState
    <3>2. PICK w \in Nat : w = Len(wire[q])
      BY <1>3, LenProperties
    <3>3. /\ DOMAIN wire[q] = 1 .. w /\ DOMAIN wire'[q] = 1 .. w + 1 /\ Len(wire'[q]) = w + 1
          /\ wire'[q][w + 1] = e /\ \A k \in 1 .. w : wire'[q][k] = wire[q][k]
      BY <1>3, <3>2, AppendProperties, LenProperties
    <3>4. /\ w + d = l /\ \A k \in 1 .. w : wire[q][k] = sent[p][d + k]
          /\ d > 0 => state[q].inbound.last_nonce = sent[p][d].nonce
      <4>1. Faithful(q) /\ Peer(q) = p
        BY <1>1, <2>1, <2>3
      <4>2. /\ Len(wire[q]) + d = Len(sent[p])
            /\ \A k \in DOMAIN wire[q] : wire[q][k] = sent[p][d + k]
            /\ d > 0 => state[q].inbound.last_nonce = sent[p][d].nonce
        BY <3>1, <4>1 DEF Faithful
      <4> QED
        BY <1>4, <3>2, <3>3, <4>2
    <3>5. \A k \in 1 .. w + 1 : wire'[q][k] = sent'[p][d + k]
      <4>1. \A k \in 1 .. w : d + k \in 1 .. l
        BY <3>4
      <4>2. \A k \in 1 .. w + 1 : k \in 1 .. w \/ k = w + 1
        OBVIOUS
      <4>3. d + (w + 1) = l + 1
        BY <3>4
      <4> QED
        BY <1>5, <3>3, <3>4, <4>1, <4>2, <4>3
    <3>6. d > 0 => d \in 1 .. l
      BY <3>4
    <3>7. (w + 1) + d = l + 1
      BY <3>4
    <3> QED
      <4>1. state'[q].inbound = state[q].inbound /\ Peer(q) = p
        BY <1>1, <1>2
      <4>2. /\ Len(wire'[q]) + d = Len(sent'[p])
            /\ \A k \in DOMAIN wire'[q] : wire'[q][k] = sent'[p][d + k]
            /\ d > 0 => state'[q].inbound.last_nonce = sent'[p][d].nonce
        BY <1>5, <3>3, <3>4, <3>5, <3>6, <3>7, <4>1
      <4>3. Faithful(q)'
        BY <3>1, <4>1, <4>2 DEF Faithful
      <4> QED
        BY <2>3, <4>3
  <2> QED
    BY <1>1, <2>2, <2>3 DEF Party, Peer
<1> QED
  BY <1>6, <1>7

\* The head of a faithful stream is the message that is due, so none of the ways to
\* drop it applies: it decodes, is in sequence, opens, and repeats no nonce.
LEMMA FaithfulIsAccepted ==
    ASSUME CrossInv, FreshNonces, NEW p \in Party, Faithful(p), wire[p] # << >>
    PROVE  /\ Decodable(Incoming(p)) /\ InSequence(p) /\ Opens(p)
           /\ ~NonceReused(state[p], Incoming(p).nonce)
           /\ Incoming(p) \in Envelope
           /\ \A d \in Nat : d = state[p].inbound.sequence_number =>
                 d + 1 <= Len(sent[Peer(p)]) /\ Incoming(p).nonce = sent[Peer(p)][d + 1].nonce
<1>0. /\ TypeOK /\ SenderChain /\ ChainsAgree /\ SentSound /\ NoncesApart
  BY DEF CrossInv, SecrecyInv, IndInv
<1>1. PICK q \in Party : q = Peer(p) /\ q # p /\ p = Peer(q)
  BY PeerProperties
<1>2. PICK d \in Nat : d = state[p].inbound.sequence_number
  BY <1>0 DEF TypeOK, DKESessionState, DirectionState
<1>3. /\ wire[p] \in Seq(Envelope) /\ sent[q] \in Seq(Envelope)
      /\ DOMAIN wire[p] = 1 .. Len(wire[p]) /\ DOMAIN sent[q] = 1 .. Len(sent[q])
      /\ Len(wire[p]) \in Nat /\ Len(sent[q]) \in Nat /\ Len(wire[p]) # 0
  BY <1>0, LenProperties, EmptySeq DEF TypeOK
<1>4. /\ Len(wire[p]) + d = Len(sent[q])
      /\ \A k \in DOMAIN wire[p] : wire[p][k] = sent[q][d + k]
      /\ d > 0 => state[p].inbound.last_nonce = sent[q][d].nonce
  BY <1>1, <1>2 DEF Faithful
<1>5. PICK e \in Envelope : e = wire[p][1] /\ Incoming(p) = e /\ e = sent[q][d + 1]
  <2>1. 1 \in DOMAIN wire[p]
    BY <1>3
  <2>2. wire[p][1] \in Envelope
    BY <1>3, <2>1, ElementOfSeq
  <2> QED
    BY <1>3, <1>4, <2>1, <2>2, HeadTailProperties DEF Incoming
<1>6. d + 1 \in DOMAIN sent[q] /\ d + 1 <= Len(sent[q]) /\ d < Len(sent[q])
  BY <1>3, <1>4
<1>7. e.wellformed /\ e.sealed.intact /\ e.sequence = d
  <2>1. e.wellformed /\ e.sealed.intact /\ e.sequence = (d + 1) - 1
    BY <1>0, <1>5, <1>6 DEF SentSound
  <2> QED
    BY <2>1
<1>8. e.sealed.nonce = e.nonce
  BY <1>0, <1>5, <1>6 DEF SenderChain
<1>9. e.sealed.key = state[p].inbound.current_key
  <2>1. state[p].inbound.current_key = ChainKey(q, d)
    BY <1>0, <1>1, <1>2 DEF ChainsAgree
  <2> QED
    BY <1>5, <1>6, <2>1 DEF ChainKey
<1>10. ~NonceReused(state[p], e.nonce)
  <2> SUFFICES ASSUME d > 0, e.nonce = state[p].inbound.last_nonce PROVE FALSE
    BY <1>2 DEF NonceReused
  <2>1. d \in DOMAIN sent[q] /\ sent[q][d].nonce = sent[q][d + 1].nonce
    BY <1>3, <1>4, <1>5, <1>6
  <2>2. d = d + 1
    BY <1>0, <1>6, <2>1 DEF NoncesApart
  <2> QED
    BY <2>2
<1>11. Decodable(e) /\ InSequence(p) /\ Opens(p)
  BY <1>2, <1>5, <1>7, <1>8, <1>9
  DEF Decodable, InSequence, ValidSequence, Opens, Authentic, InboundKey
<1> QED
  BY <1>1, <1>2, <1>5, <1>6, <1>10, <1>11

\* Accepting it keeps the stream faithful.
LEMMA AcceptCross ==
    ASSUME CrossInv, FreshNonces, NEW p \in Party, Faithful(p), Accept(p)
    PROVE  Faithful(p)'
<1>0. TypeOK
  BY DEF CrossInv, SecrecyInv, IndInv
<1>1. PICK q \in Party : q = Peer(p) /\ q # p /\ p = Peer(q)
  BY PeerProperties
<1>2. PICK d \in Nat : d = state[p].inbound.sequence_number
  BY <1>0 DEF TypeOK, DKESessionState, DirectionState
<1>3. /\ wire[p] # << >> /\ wire' = [wire EXCEPT ![p] = Tail(wire[p])] /\ sent' = sent
      /\ state' = [state EXCEPT ![p] = RotateReceive(state[p], Incoming(p).nonce,
                                                     Incoming(p).sequence)]
  BY DEF Accept, Consume
<1>4. /\ d + 1 <= Len(sent[q]) /\ Incoming(p).nonce = sent[q][d + 1].nonce
      /\ Incoming(p) \in Envelope
  BY <1>1, <1>2, <1>3, FaithfulIsAccepted
<1>5. /\ state'[p].inbound.sequence_number = d + 1
      /\ state'[p].inbound.last_nonce = sent[q][d + 1].nonce
  <2>1. /\ state[p] \in DKESessionState
        /\ Incoming(p).nonce \in Nonce /\ Incoming(p).sequence \in Nat
    BY <1>0, <1>4 DEF TypeOK, Envelope
  <2>2. state'[p] = RotateReceive(state[p], Incoming(p).nonce, Incoming(p).sequence)
    BY <1>0, <1>3 DEF TypeOK
  <2> QED
    BY <1>2, <1>4, <2>1, <2>2, RotateReceiveType, RotateReceiveNonce
<1>6. /\ Len(wire[p]) + d = Len(sent[q])
      /\ \A k \in DOMAIN wire[p] : wire[p][k] = sent[q][d + k]
  BY <1>1, <1>2 DEF Faithful
<1>7. PICK w \in Nat : w = Len(wire'[p]) /\ wire'[p] \in Seq(Envelope)
  <2>1. wire'[p] = Tail(wire[p]) /\ wire[p] \in Seq(Envelope)
    BY <1>0, <1>3 DEF TypeOK
  <2> QED
    BY <1>3, <2>1, HeadTailProperties, LenProperties
<1>8. /\ Len(wire[p]) = w + 1 /\ DOMAIN wire'[p] = 1 .. w /\ DOMAIN wire[p] = 1 .. w + 1
      /\ \A k \in 1 .. w : wire'[p][k] = wire[p][k + 1]
  <2>1. wire'[p] = Tail(wire[p]) /\ wire[p] \in Seq(Envelope) /\ Len(wire[p]) \in Nat
    BY <1>0, <1>3, LenProperties DEF TypeOK
  <2>2. Len(Tail(wire[p])) = Len(wire[p]) - 1
    BY <1>3, <2>1, HeadTailProperties
  <2>3. Len(wire[p]) = w + 1
    BY <1>7, <2>1, <2>2
  <2> QED
    BY <1>3, <1>7, <2>1, <2>3, HeadTailProperties, LenProperties
<1>9. w + (d + 1) = Len(sent[q])
  BY <1>6, <1>8
<1>10. \A k \in 1 .. w : wire'[p][k] = sent[q][(d + 1) + k]
  <2> SUFFICES ASSUME NEW k \in 1 .. w PROVE wire'[p][k] = sent[q][(d + 1) + k]
    OBVIOUS
  <2>1. k + 1 \in DOMAIN wire[p] /\ d + (k + 1) = (d + 1) + k
    BY <1>8
  <2>2. wire[p][k + 1] = sent[q][d + (k + 1)]
    BY <1>6, <2>1
  <2> QED
    BY <1>8, <2>1, <2>2
<1>11. sent'[q] = sent[q]
  BY <1>3
<1> QED
  BY <1>1, <1>5, <1>7, <1>8, <1>9, <1>10, <1>11 DEF Faithful

LEMMA CrossInvNext == CrossInv /\ [Next]_vars => CrossInv'
<1> SUFFICES ASSUME CrossInv, [Next]_vars PROVE CrossInv'
  OBVIOUS
<1> DEFINE Cross == FreshNonces => \A r \in Party : faults[r] = 0 => Faithful(r)
<1>0. TypeOK /\ SecrecyInv'
  BY IndInvNext, NoncesApartNext, FirstStepNext DEF CrossInv, SecrecyInv, IndInv
<1>1. ASSUME NEW p \in Party, SendSome(p) PROVE SentSound' /\ Cross'
  BY <1>1, SendCross DEF SendSome, Urandom
<1>2. ASSUME NEW p \in Party, Receive(p) PROVE SentSound' /\ Cross'
  <2>1. /\ UNCHANGED <<sent, faults>> /\ wire[p] # << >>
        /\ wire' = [wire EXCEPT ![p] = Tail(wire[p])]
        /\ \A r \in Party : r # p => state'[r] = state[r]
    BY <1>0, <1>2 DEF Receive, DropMalformed, DropOutOfSequence, DropUnauthentic,
       DropNonceReuse, Dropped, Accept, Consume, TypeOK
  <2>2. SentSound'
    BY <2>1 DEF CrossInv, SentSound
  <2>3. ASSUME FreshNonces, NEW r \in Party, faults'[r] = 0 PROVE Faithful(r)'
    <3>1. Faithful(r)
      BY <2>1, <2>3 DEF CrossInv
    <3>2. CASE r = p
      <4>1. Faithful(p)
        BY <3>1, <3>2
      <4>2. Accept(p)
        BY <1>2, <2>1, <2>3, <4>1, FaithfulIsAccepted
        DEF Receive, DropMalformed, DropOutOfSequence, DropUnauthentic, DropNonceReuse
      <4> QED
        BY <2>3, <3>2, <4>1, <4>2, AcceptCross
    <3>3. CASE r # p
      <4>1. wire'[r] = wire[r] /\ state'[r].inbound = state[r].inbound
        BY <1>0, <2>1, <3>3 DEF TypeOK
      <4> QED
        BY <2>1, <3>1, <4>1, FaithfulFrame
    <3> QED
      BY <3>2, <3>3
  <2> QED
    BY <2>2, <2>3
<1>3. ASSUME NEW p \in Party, Relay(p) PROVE SentSound' /\ Cross'
  <2>1. /\ UNCHANGED <<state, sent>> /\ faults' = [faults EXCEPT ![p] = faults[p] + 1]
        /\ \A r \in Party : r # p => wire'[r] = wire[r]
    BY <1>0, <1>3 DEF Relay, Lose, Repeat, Delay, Damage, Fault, TypeOK
  <2>2. SentSound'
    BY <2>1 DEF CrossInv, SentSound
  <2>3. faults'[p] # 0 /\ \A r \in Party : r # p => faults'[r] = faults[r]
    BY <1>0, <2>1 DEF TypeOK
  <2>4. ASSUME FreshNonces, NEW r \in Party, faults'[r] = 0 PROVE Faithful(r)'
    <3>1. r # p /\ Faithful(r)
      BY <2>3, <2>4 DEF CrossInv
    <3> QED
      BY <2>1, <3>1, FaithfulFrame
  <2> QED
    BY <2>2, <2>4
<1>4. ASSUME UNCHANGED vars PROVE SentSound' /\ Cross'
  <2>1. UNCHANGED <<state, wire, faults, sent>>
    BY <1>4 DEF vars
  <2>2. SentSound'
    BY <2>1 DEF CrossInv, SentSound
  <2>3. \A r \in Party : Faithful(r) => Faithful(r)'
    BY <2>1, FaithfulFrame
  <2> QED
    BY <2>1, <2>2, <2>3 DEF CrossInv
<1>5. SentSound' /\ Cross'
  <2> HIDE DEF Cross
  <2> QED
    BY <1>1, <1>2, <1>3, <1>4 DEF Next
<1> QED
  BY <1>0, <1>5 DEF CrossInv

LEMMA CrossInvInit == Init /\ SecrecyInv => CrossInv
<1> SUFFICES ASSUME Init, SecrecyInv PROVE CrossInv
  OBVIOUS
<1>1. \A p \in Party : /\ sent[p] = << >> /\ wire[p] = << >>
                        /\ state[p].inbound.sequence_number = 0
  BY DEF Init, FromK0
<1>2. SentSound
  BY <1>1 DEF SentSound
<1>3. ASSUME NEW p \in Party PROVE Faithful(p)
  <2>1. Len(wire[p]) + 0 = Len(sent[Peer(p)]) /\ DOMAIN wire[p] = {} /\ ~(0 > 0)
    BY <1>1, PeerProperties
  <2> QED
    BY <1>1, <2>1 DEF Faithful
<1> QED
  BY <1>2, <1>3 DEF CrossInv

THEOREM CrossInvariance == Spec => []CrossInv
<1>1. Spec => []SecrecyInv
  BY SecrecyInvariance
<1>2. Spec => []CrossInv
  BY <1>1, CrossInvInit, CrossInvNext, PTL DEF Spec
<1> QED
  BY <1>2

\* The session invariant of dke_engine.py, with what it needs: fresh nonces, no fault
\* of the relay on that way, and nothing in transit.
THEOREM KeysCrossMatch == Spec => []CrossMatch
<1>1. CrossInv => CrossMatch
  <2> SUFFICES ASSUME CrossInv, FreshNonces, NEW p \in Party,
                      wire[Peer(p)] = << >>, faults[Peer(p)] = 0
               PROVE  state[p].outbound.current_key = state[Peer(p)].inbound.current_key
    BY DEF CrossMatch
  <2>1. PICK q \in Party : q = Peer(p) /\ p = Peer(q)
    BY PeerProperties
  <2>2. PICK d \in Nat : d = state[q].inbound.sequence_number
    BY <2>1 DEF CrossInv, SecrecyInv, IndInv, TypeOK, DKESessionState, DirectionState
  <2>3. Faithful(q)
    BY <2>1 DEF CrossInv
  <2>4. d = Len(sent[p])
    <3>1. Len(wire[q]) = 0 /\ Len(wire[q]) + d = Len(sent[p])
      BY <2>1, <2>2, <2>3 DEF Faithful
    <3> QED
      BY <3>1
  <2>5. state[q].inbound.current_key = ChainKey(p, d)
    BY <2>1, <2>2 DEF CrossInv, SecrecyInv, IndInv, ChainsAgree
  <2>6. ~(d < Len(sent[p]))
    BY <2>4
  <2> QED
    BY <2>1, <2>5, <2>6 DEF ChainKey
<1> QED
  BY <1>1, CrossInvariance, PTL

\* Where the relay makes no fault, whatever it does on the other way, _receive_loop
\* refuses no envelope: none is malformed, out of sequence, unauthentic, or takes a
\* nonce for a repeated one.  This is the safety half of EverySentIsDisplayed.
THEOREM FaithfulRelayLosesNothing == Spec => []NothingRefused
<1>1. CrossInv => NothingRefused
  <2> SUFFICES ASSUME CrossInv, FreshNonces, NEW p \in Party, faults[p] = 0,
                      NEW all, all = sent[Peer(p)]
               PROVE  wire[p] = SubSeq(all, Len(displayed[p]) + 1, Len(all))
    BY DEF NothingRefused
  <2>1. PICK q \in Party : q = Peer(p) /\ p = Peer(q)
    BY PeerProperties
  <2>2. TypeOK /\ ChainsAgree /\ Faithful(p)
    BY DEF CrossInv, SecrecyInv, IndInv
  <2>3. PICK d \in Nat : d = state[p].inbound.sequence_number /\ d = Len(displayed[p])
    BY <2>1, <2>2 DEF TypeOK, DKESessionState, DirectionState, ChainsAgree
  <2>4. wire[p] \in Seq(Envelope) /\ all \in Seq(Envelope)
    BY <2>1, <2>2 DEF TypeOK
  <2>5. PICK w \in Nat : w = Len(wire[p]) /\ DOMAIN wire[p] = 1 .. w
    BY <2>4, LenProperties
  <2>6. Len(all) = w + d /\ \A k \in 1 .. w : wire[p][k] = all[d + k]
    BY <2>2, <2>3, <2>5 DEF Faithful
  <2> DEFINE rest == SubSeq(all, d + 1, w + d)
  <2>7. DOMAIN all = 1 .. w + d
    BY <2>4, <2>6, LenProperties
  <2>8. \A i \in (d + 1) .. (w + d) : i \in DOMAIN all /\ all[i] \in Envelope
    <3>1. \A i \in (d + 1) .. (w + d) : i \in 1 .. w + d
      OBVIOUS
    <3> QED  BY <2>4, <2>6, <2>7, <3>1, ElementOfSeq
  <2>9. /\ rest \in Seq(Envelope) /\ Len(rest) = w
        /\ \A i \in 1 .. w : rest[i] = all[d + i]
    <3>1. /\ SubSeq(all, d + 1, w + d) \in Seq(Envelope)
          /\ Len(SubSeq(all, d + 1, w + d)) =
                IF d + 1 <= w + d THEN (w + d) - (d + 1) + 1 ELSE 0
          /\ \A i \in 1 .. (w + d) - (d + 1) + 1 :
                SubSeq(all, d + 1, w + d)[i] = all[(d + 1) + i - 1]
      BY <2>8, SubSeqProperties
    <3>2. /\ (w + d) - (d + 1) + 1 = w /\ (d + 1 <= w + d <=> w # 0)
          /\ \A i \in 1 .. w : (d + 1) + i - 1 = d + i
      OBVIOUS
    <3> QED  BY <3>1, <3>2
  <2> HIDE DEF rest
  <2>10. wire[p] = rest
    BY <2>4, <2>5, <2>6, <2>9, SeqEqual
  <2> QED  BY <2>3, <2>6, <2>10 DEF rest
<1> QED
  BY <1>1, CrossInvariance, PTL

\* A copy that p could still accept.
Usable(p, e) ==
    /\ Decodable(e) /\ e.sealed.intact
    /\ e.sealed.key = InboundKey(state[p])
    /\ ~NonceReused(state[p], e.sealed.nonce)

\* The relay makes nothing usable of what is not.
LEMMA DamageStaysUseless ==
    ASSUME NEW p \in Party, NEW e \in Envelope, NEW d \in Damaged(e), ~Usable(p, e)
    PROVE  ~Usable(p, d)
<1>1. d \in Envelope /\ (d.sealed.intact => d.sealed = e.sealed)
  BY DamagedType
<1>2. d.wellformed => e.wellformed
  <2>1. CASE d = [e EXCEPT !.wellformed = FALSE]
    BY <2>1 DEF Envelope
  <2>2. CASE d = [e EXCEPT !.sealed.intact = FALSE]
    BY <2>2 DEF Envelope
  <2>3. CASE \E s \in (0 .. SeqLimit - 1) \ {e.sequence} : d = [e EXCEPT !.sequence = s]
    BY <2>3 DEF Envelope
  <2>4. CASE \E n \in Nonce \ {e.nonce} : d = [e EXCEPT !.nonce = n]
    BY <2>4 DEF Envelope
  <2> QED
    BY <2>1, <2>2, <2>3, <2>4 DEF Damaged
<1> QED
  BY <1>1, <1>2 DEF Usable, Decodable

\* Nothing usable comes in when the stream is rearranged or shortened.
LEMMA StuckFrame ==
    ASSUME NEW p \in Party, Stuck(p), state'[p].inbound = state[p].inbound,
           displayed'[p] = displayed[p],
           Len(sent[Peer(p)]) \in Nat, Len(displayed[p]) \in Nat,
           sent'[Peer(p)] = sent[Peer(p)] \/ Len(sent'[Peer(p)]) = Len(sent[Peer(p)]) + 1,
           \A i \in DOMAIN wire'[p] : ~Usable(p, wire'[p][i])
    PROVE  Stuck(p)'
<1>1. \A e : Usable(p, e)' <=> Usable(p, e)
  BY DEF Usable, InboundKey, NonceReused
<1>2. Len(displayed'[p]) < Len(sent'[Peer(p)])
  BY DEF Stuck
<1> QED
  BY <1>1, <1>2 DEF Stuck, Usable

LEMMA StuckNext ==
    ASSUME IndInv, [Next]_vars, NEW p \in Party, Stuck(p)
    PROVE  Stuck(p)'
<1>0. /\ TypeOK /\ ChainsAgree /\ SenderChain
      /\ \A r \in Party : /\ sent[r] \in Seq(Envelope) /\ Len(sent[r]) \in Nat
                           /\ wire[r] \in Seq(Envelope)
                           /\ Len(displayed[r]) \in Nat
      /\ \A i \in DOMAIN wire[p] : wire[p][i] \in Envelope /\ ~Usable(p, wire[p][i])
  <2>1. TypeOK /\ ChainsAgree /\ SenderChain
    BY DEF IndInv
  <2>2. \A i \in DOMAIN wire[p] : wire[p][i] \in Envelope
    BY <2>1, LenProperties, ElementOfSeq DEF TypeOK
  <2> QED
    BY <2>1, <2>2, LenProperties DEF TypeOK, Stuck, Usable
<1>1. PICK q \in Party : q = Peer(p) /\ q # p /\ p = Peer(q)
  BY PeerProperties
<1>2. \A r \in Party : r = p \/ r = q
  BY <1>1 DEF Party, Peer
<1>3. PICK l \in Nat : l = Len(sent[q])
  BY <1>0
<1>4. ASSUME NEW r \in Party, SendSome(r) PROVE Stuck(p)'
  <2>1. PICK m \in Plaintext, n \in Nonce : Send(r, m, n)
    BY <1>4 DEF SendSome, Urandom
  <2>2. PICK e \in Envelope :
           /\ e.sealed.key = state[r].outbound.current_key
           /\ sent' = [sent EXCEPT ![r] = Append(sent[r], e)]
           /\ wire' = [wire EXCEPT ![Peer(r)] = Append(wire[Peer(r)], e)]
           /\ displayed' = displayed
           /\ \A s \in Party : state'[s].inbound = state[s].inbound
    <3>1. TypeOK /\ SenderChain
      BY <1>0
    <3> QED
      BY <2>1, <3>1, SendEffect
  <2>3. CASE r = p
    <3>1. /\ sent'[q] = sent[q] /\ wire'[p] = wire[p]
          /\ state'[p].inbound = state[p].inbound /\ displayed'[p] = displayed[p]
      <4>1. q # p /\ Peer(p) = q /\ TypeOK
        BY <1>0, <1>1
      <4> QED
        BY <2>2, <2>3, <4>1 DEF TypeOK
    <3> QED
      BY <1>0, <1>1, <3>1, StuckFrame
  <2>4. CASE r = q
    <3>1. sent'[q] = Append(sent[q], e) /\ wire'[p] = Append(wire[p], e)
      BY <1>0, <1>1, <2>2, <2>4 DEF TypeOK
    <3>2. Len(sent'[q]) = l + 1
      BY <1>0, <1>3, <3>1, AppendProperties
    <3>3. \A i \in DOMAIN wire'[p] :
             (i \in DOMAIN wire[p] /\ wire'[p][i] = wire[p][i]) \/ wire'[p][i] = e
      BY <1>0, <3>1, AppendProperties, LenProperties
    <3>4. e.sealed.key # InboundKey(state[p])
      <4>1. PICK d \in Nat : d = state[p].inbound.sequence_number /\ d = Len(displayed[p])
        BY <1>0, <1>1 DEF ChainsAgree
      <4>2. d < l
        BY <1>1, <1>3, <4>1 DEF Stuck
      <4>3. InboundKey(state[p]) = ChainKey(q, d)
        BY <1>0, <1>1, <4>1 DEF ChainsAgree, InboundKey
      <4>4. e.sealed.key = ChainKey(q, l)
        BY <1>3, <2>2, <2>4 DEF ChainKey
      <4>5. d \in 0 .. l /\ l \in 0 .. l
        BY <4>2
      <4>6. Len(ChainKey(q, d)) = Len(K0) + d /\ Len(ChainKey(q, l)) = Len(K0) + l
        BY <1>0, <1>3, <4>5 DEF SenderChain
      <4>7. Len(K0) \in Nat
        BY RatchetAssumption, LenProperties DEF Key
      <4> QED
        BY <4>2, <4>3, <4>4, <4>6, <4>7
    <3>5. \A i \in DOMAIN wire'[p] : ~Usable(p, wire'[p][i])
      BY <1>0, <3>3, <3>4 DEF Usable
    <3>6. state'[p].inbound = state[p].inbound /\ displayed'[p] = displayed[p]
      BY <2>2
    <3> QED
      BY <1>0, <1>1, <1>3, <3>2, <3>5, <3>6, StuckFrame
  <2> QED
    BY <1>2, <2>3, <2>4
<1>5. ASSUME NEW r \in Party, Consume(r), UNCHANGED <<sent, displayed>>,
             state'[p].inbound = state[p].inbound
      PROVE  Stuck(p)'
  <2>1. \A i \in DOMAIN wire'[p] : ~Usable(p, wire'[p][i])
    <3>1. CASE r = p
      <4>1. wire[p] # << >> /\ wire'[p] = Tail(wire[p])
        BY <1>0, <1>5, <3>1 DEF Consume, TypeOK
      <4>2. \A k \in DOMAIN Tail(wire[p]) :
               k + 1 \in DOMAIN wire[p] /\ Tail(wire[p])[k] = wire[p][k + 1]
        BY <1>0, <4>1, HeadTailProperties, LenProperties
      <4> QED
        BY <1>0, <4>1, <4>2
    <3>2. CASE r # p
      BY <1>0, <1>5, <3>2 DEF Consume, TypeOK
    <3> QED
      BY <3>1, <3>2
  <2> QED
    BY <1>0, <1>1, <1>3, <1>5, <2>1, StuckFrame
<1>6. ASSUME NEW r \in Party, Receive(r) PROVE Stuck(p)'
  <2>1. CASE Dropped(r)
    BY <1>5, <2>1 DEF Dropped
  <2>2. CASE Accept(r) /\ r = p
    <3>1. 1 \in DOMAIN wire[p] /\ Incoming(p) = wire[p][1]
      BY <1>0, <2>2, LenProperties, EmptySeq, HeadTailProperties DEF Accept, Consume, Incoming
    <3>2. Usable(p, Incoming(p))
      BY <2>2 DEF Accept, Opens, Authentic, Usable
    <3> QED
      BY <1>0, <3>1, <3>2
  <2>3. CASE Accept(r) /\ r = q
    <3>1. /\ wire' = [wire EXCEPT ![q] = Tail(wire[q])] /\ sent' = sent
          /\ state'[p] = state[p] /\ displayed'[p] = displayed[p]
      <4>1. q # p /\ TypeOK /\ Accept(q)
        BY <1>0, <1>1, <2>3
      <4> QED
        BY <4>1 DEF Accept, Consume, TypeOK
    <3>2. wire'[p] = wire[p]
      BY <1>0, <1>1, <3>1 DEF TypeOK
    <3> QED
      BY <1>0, <1>1, <1>3, <3>1, <3>2, StuckFrame
  <2> QED
    BY <1>2, <1>6, <2>1, <2>2, <2>3
    DEF Receive, DropMalformed, DropOutOfSequence, DropUnauthentic, DropNonceReuse
<1>7. ASSUME NEW r \in Party, Relay(r) PROVE Stuck(p)'
  <2>1. UNCHANGED <<state, sent, displayed>> /\ wire[r] # << >>
    BY <1>7 DEF Relay, Lose, Repeat, Delay, Damage, Fault
  <2>2. \A i \in DOMAIN wire'[p] : ~Usable(p, wire'[p][i])
    <3>1. CASE r # p
      BY <1>0, <1>7, <3>1 DEF Relay, Lose, Repeat, Delay, Damage, Fault, TypeOK
    <3>2. CASE r = p
      <4> DEFINE h == Head(wire[p])
                 t == Tail(wire[p])
      <4>1. /\ h \in Envelope /\ t \in Seq(Envelope) /\ ~Usable(p, h)
            /\ \A k \in DOMAIN t : ~Usable(p, t[k])
        <5>1. /\ h \in Envelope /\ t \in Seq(Envelope)
              /\ 1 \in DOMAIN wire[p] /\ h = wire[p][1]
              /\ \A k \in DOMAIN t : k + 1 \in DOMAIN wire[p] /\ t[k] = wire[p][k + 1]
          BY <1>0, <2>1, <3>2, HeadTailProperties, LenProperties, EmptySeq
        <5> QED
          BY <1>0, <5>1
      <4>2. CASE Lose(p)
        <5>1. wire'[p] = t
          BY <1>0, <4>2 DEF Lose, TypeOK
        <5> QED
          BY <4>1, <5>1
      <4>3. CASE Repeat(p)
        <5>1. wire'[p] = Append(wire[p], h)
          BY <1>0, <4>3 DEF Repeat, TypeOK
        <5> HIDE DEF h
        <5>2. \A k \in DOMAIN Append(wire[p], h) :
                 (k \in DOMAIN wire[p] /\ Append(wire[p], h)[k] = wire[p][k])
                 \/ Append(wire[p], h)[k] = h
          BY <1>0, <4>1, AppendProperties, LenProperties
        <5> QED
          BY <1>0, <4>1, <5>1, <5>2
      <4>4. CASE Delay(p)
        <5>1. wire'[p] = Append(t, h)
          BY <1>0, <4>4 DEF Delay, TypeOK
        <5> HIDE DEF h, t
        <5>2. \A k \in DOMAIN Append(t, h) :
                 (k \in DOMAIN t /\ Append(t, h)[k] = t[k]) \/ Append(t, h)[k] = h
          BY <4>1, AppendProperties, LenProperties
        <5> QED
          BY <4>1, <5>1, <5>2
      <4>5. CASE Damage(p)
        <5>1. PICK e \in Damaged(h) : wire'[p] = <<e>> \o t
          BY <1>0, <4>5 DEF Damage, Incoming, TypeOK
        <5> HIDE DEF h, t
        <5>2. ~Usable(p, e)
          BY <4>1, DamageStaysUseless
        <5>3. \A k \in DOMAIN (<<e>> \o t) :
                 (<<e>> \o t)[k] = e \/ (k - 1 \in DOMAIN t /\ (<<e>> \o t)[k] = t[k - 1])
          BY <4>1, LenProperties
        <5> QED
          BY <4>1, <5>1, <5>2, <5>3
      <4> QED
        BY <1>7, <3>2, <4>2, <4>3, <4>4, <4>5 DEF Relay
    <3> QED
      BY <3>1, <3>2
  <2> QED
    BY <1>0, <1>1, <1>3, <2>1, <2>2, StuckFrame
<1>8. CASE UNCHANGED vars
  BY <1>8 DEF vars, Stuck
<1> QED
  BY <1>4, <1>6, <1>7, <1>8 DEF Next

\* Section 7.1 of the architecture document, "no implicit key sync": nothing either
\* party sends or receives, and nothing the relay does, revives a direction that has
\* lost every copy of the message it waits for.
THEOREM StuckIsForGood == Spec => StuckForGood
<1>1. IndInv /\ [Next]_vars => [\A p \in Party : Stuck(p) => Stuck(p)']_vars
  BY StuckNext
<1> QED
  BY <1>1, Invariance, PTL DEF Spec, StuckForGood
=============================================================================
