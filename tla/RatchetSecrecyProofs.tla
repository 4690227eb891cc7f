------------------------ MODULE RatchetSecrecyProofs ------------------------
(***************************************************************************)
(* Proofs about keys: no key seals two messages, and once both chains have *)
(* left K0 no key a party holds leads to one it has used.                  *)
(***************************************************************************)
EXTENDS RatchetSecrecy, RatchetProofs

LEMMA NoncesApartNext == IndInv /\ NoncesApart /\ [Next]_vars => NoncesApart'
<1> SUFFICES ASSUME IndInv, NoncesApart, [Next]_vars PROVE NoncesApart'
  OBVIOUS
<1>1. ASSUME sent' = sent PROVE NoncesApart'
  BY <1>1 DEF NoncesApart
<1>2. ASSUME NEW p \in Party, SendSome(p) PROVE NoncesApart'
  <2>1. PICK m \in Plaintext, n \in Urandom : Send(p, m, n)
    BY <1>2 DEF SendSome
  <2>2. n \in Nonce
    BY DEF Urandom
  <2>3. PICK e \in Envelope : e.nonce = n /\ sent' = [sent EXCEPT ![p] = Append(@, e)]
    BY <2>1, <2>2, SendEffect DEF IndInv
  <2>4. sent[p] \in Seq(Envelope) /\ sent'[p] = Append(sent[p], e)
        /\ \A q \in Party \ {p} : sent'[q] = sent[q]
    BY <2>3 DEF IndInv, TypeOK
  <2>5. /\ DOMAIN sent[p] = 1 .. Len(sent[p]) /\ DOMAIN sent'[p] = 1 .. Len(sent[p]) + 1
        /\ Len(sent[p]) \in Nat
        /\ \A i \in 1 .. Len(sent[p]) : sent'[p][i] = sent[p][i]
        /\ sent'[p][Len(sent[p]) + 1] = e
    BY <2>4, AppendProperties, LenProperties
  <2>6. \A q \in Party : \A i \in DOMAIN sent'[q] :
          \/ i \in DOMAIN sent[q] /\ sent'[q][i] = sent[q][i]
          \/ q = p /\ i = Len(sent[p]) + 1 /\ sent'[q][i] = e
    BY <2>4, <2>5
  <2>7. FreshNonces => \A q \in Party : \A i \in DOMAIN sent[q] : sent[q][i].nonce # n
    BY DEF Urandom, UsedNonces
  <2> QED
    BY <2>3, <2>6, <2>7 DEF NoncesApart
<1>3. ASSUME NEW p \in Party, Receive(p) PROVE sent' = sent
  BY <1>3 DEF Receive, DropMalformed, DropOutOfSequence, DropUnauthentic,
              DropNonceReuse, Dropped, Accept
<1>4. ASSUME NEW p \in Party, Relay(p) PROVE sent' = sent
  BY <1>4 DEF Relay, Lose, Repeat, Delay, Damage, Fault
<1>5. CASE UNCHANGED vars
  BY <1>1, <1>5 DEF vars
<1> QED
  BY <1>1, <1>2, <1>3, <1>4, <1>5 DEF Next

LEMMA SentInEnvelope ==
    ASSUME IndInv, NEW p \in Party, NEW i \in DOMAIN sent[p]
    PROVE  sent[p][i] \in Envelope
  BY LenProperties, ElementOfSeq DEF IndInv, TypeOK

LEMMA ChainKeyType ==
    ASSUME IndInv, NEW p \in Party, NEW i \in 0 .. Len(sent[p])
    PROVE  ChainKey(p, i) \in Key
<1>1. sent[p] \in Seq(Envelope) /\ state[p].outbound.current_key \in Key
  BY DEF IndInv, TypeOK, DKESessionState, DirectionState
<1>2. ASSUME i < Len(sent[p]) PROVE sent[p][i + 1].sealed.key \in Key
  <2>1. i + 1 \in 1 .. Len(sent[p])
    BY <1>1, <1>2, LenProperties
  <2>2. sent[p][i + 1] \in Envelope
    BY <1>1, <2>1, ElementOfSeq
  <2> QED
    BY <2>2 DEF Envelope, Sealed
<1> QED
  BY <1>1, <1>2 DEF ChainKey

\* SHA-256 is modelled as injective: equal keys were made with equal nonces.
LEMMA AdvanceKeyInjective ==
    ASSUME NEW k \in Key, NEW l \in Key, NEW m \in Nonce, NEW n \in Nonce,
           NEW s \in Nat, NEW t \in Nat, AdvanceKey(k, m, s) = AdvanceKey(l, n, t)
    PROVE  k = l /\ m = n /\ s = t
<1>1. [nonce |-> m, sequence |-> s] \in Step /\ [nonce |-> n, sequence |-> t] \in Step
  BY DEF Step
<1>2. k = l /\ [nonce |-> m, sequence |-> s] = [nonce |-> n, sequence |-> t]
  BY <1>1, AppendInjective DEF AdvanceKey, Key
<1> QED
  BY <1>2

\* The key of message i of a direction is the chain key before its i-th step.
LEMMA MessageKey ==
    ASSUME IndInv, NEW p \in Party, NEW i \in DOMAIN sent[p]
    PROVE  /\ i \in Nat \ {0} /\ i <= Len(sent[p])
           /\ sent[p][i].sealed.key = ChainKey(p, i - 1)
           /\ Len(sent[p][i].sealed.key) = Len(K0) + (i - 1)
<1>1. i \in 1 .. Len(sent[p]) /\ Len(sent[p]) \in Nat
  BY LenProperties DEF IndInv, TypeOK
<1>2. i - 1 < Len(sent[p]) /\ (i - 1) + 1 = i /\ i - 1 \in 0 .. Len(sent[p])
  BY <1>1
<1>3. sent[p][i].sealed.key = ChainKey(p, i - 1)
  BY <1>2 DEF ChainKey
<1> QED
  BY <1>1, <1>2, <1>3 DEF IndInv, SenderChain

LEMMA KeysSealOnce == IndInv /\ NoncesApart => EachKeySealsOneMessage
<1> SUFFICES ASSUME IndInv, NoncesApart,
                    NEW p \in Party, NEW q \in Party,
                    NEW i \in DOMAIN sent[p], NEW j \in DOMAIN sent[q],
                    sent[p][i].sealed.key = sent[q][j].sealed.key
             PROVE  i = j /\ (p = q \/ i = 1 \/ ~FreshNonces)
  BY DEF EachKeySealsOneMessage
<1>1. Len(K0) \in Nat
  BY RatchetAssumption, LenProperties DEF Key
<1>2. /\ i \in Nat \ {0} /\ i <= Len(sent[p])
      /\ sent[p][i].sealed.key = ChainKey(p, i - 1)
      /\ Len(sent[p][i].sealed.key) = Len(K0) + (i - 1)
  BY MessageKey
<1>3. /\ j \in Nat \ {0} /\ j <= Len(sent[q])
      /\ sent[q][j].sealed.key = ChainKey(q, j - 1)
      /\ Len(sent[q][j].sealed.key) = Len(K0) + (j - 1)
  BY MessageKey
<1>4. i = j
  BY <1>1, <1>2, <1>3
<1>5. ASSUME i # 1, FreshNonces PROVE p = q
  <2>1. i - 1 \in DOMAIN sent[p] /\ i - 1 \in DOMAIN sent[q]
    BY <1>2, <1>3, <1>4, <1>5, LenProperties DEF IndInv, TypeOK
  <2>2. /\ ChainKey(p, i - 1) = AdvanceKey(ChainKey(p, i - 2), sent[p][i - 1].nonce, i - 2)
        /\ ChainKey(q, i - 1) = AdvanceKey(ChainKey(q, i - 2), sent[q][i - 1].nonce, i - 2)
    BY <2>1, <1>2 DEF IndInv, SenderChain
  <2>3. i - 2 \in 0 .. Len(sent[p]) /\ i - 2 \in 0 .. Len(sent[q])
    BY <1>2, <1>3, <1>4, <1>5
  <2>4. /\ ChainKey(p, i - 2) \in Key /\ ChainKey(q, i - 2) \in Key /\ i - 2 \in Nat
        /\ sent[p][i - 1].nonce \in Nonce /\ sent[q][i - 1].nonce \in Nonce
    <3>1. sent[p][i - 1] \in Envelope /\ sent[q][i - 1] \in Envelope
      BY <2>1, SentInEnvelope
    <3>2. sent[p][i - 1].nonce \in Nonce /\ sent[q][i - 1].nonce \in Nonce
      BY <3>1 DEF Envelope
    <3>3. ChainKey(p, i - 2) \in Key /\ ChainKey(q, i - 2) \in Key
      BY <2>3, ChainKeyType
    <3> QED
      BY <1>2, <1>5, <2>3, <3>2, <3>3
  <2>5. AdvanceKey(ChainKey(p, i - 2), sent[p][i - 1].nonce, i - 2) =
          AdvanceKey(ChainKey(q, i - 2), sent[q][i - 1].nonce, i - 2)
    BY <1>2, <1>3, <1>4, <2>2
  <2>6. sent[p][i - 1].nonce = sent[q][i - 1].nonce
    BY <2>4, <2>5, AdvanceKeyInjective
  <2> QED
    BY <1>5, <2>1, <2>6 DEF NoncesApart
<1> QED
  BY <1>4, <1>5

LEMMA FirstStepNext == IndInv /\ FirstStepKept /\ [Next]_vars => FirstStepKept'
<1> SUFFICES ASSUME IndInv, FirstStepKept, [Next]_vars PROVE FirstStepKept'
  OBVIOUS
<1>1. ASSUME sent' = sent, \A p \in Party : state'[p].outbound = state[p].outbound
      PROVE  FirstStepKept'
  <2>1. \A p \in Party, i \in Nat : ChainKey(p, i)' = ChainKey(p, i)
    BY <1>1, ChainFrame
  <2>2. \A p \in Party : Len(sent[p]) \in Nat
    BY LenProperties DEF IndInv, TypeOK
  <2> QED
    BY <1>1, <2>1, <2>2 DEF FirstStepKept
<1>2. ASSUME NEW p \in Party, SendSome(p) PROVE FirstStepKept'
  <2>1. PICK m \in Plaintext, n \in Nonce : Send(p, m, n)
    BY <1>2 DEF SendSome, Urandom
  <2>2. PICK e \in Envelope : e.nonce = n /\ sent' = [sent EXCEPT ![p] = Append(@, e)]
    BY <2>1, SendEffect DEF IndInv
  <2>3. PICK l \in Nat : l = Len(sent[p])
    BY LenProperties DEF IndInv, TypeOK
  <2>4. /\ sent[p] \in Seq(Envelope) /\ sent'[p] = Append(sent[p], e)
        /\ \A q \in Party \ {p} : sent'[q] = sent[q]
    BY <2>2 DEF IndInv, TypeOK
  <2>5. /\ Len(sent'[p]) = l + 1 /\ sent'[p][l + 1] = e
        /\ \A i \in 1 .. l : sent'[p][i] = sent[p][i]
    BY <2>3, <2>4, AppendProperties
  <2>6. /\ \A i \in 0 .. l : ChainKey(p, i)' = ChainKey(p, i)
        /\ ChainKey(p, l + 1)' = AdvanceKey(ChainKey(p, l), n, l)
        /\ \A i \in Nat : ChainKey(Peer(p), i)' = ChainKey(Peer(p), i)
    BY <2>1, <2>3, SendChain DEF IndInv
  <2>7. ChainKey(p, l) \in Key /\ Len(ChainKey(p, l)) = Len(K0) + l /\ Len(K0) \in Nat
    BY <2>3, ChainKeyType, RatchetAssumption, LenProperties DEF IndInv, SenderChain, Key
  <2>8. ASSUME NEW i \in 1 .. l + 1
        PROVE  ChainKey(p, i)'[Len(K0) + 1] = [nonce |-> sent'[p][1].nonce, sequence |-> 0]
    <3>1. CASE i \in 1 .. l
      <4>1. ChainKey(p, i)' = ChainKey(p, i) /\ sent'[p][1] = sent[p][1]
        BY <2>3, <2>5, <2>6, <3>1
      <4>2. ChainKey(p, i)[Len(K0) + 1] = [nonce |-> sent[p][1].nonce, sequence |-> 0]
        BY <2>3, <3>1 DEF FirstStepKept
      <4> QED
        BY <4>1, <4>2
    <3>2. CASE i = l + 1 /\ l = 0
      <4>1. [nonce |-> n, sequence |-> l] \in Step
        BY DEF Step
      <4>2. ChainKey(p, i)'[Len(K0) + 1] = [nonce |-> n, sequence |-> l]
        BY <2>6, <2>7, <3>2, <4>1, AppendProperties DEF AdvanceKey, Key
      <4> QED
        BY <2>2, <2>5, <3>2, <4>2
    <3>3. CASE i = l + 1 /\ l # 0
      <4>1. [nonce |-> n, sequence |-> l] \in Step
        BY DEF Step
      <4>2. Len(K0) + 1 \in 1 .. Len(ChainKey(p, l))
        BY <2>7, <3>3
      <4>3. ChainKey(p, i)'[Len(K0) + 1] = ChainKey(p, l)[Len(K0) + 1]
        BY <2>6, <2>7, <3>3, <4>1, <4>2, AppendProperties DEF AdvanceKey, Key
      <4>4. l \in 1 .. l /\ 1 \in 1 .. l
        BY <2>3, <3>3
      <4>5. ChainKey(p, l)[Len(K0) + 1] = [nonce |-> sent[p][1].nonce, sequence |-> 0]
        BY <2>3, <4>4 DEF FirstStepKept
      <4>6. sent'[p][1] = sent[p][1]
        BY <2>5, <4>4
      <4> QED
        BY <4>3, <4>5, <4>6
    <3> QED
      BY <3>1, <3>2, <3>3
  <2>9. \A i \in 1 .. Len(sent'[Peer(p)]) :
          ChainKey(Peer(p), i)'[Len(K0) + 1] =
            [nonce |-> sent'[Peer(p)][1].nonce, sequence |-> 0]
    <3>1. Peer(p) \in Party /\ sent'[Peer(p)] = sent[Peer(p)] /\ Len(sent[Peer(p)]) \in Nat
      BY <2>4, PeerProperties, LenProperties DEF IndInv, TypeOK
    <3> QED
      BY <2>6, <3>1 DEF FirstStepKept
  <2>10. \A q \in Party : q = p \/ q = Peer(p)
    BY DEF Party, Peer
  <2> QED
    BY <2>5, <2>8, <2>9, <2>10 DEF FirstStepKept
<1>3. ASSUME NEW p \in Party, Receive(p)
      PROVE  sent' = sent /\ \A q \in Party : state'[q].outbound = state[q].outbound
  <2>1. CASE Accept(p)
    <3>1. Incoming(p) \in Envelope /\ state[p] \in DKESessionState
      BY <2>1, AcceptedIsNext DEF IndInv, TypeOK
    <3>2. RotateReceive(state[p], Incoming(p).nonce, Incoming(p).sequence).outbound =
            state[p].outbound
      BY <3>1, RotateReceiveType DEF Envelope
    <3> QED
      BY <2>1, <3>2 DEF Accept, IndInv, TypeOK
  <2>2. CASE Dropped(p)
    BY <2>2 DEF Dropped
  <2> QED
    BY <1>3, <2>1, <2>2
    DEF Receive, DropMalformed, DropOutOfSequence, DropUnauthentic, DropNonceReuse
<1>4. ASSUME NEW p \in Party, Relay(p) PROVE sent' = sent /\ state' = state
  BY <1>4 DEF Relay, Lose, Repeat, Delay, Damage, Fault
<1>5. CASE UNCHANGED vars
  BY <1>1, <1>5 DEF vars
<1> QED
  BY <1>1, <1>2, <1>3, <1>4, <1>5 DEF Next

\* SecrecyInv is inductive, so it holds in every reachable state.
THEOREM SecrecyInvariance == Spec => []SecrecyInv
<1>1. Init => SecrecyInv
  <2>1. ASSUME Init PROVE \A p \in Party : sent[p] = << >>
    BY <2>1 DEF Init
  <2>2. Len(<< >>) = 0 /\ DOMAIN << >> = {}
    OBVIOUS
  <2> QED
    BY <2>1, <2>2, IndInvInit DEF SecrecyInv, NoncesApart, FirstStepKept
<1>2. SecrecyInv /\ [Next]_vars => SecrecyInv'
  BY IndInvNext, NoncesApartNext, FirstStepNext DEF SecrecyInv
<1> QED
  BY <1>1, <1>2, PTL DEF Spec

\* A key leads only to later keys of its own chain, unless it is K0.
LEMMA LeadsToOwnChain ==
    ASSUME SecrecyInv, FreshNonces, NEW r \in Party, NEW s \in Party,
           NEW a \in 1 .. Len(sent[r]), NEW b \in 0 .. Len(sent[s]),
           LeadsTo(ChainKey(r, a), ChainKey(s, b))
    PROVE  r = s /\ a <= b
<1> USE DEF SecrecyInv
<1>1. Len(K0) \in Nat /\ Len(sent[r]) \in Nat /\ Len(sent[s]) \in Nat
  BY RatchetAssumption, LenProperties DEF Key, IndInv, TypeOK
<1>2. a \in 0 .. Len(sent[r])
  BY <1>1
<1>3. Len(ChainKey(r, a)) = Len(K0) + a /\ Len(ChainKey(s, b)) = Len(K0) + b
  BY <1>2 DEF IndInv, SenderChain
<1>4. a <= b
  BY <1>1, <1>3 DEF LeadsTo
<1>5. ChainKey(s, b) \in Key /\ ChainKey(r, a) = SubSeq(ChainKey(s, b), 1, Len(K0) + a)
  BY <1>3, ChainKeyType DEF LeadsTo
<1>6. ChainKey(r, a)[Len(K0) + 1] = ChainKey(s, b)[Len(K0) + 1]
  BY <1>1, <1>3, <1>4, <1>5, SubSeqProperties DEF Key
<1>7. b \in 1 .. Len(sent[s])
  BY <1>1, <1>4
<1>8. sent[r][1].nonce = sent[s][1].nonce
  <2>1. ChainKey(r, a)[Len(K0) + 1] = [nonce |-> sent[r][1].nonce, sequence |-> 0]
    BY DEF FirstStepKept
  <2>2. ChainKey(s, b)[Len(K0) + 1] = [nonce |-> sent[s][1].nonce, sequence |-> 0]
    BY <1>7 DEF FirstStepKept
  <2> DEFINE x == sent[r][1].nonce
             y == sent[s][1].nonce
  <2>3. [nonce |-> x, sequence |-> 0] = [nonce |-> y, sequence |-> 0]
    BY <1>6, <2>1, <2>2, Zenon
  <2>4. [nonce |-> x, sequence |-> 0].nonce = [nonce |-> y, sequence |-> 0].nonce
    BY <2>3, Zenon
  <2> HIDE DEF x, y
  <2>5. x = y
    BY <2>4
  <2> QED
    BY <2>5 DEF x, y
<1>9. 1 \in DOMAIN sent[r] /\ 1 \in DOMAIN sent[s]
  BY <1>1, <1>7, LenProperties DEF IndInv, TypeOK
<1> QED
  BY <1>4, <1>8, <1>9 DEF NoncesApart

LEMMA NoUsedKeyReachable == SecrecyInv => ForwardSecrecy
<1> SUFFICES ASSUME SecrecyInv, FreshNonces, NEW p \in Party,
                    state[p].outbound.sequence_number > 0,
                    state[p].inbound.sequence_number > 0,
                    NEW k \in HeldKeys(p), NEW m \in UsedKeys(p), LeadsTo(k, m)
             PROVE  FALSE
  BY DEF ForwardSecrecy, NoUsedKeyWithinReach
<1> DEFINE q == Peer(p)
           d == state[p].inbound.sequence_number
<1>1. q \in Party /\ q # p /\ Peer(q) = p
  BY PeerProperties
<1>2. /\ Len(sent[p]) \in Nat \ {0} /\ Len(sent[q]) \in Nat
      /\ d \in 1 .. Len(sent[q]) /\ state[p].inbound.current_key = ChainKey(q, d)
  BY <1>1, LenProperties
  DEF SecrecyInv, IndInv, TypeOK, SenderChain, ChainsAgree, DKESessionState, DirectionState
<1>3. PICK r \in Party, a \in Nat :
          a \in 1 .. Len(sent[r]) /\ k = ChainKey(r, a) /\ (r = p => a = Len(sent[p])) /\ (r = q => a = d)
  <2>1. state[p].outbound.current_key = ChainKey(p, Len(sent[p]))
    BY <1>2 DEF ChainKey
  <2> QED
    BY <1>1, <1>2, <2>1 DEF HeldKeys
<1>4. PICK s \in Party, b \in Nat :
          b \in 0 .. Len(sent[s]) /\ m = ChainKey(s, b) /\ (s = p => b < Len(sent[p])) /\ (s = q => b < d)
  <2>1. CASE \E i \in DOMAIN sent[p] : m = sent[p][i].sealed.key
    <3>1. PICK i \in DOMAIN sent[p] : m = sent[p][i].sealed.key
      BY <2>1
    <3>2. m = ChainKey(p, i - 1) /\ i \in Nat \ {0} /\ i <= Len(sent[p])
      BY <3>1, MessageKey DEF SecrecyInv
    <3>3. i - 1 \in 0 .. Len(sent[p]) /\ i - 1 < Len(sent[p])
      BY <1>2, <3>2
    <3> QED
      BY <1>1, <3>2, <3>3
  <2>2. CASE \E i \in 0 .. d - 1 : m = ChainKey(q, i)
    BY <1>1, <1>2, <2>2
  <2> QED
    BY <2>1, <2>2 DEF UsedKeys
<1>5. r = s /\ a <= b
  BY <1>3, <1>4, LeadsToOwnChain
<1>6. r = p \/ r = q
  BY DEF Party, Peer
<1> QED
  BY <1>2, <1>3, <1>4, <1>5, <1>6

\* Once both chains have left K0, nothing held leads back to a used key.
THEOREM ForwardSecrecyHolds == Spec => []ForwardSecrecy
  BY SecrecyInvariance, NoUsedKeyReachable, PTL

\* No key seals two messages of a direction; the directions share only K0.
THEOREM EachKeyIsUsedOnce == Spec => []EachKeySealsOneMessage
<1>1. SecrecyInv => IndInv /\ NoncesApart
  BY DEF SecrecyInv
<1> QED
  BY <1>1, SecrecyInvariance, KeysSealOnce, PTL
=============================================================================
