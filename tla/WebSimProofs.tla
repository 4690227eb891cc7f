---------------------------- MODULE WebSimProofs ----------------------------
(***************************************************************************)
(* For every number of sessions and messages: no handler brings back a key *)
(* of an ended session, an undisturbed direction is in step whenever it is *)
(* quiet, and no counter runs ahead of the messages sent.                  *)
(*                                                                         *)
(* Being in step when quiet says nothing of the moments in between.  The   *)
(* invariant does: an undisturbed direction has at most one handler, and   *)
(* where that handler is tells how far the receiver is behind the sender.  *)
(* The bound on the counters, disturbed or not, needs every handler that   *)
(* may still count, those of earlier sessions included, to be counted too. *)
(***************************************************************************)
EXTENDS WebSim, FiniteSets, FiniteSetTheorems, SequenceTheorems, TLAPS

\* What a handler of p that is where h is has done to the two ends.
Phase(p, h) ==
    LET out == party[p]
        in == party[Other(p)]
        s == send[h]
    IN  /\ ~s.tamper /\ s.session = sessions
        /\ s.at = "encrypting" =>
              /\ out.outSeq = in.inSeq /\ out.outKey = in.inKey
              /\ s.seq = in.inSeq /\ s.key = in.inKey
        /\ s.at = "rotating" =>
              /\ out.outSeq = in.inSeq + 1 /\ out.outKey = in.inKey
              /\ s.seq = in.inSeq /\ s.key = in.inKey /\ s.copy = in.inKey
        /\ s.at = "decrypting" =>
              /\ out.outSeq = in.inSeq + 1
              /\ out.outKey = RatchetDeriveKey(in.inKey, h)
              /\ s.seq = in.inSeq /\ s.key = in.inKey /\ s.copy = in.inKey
        /\ s.at = "following" =>
              /\ out.outSeq = in.inSeq
              /\ out.outKey = RatchetDeriveKey(in.inKey, h)
              /\ s.copy = in.inKey
              /\ h \in shown

PendingSends(p) == {h \in Sends : send[h].from = p /\ send[h].at \in Awaiting}

\* An undisturbed direction of an active session.
Orderly(p) ==
    /\ \A h, g \in PendingSends(p) : h = g
    /\ \A h \in PendingSends(p) : Phase(p, h)
    /\ PendingSends(p) = {} =>
          /\ party[p].outKey = party[Other(p)].inKey
          /\ party[p].outSeq = party[Other(p)].inSeq
    /\ \A h \in Sends :
          send[h].from = p /\ send[h].session = sessions /\ h <= clicks
            => h \in shown \/ h \in PendingSends(p)

\* TypeOK, but for the bound on the counters.
Ends == [outKey : Seq(Nat), inKey : Seq(Nat), outSeq : Nat, inSeq : Nat]

Typed ==
    /\ active \in BOOLEAN
    /\ party \in [Party -> Ends]
    /\ sessions \in 0 .. MaxSessions
    /\ clicks \in 0 .. MaxSends
    /\ send \in [Sends -> SendState]
    /\ disturbed \in [Party -> BOOLEAN]

WebInv ==
    /\ Typed
    /\ \A p \in Party :
          IF active THEN party[p].outKey # Null /\ party[p].inKey # Null
                    ELSE party[p].outKey = Null /\ party[p].inKey = Null
    /\ \A h \in Sends : send[h].session <= sessions
    /\ \A h \in Sends : send[h].at \in Awaiting => h <= clicks
    /\ \A p \in Party : active /\ ~disturbed[p] => Orderly(p)

\* The sends of p that the sender, and those that the receiver, may still count.
Unsealed(p) == {h \in Sends : send[h].from = p /\ send[h].at = "encrypting"}

Undelivered(p) == {h \in Sends : /\ send[h].from = p
                                 /\ send[h].at \in {"encrypting", "rotating", "decrypting"}}

\* A send is counted at most once on each side: what a counter has counted and
\* what it may still count were all clicked.
Counted ==
    /\ \A p \in Party :
          /\ party[p].outSeq >= 1 /\ party[p].inSeq >= 1
          /\ party[p].outSeq + Cardinality(Unsealed(p)) <= clicks + 1
          /\ party[Other(p)].inSeq + Cardinality(Undelivered(p)) <= clicks + 1
    /\ shown \subseteq Sends

\* The other party is a party, and its other party is the first.
LEMMA OtherOfOther ==
    \A p \in Party : Other(p) \in Party /\ Other(p) # p /\ Other(Other(p)) = p
BY DEF Party, Other

\* Another field of a party's state.
LEMMA EndsUpdates ==
    ASSUME NEW e \in Ends
    PROVE  /\ \A k \in Seq(Nat) :
                 /\ [e EXCEPT !.outKey = k] \in Ends
                 /\ [e EXCEPT !.outKey = k].outKey = k
                 /\ [e EXCEPT !.outKey = k].inKey = e.inKey
                 /\ [e EXCEPT !.outKey = k].outSeq = e.outSeq
                 /\ [e EXCEPT !.outKey = k].inSeq = e.inSeq
           /\ \A k \in Seq(Nat) :
                 /\ [e EXCEPT !.inKey = k] \in Ends
                 /\ [e EXCEPT !.inKey = k].inKey = k
                 /\ [e EXCEPT !.inKey = k].outKey = e.outKey
                 /\ [e EXCEPT !.inKey = k].outSeq = e.outSeq
                 /\ [e EXCEPT !.inKey = k].inSeq = e.inSeq
           /\ \A n \in Nat :
                 /\ [e EXCEPT !.outSeq = n] \in Ends
                 /\ [e EXCEPT !.outSeq = n].outSeq = n
                 /\ [e EXCEPT !.outSeq = n].inSeq = e.inSeq
                 /\ [e EXCEPT !.outSeq = n].outKey = e.outKey
                 /\ [e EXCEPT !.outSeq = n].inKey = e.inKey
           /\ \A n \in Nat :
                 /\ [e EXCEPT !.inSeq = n] \in Ends
                 /\ [e EXCEPT !.inSeq = n].inSeq = n
                 /\ [e EXCEPT !.inSeq = n].outSeq = e.outSeq
                 /\ [e EXCEPT !.inSeq = n].outKey = e.outKey
                 /\ [e EXCEPT !.inSeq = n].inKey = e.inKey
BY DEF Ends

\* A handler that awaits again keeps its message.
LEMMA GoesOnFacts ==
    ASSUME Typed, NEW h \in Sends, NEW to \in Awaiting, NEW copy \in Seq(Nat),
           GoesOn(h, to, copy)
    PROVE  /\ send' \in [Sends -> SendState]
           /\ \A g \in Sends \ {h} : send'[g] = send[g]
           /\ send'[h].at = to /\ send'[h].copy = copy
           /\ send'[h].from = send[h].from /\ send'[h].session = send[h].session
           /\ send'[h].tamper = send[h].tamper /\ send'[h].seq = send[h].seq
           /\ send'[h].key = send[h].key
<1> DEFINE s == send[h]
           t == [s EXCEPT !.at = to]
           u == [t EXCEPT !.copy = copy]
<1>1. send \in [Sends -> SendState] /\ s \in SendState
  BY DEF Typed
<1>2. /\ t \in SendState /\ t.at = to /\ t.from = s.from /\ t.session = s.session
      /\ t.tamper = s.tamper /\ t.seq = s.seq /\ t.key = s.key
  <2> HIDE DEF s
  <2> QED  BY <1>1 DEF SendState
<1>3. send' = [send EXCEPT ![h] = u]
  BY Zenon DEF GoesOn
<1> HIDE DEF t
<1>4. /\ u \in SendState /\ u.at = to /\ u.copy = copy /\ u.from = s.from
      /\ u.session = s.session /\ u.tamper = s.tamper /\ u.seq = s.seq /\ u.key = s.key
  <2> HIDE DEF s
  <2> QED  BY <1>2 DEF SendState
<1> HIDE DEF u
<1> QED  BY <1>1, <1>3, <1>4

\* A handler that is over leaves nothing but whose it was, and when.
LEMMA LeavesFacts ==
    ASSUME Typed, NEW h \in Sends, Leaves(h)
    PROVE  /\ send' \in [Sends -> SendState]
           /\ \A g \in Sends \ {h} : send'[g] = send[g]
           /\ send'[h].at = "over"
           /\ send'[h].from = send[h].from /\ send'[h].session = send[h].session
<1> DEFINE t == [Idle EXCEPT !.at = "over"]
           v == [t EXCEPT !.from = send[h].from]
           u == [v EXCEPT !.session = send[h].session]
<1>1. send' = [send EXCEPT ![h] = u]
  BY Zenon DEF Leaves
<1>2. send \in [Sends -> SendState] /\ send[h].from \in Party /\ send[h].session \in Nat
  BY DEF Typed, SendState
<1>3. t \in SendState /\ t.at = "over"
  <2>1. Idle \in SendState
    BY DEF Idle, SendState, Null, Party
  <2> QED  BY <2>1 DEF SendState
<1> HIDE DEF t
<1>4. v \in SendState /\ v.at = "over" /\ v.from = send[h].from
  BY <1>2, <1>3 DEF SendState
<1> HIDE DEF v
<1>5. /\ u \in SendState /\ u.at = "over"
      /\ u.from = send[h].from /\ u.session = send[h].session
  BY <1>2, <1>4 DEF SendState
<1> HIDE DEF u
<1> QED  BY <1>1, <1>2, <1>5

\* What every step of handler h leaves alone, and what it does to the keys at most.
Frame(h) ==
    LET p == send[h].from
    IN  /\ Typed'
        /\ UNCHANGED <<active, sessions, clicks, disturbed>>
        /\ shown \subseteq shown'
        /\ send[h].at \in Awaiting
        /\ \A g \in Sends \ {h} : send'[g] = send[g]
        /\ send'[h].from = p /\ send'[h].session = send[h].session
        /\ \A r \in Party : r # p =>
              party'[r].outKey = party[r].outKey /\ party'[r].outSeq = party[r].outSeq
        /\ \A r \in Party : r # Other(p) =>
              party'[r].inKey = party[r].inKey /\ party'[r].inSeq = party[r].inSeq
        /\ \A r \in Party :
              /\ party'[r].outKey = Null <=> party[r].outKey = Null
              /\ party'[r].inKey = Null <=> party[r].inKey = Null

\* A step of a handler of p keeps the other direction as orderly as it was.
LEMMA OtherDirection ==
    ASSUME WebInv, NEW h \in Sends, Frame(h), NEW r \in Party, r # send[h].from,
           Orderly(r)
    PROVE  Orderly(r)'
<1>1. send[h].from \in Party
  BY DEF WebInv, Typed, SendState
<1>2. r = Other(send[h].from) /\ Other(r) = send[h].from /\ Other(r) \in Party /\ Other(r) # r
  BY <1>1 DEF Party, Other
<1>3. /\ party'[r].outKey = party[r].outKey /\ party'[r].outSeq = party[r].outSeq
      /\ party'[Other(r)].inKey = party[Other(r)].inKey
      /\ party'[Other(r)].inSeq = party[Other(r)].inSeq
      /\ UNCHANGED <<sessions, clicks>> /\ shown \subseteq shown'
  BY <1>2 DEF Frame
<1>4. /\ h \notin PendingSends(r) /\ h \notin PendingSends(r)'
      /\ \A g \in Sends \ {h} : send'[g] = send[g]
      /\ send'[h].from # r
  BY DEF Frame, PendingSends
<1>5. PendingSends(r)' = PendingSends(r)
  BY <1>4 DEF PendingSends
<1>6. \A g \in PendingSends(r) : Phase(r, g)'
  <2> SUFFICES ASSUME NEW g \in PendingSends(r) PROVE Phase(r, g)'
    OBVIOUS
  <2>1. send'[g] = send[g] /\ Phase(r, g)
    BY <1>4 DEF Orderly, PendingSends
  <2> QED  BY <1>3, <2>1 DEF Phase
<1>7. \A g \in Sends :
         send'[g].from = r /\ send'[g].session = sessions' /\ g <= clicks'
           => g \in shown' \/ g \in PendingSends(r)'
  BY <1>3, <1>4, <1>5 DEF Orderly
<1> QED  BY <1>3, <1>5, <1>6, <1>7 DEF Orderly

\* So it is enough to look at the handler's own direction.
LEMMA OwnDirection ==
    ASSUME WebInv, NEW h \in Sends, Frame(h), NEW p \in Party, p = send[h].from,
           active /\ ~disturbed[p] /\ Orderly(p) => Orderly(p)'
    PROVE  WebInv'
<1>1. /\ Typed' /\ UNCHANGED <<active, sessions, clicks, disturbed>>
      /\ \A g \in Sends : send'[g].session = send[g].session
      /\ \A g \in Sends : send'[g].at \in Awaiting => send[g].at \in Awaiting
  BY DEF Frame
<1>2. \A t \in Party :
         IF active' THEN party'[t].outKey # Null /\ party'[t].inKey # Null
                    ELSE party'[t].outKey = Null /\ party'[t].inKey = Null
  <2>1. \A t \in Party : /\ party'[t].outKey = Null <=> party[t].outKey = Null
                         /\ party'[t].inKey = Null <=> party[t].inKey = Null
    BY DEF Frame
  <2>2. CASE active
    BY <1>1, <2>1, <2>2 DEF WebInv
  <2>3. CASE ~active
    BY <1>1, <2>1, <2>3 DEF WebInv
  <2> QED  BY <2>2, <2>3
<1>3. \A t \in Party : active' /\ ~disturbed'[t] => Orderly(t)'
  <2> SUFFICES ASSUME NEW r \in Party, active', ~disturbed'[r] PROVE Orderly(r)'
    OBVIOUS
  <2>1. active /\ ~disturbed[r]
    BY <1>1
  <2>2. Orderly(r)
    BY <2>1 DEF WebInv
  <2>3. CASE r = p
    BY <2>1, <2>2, <2>3
  <2>4. CASE r # p
    BY <2>2, <2>4, OtherDirection
  <2> QED  BY <2>3, <2>4
<1> QED  BY <1>1, <1>2, <1>3 DEF WebInv

\* A set of sends is finite, and shrinks by one at least when it loses one.
LEMMA SomeSends ==
    ASSUME NEW S \in SUBSET Sends
    PROVE  /\ IsFiniteSet(S) /\ Cardinality(S) \in Nat
           /\ \A T \in SUBSET S : Cardinality(T) <= Cardinality(S)
           /\ \A h \in S : \A T \in SUBSET S :
                 h \notin T => Cardinality(T) + 1 <= Cardinality(S)
<1>1. IsFiniteSet(Sends)
  BY FS_Interval, WebAssumption DEF Sends
<1>2. \A U \in SUBSET Sends : IsFiniteSet(U) /\ Cardinality(U) \in Nat
  BY <1>1, FS_Subset, FS_CardinalityType
<1>3. \A T \in SUBSET S : Cardinality(T) <= Cardinality(S)
  BY <1>2, FS_Subset
<1>4. ASSUME NEW h \in S, NEW T \in SUBSET S, h \notin T
      PROVE  Cardinality(T) + 1 <= Cardinality(S)
  <2>1. /\ IsFiniteSet(S) /\ IsFiniteSet(S \ {h}) /\ S \ {h} \in SUBSET Sends
        /\ Cardinality(S \ {h}) = Cardinality(S) - 1
    BY <1>2, <1>4, FS_RemoveElement
  <2>2. T \in SUBSET (S \ {h}) /\ T \in SUBSET Sends
    BY <1>4
  <2>3. Cardinality(T) <= Cardinality(S \ {h})
    BY <2>1, <2>2, FS_Subset
  <2>4. Cardinality(T) \in Nat /\ Cardinality(S) \in Nat
    BY <1>2, <2>2
  <2> QED  BY <2>1, <2>3, <2>4
<1> QED  BY <1>2, <1>3, <1>4

\* A handler that counts a message on one side is not about to count it there again.
LEMMA CountedKept ==
    ASSUME WebInv, Counted, NEW h \in Sends, Frame(h), NEW p \in Party, p = send[h].from,
           NEW q \in Party, q = Other(p), shown' \subseteq Sends,
           send'[h].at # "encrypting",
           \/ party'[p].outSeq = party[p].outSeq
           \/ party'[p].outSeq = party[p].outSeq + 1 /\ send[h].at = "encrypting",
           \/ /\ party'[q].inSeq = party[q].inSeq
              /\ send'[h].at \in {"rotating", "decrypting"}
                    => send[h].at \in {"encrypting", "rotating", "decrypting"}
           \/ /\ party'[q].inSeq = party[q].inSeq + 1
              /\ send[h].at = "decrypting" /\ send'[h].at \notin {"rotating", "decrypting"}
    PROVE  Counted'
<1>1. /\ \A g \in Sends \ {h} : send'[g] = send[g]
      /\ send'[h].from = p /\ clicks' = clicks
      /\ \A r \in Party : r # p => party'[r].outSeq = party[r].outSeq
      /\ \A r \in Party : r # q => party'[r].inSeq = party[r].inSeq
      /\ party \in [Party -> Ends] /\ party' \in [Party -> Ends] /\ clicks \in Nat
  BY WebAssumption DEF Frame, WebInv, Typed
<1>2. \A r \in Party : party[r].outSeq \in Nat /\ party[r].inSeq \in Nat
  BY <1>1 DEF Ends
<1>3. ASSUME NEW r \in Party
      PROVE  party'[r].outSeq + Cardinality(Unsealed(r)') <= clicks' + 1
  <2>1. Unsealed(r)' \in SUBSET Unsealed(r) /\ Unsealed(r) \in SUBSET Sends
    BY <1>1 DEF Unsealed
  <2>2. /\ Cardinality(Unsealed(r)') \in Nat /\ Cardinality(Unsealed(r)) \in Nat
        /\ Cardinality(Unsealed(r)') <= Cardinality(Unsealed(r))
    BY <2>1, SomeSends
  <2>3. party[r].outSeq + Cardinality(Unsealed(r)) <= clicks + 1
    BY DEF Counted
  <2>4. CASE party'[r].outSeq = party[r].outSeq
    BY <1>1, <1>2, <2>2, <2>3, <2>4
  <2>5. CASE /\ r = p /\ party'[p].outSeq = party[p].outSeq + 1
             /\ send[h].at = "encrypting"
    <3>1. h \in Unsealed(r) /\ h \notin Unsealed(r)'
      BY <2>5 DEF Unsealed
    <3>2. Cardinality(Unsealed(r)') + 1 <= Cardinality(Unsealed(r))
      BY <2>1, <3>1, SomeSends
    <3> QED  BY <1>1, <1>2, <2>2, <2>3, <2>5, <3>2
  <2> QED  BY <1>1, <2>4, <2>5
<1>4. ASSUME NEW r \in Party
      PROVE  party'[Other(r)].inSeq + Cardinality(Undelivered(r)') <= clicks' + 1
  <2>1. Undelivered(r)' \in SUBSET Undelivered(r) /\ Undelivered(r) \in SUBSET Sends
    BY <1>1 DEF Undelivered
  <2>2. /\ Cardinality(Undelivered(r)') \in Nat /\ Cardinality(Undelivered(r)) \in Nat
        /\ Cardinality(Undelivered(r)') <= Cardinality(Undelivered(r))
    BY <2>1, SomeSends
  <2>3. party[Other(r)].inSeq + Cardinality(Undelivered(r)) <= clicks + 1
    BY DEF Counted
  <2>4. Other(r) \in Party /\ (Other(r) = q => r = p)
    BY DEF Party, Other
  <2>5. CASE party'[Other(r)].inSeq = party[Other(r)].inSeq
    BY <1>1, <1>2, <2>2, <2>3, <2>4, <2>5
  <2>6. CASE /\ Other(r) = q /\ party'[q].inSeq = party[q].inSeq + 1
             /\ send[h].at = "decrypting" /\ send'[h].at \notin {"rotating", "decrypting"}
    <3>1. h \in Undelivered(r) /\ h \notin Undelivered(r)'
      BY <2>4, <2>6 DEF Undelivered
    <3>2. Cardinality(Undelivered(r)') + 1 <= Cardinality(Undelivered(r))
      BY <2>1, <3>1, SomeSends
    <3> QED  BY <1>1, <1>2, <2>2, <2>3, <2>4, <2>6, <3>2
  <2> QED  BY <1>1, <2>4, <2>5, <2>6
<1>5. \A r \in Party : party'[r].outSeq >= 1 /\ party'[r].inSeq >= 1
  BY <1>1, <1>2 DEF Counted
<1> QED  BY <1>3, <1>4, <1>5 DEF Counted

\* The handler of an orderly direction that awaits is its only one.
LEMMA OnlyHandler ==
    ASSUME NEW p \in Party, Orderly(p),
           NEW h \in Sends, send[h].at \in Awaiting, send[h].from = p
    PROVE  PendingSends(p) = {h} /\ Phase(p, h)
BY DEF Orderly, PendingSends

\* And when it awaits again, or is over, it is the only one, or there is none.
LEMMA PendingAfter ==
    ASSUME NEW h \in Sends, Frame(h), NEW p \in Party, p = send[h].from,
           PendingSends(p) = {h}
    PROVE  /\ send'[h].at \in Awaiting => PendingSends(p)' = {h}
           /\ send'[h].at \notin Awaiting => PendingSends(p)' = {}
<1>1. /\ send'[h].from = p /\ send[h].at \in Awaiting
      /\ \A g \in Sends \ {h} : send'[g] = send[g]
  BY DEF Frame
<1> QED  BY <1>1 DEF PendingSends

\* The sends of this session, when the handler has not given up.
LEMMA SessionSends ==
    ASSUME NEW h \in Sends, Frame(h), NEW p \in Party, p = send[h].from,
           Orderly(p), PendingSends(p) = {h},
           h \in shown' \/ h \in PendingSends(p)'
    PROVE  \A g \in Sends :
              send'[g].from = p /\ send'[g].session = sessions' /\ g <= clicks'
                => g \in shown' \/ g \in PendingSends(p)'
<1>1. /\ UNCHANGED <<sessions, clicks>> /\ shown \subseteq shown'
      /\ \A g \in Sends \ {h} : send'[g] = send[g]
  BY DEF Frame
<1> QED  BY <1>1 DEF Orderly

\* encryptAESGCM settles: the sender counts the message.
LEMMA EncryptedInv ==
    ASSUME WebInv, Counted, NEW h \in Sends, NEW p \in Party, p = send[h].from, Encrypted(h)
    PROVE  WebInv' /\ Counted'
<1> DEFINE e == [party[p] EXCEPT !.outSeq = party[p].outSeq + 1]
<1>1. /\ send[h].at = "encrypting"
      /\ UNCHANGED <<active, sessions, clicks, disturbed, shown>>
      /\ party' = [party EXCEPT ![p] = e]
      /\ party[p].outKey = Null => Leaves(h)
      /\ party[p].outKey # Null => GoesOn(h, "rotating", party[p].outKey)
  BY Zenon DEF Encrypted, Settles
<1>2. party \in [Party -> Ends] /\ party[p].outKey \in Seq(Nat) /\ party[p].outSeq + 1 \in Nat
  BY DEF WebInv, Typed, Ends
<1>3. /\ e \in Ends /\ e.outSeq = party[p].outSeq + 1
      /\ e.outKey = party[p].outKey /\ e.inKey = party[p].inKey /\ e.inSeq = party[p].inSeq
  BY <1>2, EndsUpdates
<1> HIDE DEF e
<1>4. /\ \A r \in Party : /\ party'[r].outKey = party[r].outKey
                          /\ party'[r].inKey = party[r].inKey
                          /\ party'[r].inSeq = party[r].inSeq
                          /\ r # p => party'[r].outSeq = party[r].outSeq
      /\ party'[p].outSeq = party[p].outSeq + 1
  BY <1>1, <1>2, <1>3
<1>5. party' \in [Party -> Ends]
  BY <1>1, <1>2, <1>3
<1>6. Frame(h)
  <2>1. "rotating" \in Awaiting /\ "encrypting" \in Awaiting
    BY DEF Awaiting
  <2>2. CASE party[p].outKey = Null
    BY <1>1, <1>4, <1>5, <2>1, <2>2, LeavesFacts DEF WebInv, Typed, Frame
  <2>3. CASE party[p].outKey # Null
    BY <1>1, <1>2, <1>4, <1>5, <2>1, <2>3, GoesOnFacts DEF WebInv, Typed, Frame
  <2> QED  BY <2>2, <2>3
<1>7. ASSUME active, Orderly(p) PROVE Orderly(p)'
  <2>1. "rotating" \in Awaiting /\ "encrypting" \in Awaiting
    BY DEF Awaiting
  <2>2. PendingSends(p) = {h} /\ Phase(p, h)
    BY <1>1, <1>7, <2>1, OnlyHandler
  <2>3. /\ send'[h].at = "rotating" /\ send'[h].copy = party[p].outKey
        /\ send'[h].from = p /\ send'[h].session = send[h].session
        /\ send'[h].tamper = send[h].tamper /\ send'[h].seq = send[h].seq
        /\ send'[h].key = send[h].key
    BY <1>1, <1>2, <1>7, <2>1, GoesOnFacts DEF WebInv
  <2>4. PendingSends(p)' = {h}
    BY <1>6, <2>1, <2>2, <2>3, PendingAfter
  <2>5. Phase(p, h)'
    <3>1. Other(p) \in Party /\ Other(p) # p
      BY OtherOfOther
    <3> QED  BY <1>1, <1>4, <2>2, <2>3, <3>1 DEF Phase
  <2>6. \A g \in Sends :
           send'[g].from = p /\ send'[g].session = sessions' /\ g <= clicks'
             => g \in shown' \/ g \in PendingSends(p)'
    BY <1>6, <1>7, <2>2, <2>4, SessionSends
  <2> QED  BY <2>4, <2>5, <2>6 DEF Orderly
<1>8. Counted'
  <2>1. send'[h].at \in {"rotating", "over"}
    BY <1>1, <1>2, LeavesFacts, GoesOnFacts DEF WebInv, Awaiting
  <2> QED  BY <1>1, <1>4, <1>6, <2>1, OtherOfOther, CountedKept DEF Counted
<1> QED  BY <1>6, <1>7, <1>8, OwnDirection

\* ratchetDeriveKey settles: the sender's key is replaced and the receiver looks
\* at the message.
LEMMA RotatedInv ==
    ASSUME WebInv, Counted, NEW h \in Sends, NEW p \in Party, p = send[h].from, Rotated(h)
    PROVE  WebInv' /\ Counted'
<1> DEFINE q == Other(p)
           k == RatchetDeriveKey(send[h].copy, h)
           e == [party[p] EXCEPT !.outKey = k]
<1>1. /\ send[h].at = "rotating"
      /\ UNCHANGED <<active, sessions, clicks, disturbed, shown>>
      /\ \/ party[p].outKey = Null /\ Leaves(h) /\ UNCHANGED party
         \/ /\ party[p].outKey # Null
            /\ party' = [party EXCEPT ![p] = e]
            /\ \/ InOrder(h) /\ GoesOn(h, "decrypting", party[q].inKey)
               \/ ~InOrder(h) /\ Leaves(h)
  BY Zenon DEF Rotated, Settles
<1>2. /\ party \in [Party -> Ends] /\ party[p] \in Ends /\ q \in Party /\ q # p
      /\ party[q].inKey \in Seq(Nat)
  BY OtherOfOther DEF WebInv, Typed, Ends
<1>3. k \in Seq(Nat) /\ k # Null
  <2>1. send[h].copy \in Seq(Nat) /\ h \in Nat
    BY DEF WebInv, Typed, SendState, Sends
  <2> QED  BY <2>1, AppendProperties DEF RatchetDeriveKey, Null
<1>4. /\ e \in Ends /\ e.outKey = k /\ e.inKey = party[p].inKey
      /\ e.outSeq = party[p].outSeq /\ e.inSeq = party[p].inSeq
  <2> HIDE DEF k
  <2> QED  BY <1>2, <1>3, EndsUpdates
<1> HIDE DEF e, q
<1>5. /\ party' \in [Party -> Ends]
      /\ \A r \in Party : /\ party'[r].inKey = party[r].inKey
                          /\ party'[r].inSeq = party[r].inSeq
                          /\ party'[r].outSeq = party[r].outSeq
                          /\ r # p => party'[r].outKey = party[r].outKey
      /\ party[p].outKey # Null => party'[p].outKey = k
      /\ party[p].outKey = Null => party'[p].outKey = Null
  <2> HIDE DEF k
  <2>1. CASE party[p].outKey = Null
    BY <1>1, <1>2, <2>1
  <2>2. CASE party[p].outKey # Null
    BY <1>1, <1>2, <1>4, <2>2
  <2> QED  BY <2>1, <2>2
<1>6. \A r \in Party : party'[r].outKey = Null <=> party[r].outKey = Null
  BY <1>3, <1>5
<1> HIDE DEF k
<1>7. "decrypting" \in Awaiting /\ "rotating" \in Awaiting /\ "over" \notin Awaiting
  BY DEF Awaiting
<1>8. Frame(h)
  <2>1. CASE Leaves(h)
    BY <1>1, <1>5, <1>6, <1>7, <2>1, LeavesFacts DEF WebInv, Typed, Frame
  <2>2. CASE GoesOn(h, "decrypting", party[q].inKey)
    BY <1>1, <1>2, <1>5, <1>6, <1>7, <2>2, GoesOnFacts DEF WebInv, Typed, Frame
  <2> QED  BY <1>1, <2>1, <2>2
<1>9. ASSUME active, Orderly(p) PROVE Orderly(p)'
  <2>1. PendingSends(p) = {h} /\ Phase(p, h)
    BY <1>1, <1>7, <1>9, OnlyHandler
  <2>2. InOrder(h)
    BY <1>1, <2>1 DEF InOrder, Phase
  <2>3. party[p].outKey # Null
    BY <1>9 DEF WebInv
  <2>4. /\ send'[h].at = "decrypting" /\ send'[h].copy = party[q].inKey
        /\ send'[h].from = p /\ send'[h].session = send[h].session
        /\ send'[h].tamper = send[h].tamper /\ send'[h].seq = send[h].seq
        /\ send'[h].key = send[h].key
    BY <1>1, <1>2, <1>7, <2>2, <2>3, GoesOnFacts DEF WebInv
  <2>5. PendingSends(p)' = {h}
    BY <1>7, <1>8, <2>1, <2>4, PendingAfter
  <2>6. Phase(p, h)'
    <3>1. party'[p].outKey = RatchetDeriveKey(party[q].inKey, h)
      BY <1>1, <1>5, <2>1, <2>3 DEF Phase, q, k
    <3> QED  BY <1>1, <1>2, <1>5, <2>1, <2>4, <3>1 DEF Phase, q
  <2>7. \A g \in Sends :
           send'[g].from = p /\ send'[g].session = sessions' /\ g <= clicks'
             => g \in shown' \/ g \in PendingSends(p)'
    BY <1>8, <1>9, <2>1, <2>5, SessionSends
  <2> QED  BY <2>5, <2>6, <2>7 DEF Orderly
<1>10. Counted'
  <2>1. send'[h].at \in {"decrypting", "over"}
    BY <1>1, <1>2, LeavesFacts, GoesOnFacts DEF WebInv, Awaiting
  <2> QED  BY <1>1, <1>2, <1>5, <1>8, <2>1, CountedKept DEF Counted, q
<1> QED  BY <1>8, <1>9, <1>10, OwnDirection

\* decryptAESGCM rejects: never in an orderly direction.
LEMMA DecryptFailedInv ==
    ASSUME WebInv, Counted, NEW h \in Sends, NEW p \in Party, p = send[h].from, DecryptFailed(h)
    PROVE  WebInv' /\ Counted'
<1>1. /\ send[h].at = "decrypting" /\ ~Opens(h) /\ Leaves(h)
      /\ UNCHANGED <<active, sessions, clicks, disturbed, party, shown>>
  BY DEF DecryptFailed, Settles
<1>2. "decrypting" \in Awaiting
  BY DEF Awaiting
<1>3. Frame(h)
  BY <1>1, <1>2, LeavesFacts DEF WebInv, Typed, Frame
<1>4. ~Orderly(p)
  <2>1. ASSUME Orderly(p) PROVE Opens(h)
    <3>1. Phase(p, h)
      BY <1>1, <1>2, <2>1, OnlyHandler
    <3> QED  BY <1>1, <3>1 DEF Phase, Opens
  <2> QED  BY <1>1, <2>1
<1>5. Counted'
  <2>1. send'[h].at = "over"
    BY <1>1, LeavesFacts DEF WebInv
  <2> QED  BY <1>1, <1>3, <2>1, OtherOfOther, CountedKept DEF Counted
<1> QED  BY <1>3, <1>4, <1>5, OwnDirection

\* decryptAESGCM settles: the receiver shows and counts the message.
LEMMA DecryptedInv ==
    ASSUME WebInv, Counted, NEW h \in Sends, NEW p \in Party, p = send[h].from, Decrypted(h)
    PROVE  WebInv' /\ Counted'
<1> DEFINE q == Other(p)
           e == [party[q] EXCEPT !.inSeq = party[q].inSeq + 1]
<1>1. /\ send[h].at = "decrypting" /\ Opens(h)
      /\ UNCHANGED <<active, sessions, clicks, disturbed>>
      /\ shown' = shown \cup {h}
      /\ party' = [party EXCEPT ![q] = e]
      /\ party[q].inKey = Null => Leaves(h)
      /\ party[q].inKey # Null => GoesOn(h, "following", party[q].inKey)
  BY Zenon DEF Decrypted, Settles
<1>2. /\ party \in [Party -> Ends] /\ party[q] \in Ends
      /\ q \in Party /\ q # p /\ Other(q) = p
      /\ party[q].inKey \in Seq(Nat) /\ party[q].inSeq + 1 \in Nat
  BY OtherOfOther DEF WebInv, Typed, Ends
<1>3. /\ e \in Ends /\ e.inSeq = party[q].inSeq + 1
      /\ e.outKey = party[q].outKey /\ e.inKey = party[q].inKey
      /\ e.outSeq = party[q].outSeq
  BY <1>2, EndsUpdates
<1> HIDE DEF e, q
<1>4. /\ \A r \in Party : /\ party'[r].outKey = party[r].outKey
                          /\ party'[r].inKey = party[r].inKey
                          /\ party'[r].outSeq = party[r].outSeq
                          /\ r # q => party'[r].inSeq = party[r].inSeq
      /\ party'[q].inSeq = party[q].inSeq + 1
      /\ party' \in [Party -> Ends]
  BY <1>1, <1>2, <1>3
<1>5. "following" \in Awaiting /\ "decrypting" \in Awaiting
  BY DEF Awaiting
<1>6. Frame(h)
  <2>1. CASE party[q].inKey = Null
    BY <1>1, <1>4, <1>5, <2>1, LeavesFacts DEF WebInv, Typed, Frame, q
  <2>2. CASE party[q].inKey # Null
    BY <1>1, <1>2, <1>4, <1>5, <2>2, GoesOnFacts DEF WebInv, Typed, Frame, q
  <2> QED  BY <2>1, <2>2
<1>7. ASSUME active, Orderly(p) PROVE Orderly(p)'
  <2>1. PendingSends(p) = {h} /\ Phase(p, h)
    BY <1>1, <1>5, <1>7, OnlyHandler
  <2>2. party[q].inKey # Null
    BY <1>2, <1>7 DEF WebInv
  <2>3. /\ send'[h].at = "following" /\ send'[h].copy = party[q].inKey
        /\ send'[h].from = p /\ send'[h].session = send[h].session
        /\ send'[h].tamper = send[h].tamper
    BY <1>1, <1>2, <1>5, <2>2, GoesOnFacts DEF WebInv
  <2>4. PendingSends(p)' = {h}
    BY <1>5, <1>6, <2>1, <2>3, PendingAfter
  <2>5. Phase(p, h)'
    BY <1>1, <1>2, <1>4, <2>1, <2>3 DEF Phase, q
  <2>6. \A g \in Sends :
           send'[g].from = p /\ send'[g].session = sessions' /\ g <= clicks'
             => g \in shown' \/ g \in PendingSends(p)'
    BY <1>6, <1>7, <2>1, <2>4, SessionSends
  <2> QED  BY <2>4, <2>5, <2>6 DEF Orderly
<1>8. Counted'
  <2>1. send'[h].at \in {"following", "over"}
    BY <1>1, <1>2, LeavesFacts, GoesOnFacts DEF WebInv, Awaiting
  <2> QED  BY <1>1, <1>2, <1>4, <1>6, <2>1, CountedKept DEF Counted, q
<1> QED  BY <1>6, <1>7, <1>8, OwnDirection

\* ratchetDeriveKey settles for the receiver: the two ends meet again.
LEMMA FollowedInv ==
    ASSUME WebInv, Counted, NEW h \in Sends, NEW p \in Party, p = send[h].from, Followed(h)
    PROVE  WebInv' /\ Counted'
<1> DEFINE q == Other(p)
           k == RatchetDeriveKey(send[h].copy, h)
           e == [party[q] EXCEPT !.inKey = k]
<1>1. /\ send[h].at = "following" /\ Leaves(h)
      /\ UNCHANGED <<active, sessions, clicks, disturbed, shown>>
      /\ \/ party[q].inKey = Null /\ UNCHANGED party
         \/ party[q].inKey # Null /\ party' = [party EXCEPT ![q] = e]
  BY Zenon DEF Followed, Settles
<1>2. /\ party \in [Party -> Ends] /\ party[q] \in Ends
      /\ q \in Party /\ q # p /\ Other(q) = p
  BY OtherOfOther DEF WebInv, Typed
<1>3. k \in Seq(Nat) /\ k # Null
  <2>1. send[h].copy \in Seq(Nat) /\ h \in Nat
    BY DEF WebInv, Typed, SendState, Sends
  <2> QED  BY <2>1, AppendProperties DEF RatchetDeriveKey, Null
<1>4. /\ e \in Ends /\ e.inKey = k /\ e.outKey = party[q].outKey
      /\ e.outSeq = party[q].outSeq /\ e.inSeq = party[q].inSeq
  <2> HIDE DEF k
  <2> QED  BY <1>2, <1>3, EndsUpdates
<1> HIDE DEF e, q
<1>5. /\ party' \in [Party -> Ends]
      /\ \A r \in Party : /\ party'[r].outKey = party[r].outKey
                          /\ party'[r].inSeq = party[r].inSeq
                          /\ party'[r].outSeq = party[r].outSeq
                          /\ r # q => party'[r].inKey = party[r].inKey
      /\ party[q].inKey # Null => party'[q].inKey = k
      /\ party[q].inKey = Null => party'[q].inKey = Null
  <2> HIDE DEF k
  <2>1. CASE party[q].inKey = Null
    BY <1>1, <1>2, <2>1
  <2>2. CASE party[q].inKey # Null
    BY <1>1, <1>2, <1>4, <2>2
  <2> QED  BY <2>1, <2>2
<1>6. \A r \in Party : party'[r].inKey = Null <=> party[r].inKey = Null
  BY <1>3, <1>5
<1> HIDE DEF k
<1>7. "following" \in Awaiting /\ "over" \notin Awaiting
  BY DEF Awaiting
<1>8. Frame(h)
  BY <1>1, <1>5, <1>6, <1>7, LeavesFacts DEF WebInv, Typed, Frame, q
<1>9. ASSUME active, Orderly(p) PROVE Orderly(p)'
  <2>1. PendingSends(p) = {h} /\ Phase(p, h)
    BY <1>1, <1>7, <1>9, OnlyHandler
  <2>2. party[q].inKey # Null
    BY <1>2, <1>9 DEF WebInv
  <2>3. send'[h].at = "over"
    BY <1>1, LeavesFacts DEF WebInv
  <2>4. PendingSends(p)' = {}
    BY <1>7, <1>8, <2>1, <2>3, PendingAfter
  <2>5. /\ party'[p].outKey = party'[q].inKey
        /\ party'[p].outSeq = party'[q].inSeq
        /\ h \in shown'
    BY <1>1, <1>2, <1>5, <2>1, <2>2 DEF Phase, q, k
  <2>6. \A g \in Sends :
           send'[g].from = p /\ send'[g].session = sessions' /\ g <= clicks'
             => g \in shown' \/ g \in PendingSends(p)'
    BY <1>8, <1>9, <2>1, <2>5, SessionSends
  <2> QED  BY <2>4, <2>5, <2>6 DEF Orderly, q
<1>10. Counted'
  <2>1. send'[h].at = "over"
    BY <1>1, LeavesFacts DEF WebInv
  <2> QED  BY <1>1, <1>2, <1>5, <1>8, <2>1, CountedKept DEF Counted, q
<1> QED  BY <1>8, <1>9, <1>10, OwnDirection

\* A new message: the first handler of its direction, or the direction is
\* disturbed.
LEMMA SendMessageInv ==
    ASSUME WebInv, NEW p \in Party, NEW tamper \in BOOLEAN, SendMessage(p, tamper),
           NEW n \in Sends, n = clicks + 1
    PROVE  WebInv'
<1> DEFINE s == [at |-> "encrypting", from |-> p, tamper |-> tamper, session |-> sessions,
                 seq |-> party[p].outSeq, key |-> party[p].outKey, copy |-> Null]
<1>1. /\ active /\ clicks < MaxSends /\ clicks' = n
      /\ send' = [send EXCEPT ![n] = s]
      /\ disturbed' = [disturbed EXCEPT ![p] = disturbed[p] \/ tamper \/ Pending(p)]
      /\ UNCHANGED <<active, party, sessions, shown>>
  BY Zenon DEF SendMessage, Disturbs
<1>2. Typed
  BY DEF WebInv
<1>3. /\ clicks \in Nat /\ n \in 0 .. MaxSends
      /\ \A h \in Sends : h # n => (h <= n <=> h <= clicks)
  BY <1>1, <1>2, WebAssumption DEF Typed, Sends
<1>4. party[p] \in Ends
  BY <1>2 DEF Typed
<1>5. /\ s \in SendState /\ s.at = "encrypting" /\ s.from = p /\ s.tamper = tamper
      /\ s.session = sessions /\ s.seq = party[p].outSeq /\ s.key = party[p].outKey
  BY <1>2, <1>4 DEF Typed, Ends, SendState, Null, Awaiting
<1> HIDE DEF s
<1>6. /\ send'[n] = s
      /\ \A h \in Sends : h # n => send'[h] = send[h]
      /\ send' \in [Sends -> SendState]
  BY <1>1, <1>2, <1>3, <1>5 DEF Typed
<1>7. \A r \in Party : r # p => disturbed'[r] = disturbed[r]
  BY <1>1, <1>2 DEF Typed
<1>8. disturbed'[p] <=> disturbed[p] \/ tamper \/ Pending(p)
  BY <1>1, <1>2, Zenon DEF Typed
<1>9. Typed'
  <2>1. disturbed' \in [Party -> BOOLEAN]
    <3>1. (disturbed[p] \/ tamper \/ Pending(p)) \in BOOLEAN
      OBVIOUS
    <3> QED  BY <1>1, <1>2, <3>1 DEF Typed
  <2> QED  BY <1>1, <1>2, <1>3, <1>6, <2>1 DEF Typed
<1>10. send[n].at \notin Awaiting
  BY <1>3 DEF WebInv
<1>11. "encrypting" \in Awaiting
  BY DEF Awaiting
<1>12. \A h \in Sends : send'[h].session <= sessions'
  BY <1>1, <1>2, <1>5, <1>6 DEF WebInv, Typed
<1>13. \A h \in Sends : send'[h].at \in Awaiting => h <= clicks'
  <2>1. n <= n
    BY <1>3 DEF Sends
  <2> QED  BY <1>1, <1>3, <1>6, <2>1 DEF WebInv
<1>14. ASSUME NEW r \in Party, active', ~disturbed'[r] PROVE Orderly(r)'
  <2>1. CASE r # p
    <3>1. Orderly(r)
      BY <1>1, <1>7, <1>14, <2>1 DEF WebInv
    <3>2. PendingSends(r)' = PendingSends(r)
      BY <1>3, <1>5, <1>6, <1>10, <2>1 DEF PendingSends
    <3>3. \A h \in PendingSends(r) : Phase(r, h)'
      <4> SUFFICES ASSUME NEW h \in PendingSends(r) PROVE Phase(r, h)'
        OBVIOUS
      <4>1. send'[h] = send[h] /\ Phase(r, h)
        BY <1>6, <1>10, <3>1 DEF PendingSends, Orderly
      <4> QED  BY <1>1, <4>1 DEF Phase
    <3>4. \A g \in Sends :
             send'[g].from = r /\ send'[g].session = sessions' /\ g <= clicks'
               => g \in shown' \/ g \in PendingSends(r)'
      BY <1>1, <1>3, <1>5, <1>6, <2>1, <3>1, <3>2 DEF Orderly
    <3> QED  BY <1>1, <3>1, <3>2, <3>3, <3>4 DEF Orderly
  <2>2. CASE r = p
    <3>1. ~tamper /\ ~Pending(p) /\ ~disturbed[p]
      BY <1>8, <1>14, <2>2
    <3>2. PendingSends(p) = {} /\ Orderly(p)
      BY <1>1, <3>1 DEF Pending, PendingSends, WebInv
    <3>3. PendingSends(p)' = {n}
      BY <1>3, <1>5, <1>6, <1>11, <3>2 DEF PendingSends
    <3>4. Phase(p, n)'
      BY <1>1, <1>5, <1>6, <3>1, <3>2 DEF Orderly, Phase
    <3>5. \A g \in Sends :
             send'[g].from = p /\ send'[g].session = sessions' /\ g <= clicks'
               => g \in shown' \/ g \in PendingSends(p)'
      BY <1>1, <1>3, <1>6, <3>2, <3>3 DEF Orderly
    <3> QED  BY <2>2, <3>3, <3>4, <3>5 DEF Orderly
  <2> QED  BY <2>1, <2>2
<1>15. \A r \in Party :
          IF active' THEN party'[r].outKey # Null /\ party'[r].inKey # Null
                     ELSE party'[r].outKey = Null /\ party'[r].inKey = Null
  BY <1>1 DEF WebInv
<1> QED  BY <1>9, <1>12, <1>13, <1>14, <1>15 DEF WebInv

\* A new session: a direction with a survivor of an earlier one is disturbed.
LEMMA StartSessionInv ==
    ASSUME WebInv, StartSession
    PROVE  WebInv'
<1> DEFINE e == [outKey |-> <<sessions + 1>>, inKey |-> <<sessions + 1>>,
                 outSeq |-> 1, inSeq |-> 1]
<1>1. /\ active' = TRUE /\ sessions' = sessions + 1 /\ sessions < MaxSessions
      /\ party' = [p \in Party |-> e]
      /\ disturbed' = [p \in Party |-> Pending(p)]
      /\ UNCHANGED <<clicks, send, shown>>
  BY DEF StartSession
<1>2. Typed /\ sessions \in Nat
  BY WebAssumption DEF WebInv, Typed
<1>3. /\ e \in Ends /\ e.outKey = e.inKey /\ e.outSeq = e.inSeq /\ e.inKey # Null
  <2>1. <<sessions + 1>> \in Seq(Nat) /\ <<sessions + 1>> # << >>
    BY <1>2
  <2> QED  BY <2>1 DEF Ends, Null
<1> HIDE DEF e
<1>4. \A p \in Party : party'[p] = e /\ (disturbed'[p] <=> Pending(p))
  BY <1>1
<1>5. Typed'
  <2>1. disturbed' \in [Party -> BOOLEAN]
    <3>1. \A p \in Party : Pending(p) \in BOOLEAN
      BY DEF Pending
    <3> QED  BY <1>1, <3>1
  <2>2. sessions' \in 0 .. MaxSessions
    BY <1>1, <1>2, WebAssumption
  <2> QED  BY <1>1, <1>2, <1>3, <2>1, <2>2 DEF Typed
<1>6. \A h \in Sends : send'[h].session <= sessions' /\ send'[h].session # sessions'
  <2>1. \A h \in Sends : send[h].session \in Nat /\ send[h].session <= sessions
    BY <1>2 DEF WebInv, Typed, SendState
  <2> QED  BY <1>1, <1>2, <2>1
<1>7. ASSUME NEW p \in Party, ~disturbed'[p] PROVE Orderly(p)'
  <2>1. PendingSends(p)' = {}
    BY <1>1, <1>4, <1>7 DEF Pending, PendingSends
  <2> QED  BY <1>3, <1>4, <1>6, <2>1, OtherOfOther DEF Orderly
<1>8. \A p \in Party : active' /\ party'[p].outKey # Null /\ party'[p].inKey # Null
  BY <1>1, <1>3, <1>4
<1>9. \A h \in Sends : send'[h].at \in Awaiting => h <= clicks'
  BY <1>1 DEF WebInv
<1> QED  BY <1>5, <1>6, <1>7, <1>8, <1>9 DEF WebInv

\* The keys go with the session.
LEMMA EndSessionInv ==
    ASSUME WebInv, EndSession
    PROVE  WebInv'
<1> DEFINE f(p) == [party[p] EXCEPT !.outKey = Null]
           e(p) == [f(p) EXCEPT !.inKey = Null]
<1>1. /\ active' = FALSE
      /\ party' = [p \in Party |-> e(p)]
      /\ UNCHANGED <<sessions, clicks, send, shown, disturbed>>
  BY Zenon DEF EndSession
<1>2. \A p \in Party : e(p) \in Ends /\ e(p).outKey = Null /\ e(p).inKey = Null
  <2> SUFFICES ASSUME NEW p \in Party
               PROVE  e(p) \in Ends /\ e(p).outKey = Null /\ e(p).inKey = Null
    OBVIOUS
  <2>1. party[p] \in Ends /\ Null \in Seq(Nat)
    BY DEF WebInv, Typed, Null
  <2>2. f(p) \in Ends /\ f(p).outKey = Null
    BY <2>1, EndsUpdates
  <2> HIDE DEF f
  <2> QED  BY <2>1, <2>2, EndsUpdates
<1> HIDE DEF e
<1>3. /\ \A p \in Party : party'[p].outKey = Null /\ party'[p].inKey = Null
      /\ party' \in [Party -> Ends]
  BY <1>1, <1>2
<1> QED  BY <1>1, <1>3 DEF WebInv, Typed

\* A click adds one to what may be counted; a new session counts from one again,
\* while handlers of earlier ones may still count.
LEMMA ClicksCounted ==
    ASSUME WebInv, Counted, Clicks
    PROVE  Counted'
<1>1. Typed /\ clicks \in Nat /\ party \in [Party -> Ends]
  BY WebAssumption DEF WebInv, Typed
<1>2. \A r \in Party : party[r].outSeq \in Nat /\ party[r].inSeq \in Nat
  BY <1>1 DEF Ends
<1>3. \A r \in Party :
         /\ Unsealed(r) \in SUBSET Sends /\ Undelivered(r) \in SUBSET Sends
         /\ Cardinality(Unsealed(r)) \in Nat /\ Cardinality(Undelivered(r)) \in Nat
  BY SomeSends DEF Unsealed, Undelivered
<1>4. CASE StartSession
  <2>1. /\ UNCHANGED <<clicks, send, shown>>
        /\ \A r \in Party : party'[r].outSeq = 1 /\ party'[r].inSeq = 1
    BY <1>4 DEF StartSession
  <2>2. ASSUME NEW S \in SUBSET Sends, \A h \in S : h <= clicks
        PROVE  Cardinality(S) <= clicks
    <3>1. IsFiniteSet(1 .. clicks) /\ Cardinality(1 .. clicks) = clicks
      BY <1>1, FS_Interval
    <3>2. S \in SUBSET (1 .. clicks)
      BY <1>1, <2>2 DEF Sends
    <3> QED  BY <3>1, <3>2, FS_Subset
  <2>3. \A r \in Party : /\ Cardinality(Unsealed(r)) <= clicks
                          /\ Cardinality(Undelivered(r)) <= clicks
    <3>1. \A r \in Party : \A h \in Unsealed(r) \cup Undelivered(r) : h <= clicks
      BY DEF WebInv, Unsealed, Undelivered, Awaiting
    <3> QED  BY <1>3, <2>2, <3>1
  <2>4. \A r \in Party : Unsealed(r)' = Unsealed(r) /\ Undelivered(r)' = Undelivered(r)
    BY <2>1 DEF Unsealed, Undelivered
  <2> QED  BY <1>1, <1>3, <2>1, <2>3, <2>4, OtherOfOther DEF Counted
<1>5. CASE EndSession
  <2> DEFINE f(r) == [party[r] EXCEPT !.outKey = Null]
             e(r) == [f(r) EXCEPT !.inKey = Null]
  <2>1. party' = [r \in Party |-> e(r)] /\ UNCHANGED <<clicks, send, shown>>
    BY <1>5, Zenon DEF EndSession
  <2>2. \A r \in Party : e(r).outSeq = party[r].outSeq /\ e(r).inSeq = party[r].inSeq
    BY <1>1 DEF Ends
  <2> HIDE DEF e
  <2>3. \A r \in Party : party'[r].outSeq = party[r].outSeq /\ party'[r].inSeq = party[r].inSeq
    BY <2>1, <2>2
  <2>4. \A r \in Party : Unsealed(r)' = Unsealed(r) /\ Undelivered(r)' = Undelivered(r)
    BY <2>1 DEF Unsealed, Undelivered
  <2> QED  BY <2>1, <2>3, <2>4, OtherOfOther DEF Counted
<1>6. ASSUME NEW p \in Party, NEW tamper \in BOOLEAN, SendMessage(p, tamper)
      PROVE  Counted'
  <2>1. /\ clicks' = clicks + 1
        /\ \A h \in Sends : h # clicks + 1 => send'[h] = send[h]
        /\ UNCHANGED <<party, shown>>
    BY <1>1, <1>6 DEF SendMessage, Typed
  <2>2. ASSUME NEW S \in SUBSET Sends, NEW T \in SUBSET (S \cup {clicks + 1})
        PROVE  Cardinality(T) <= Cardinality(S) + 1 /\ Cardinality(T) \in Nat
    <3>1. IsFiniteSet(S) /\ Cardinality(S) \in Nat
      BY SomeSends
    <3>2. /\ IsFiniteSet(S \cup {clicks + 1})
          /\ Cardinality(S \cup {clicks + 1}) <= Cardinality(S) + 1
      BY <3>1, FS_AddElement
    <3> QED  BY <3>1, <3>2, FS_Subset, FS_CardinalityType
  <2>3. \A r \in Party : /\ Unsealed(r)' \in SUBSET (Unsealed(r) \cup {clicks + 1})
                          /\ Undelivered(r)' \in SUBSET (Undelivered(r) \cup {clicks + 1})
    BY <2>1 DEF Unsealed, Undelivered
  <2>4. \A r \in Party :
           /\ Cardinality(Unsealed(r)') <= Cardinality(Unsealed(r)) + 1
           /\ Cardinality(Unsealed(r)') \in Nat
           /\ Cardinality(Undelivered(r)') <= Cardinality(Undelivered(r)) + 1
           /\ Cardinality(Undelivered(r)') \in Nat
    BY <1>3, <2>2, <2>3
  <2> QED  BY <1>1, <1>2, <1>3, <2>1, <2>4, OtherOfOther DEF Counted
<1> QED  BY <1>4, <1>5, <1>6 DEF Clicks

\* At first nothing is active and nothing was sent.
LEMMA WebInvInit == Init => WebInv /\ Counted
<1> SUFFICES ASSUME Init PROVE WebInv /\ Counted
  OBVIOUS
<1>1. Null \in Seq(Nat) /\ 0 \in Nat /\ 0 \in 0 .. MaxSends /\ 0 \in 0 .. MaxSessions
  BY WebAssumption DEF Null
<1>2. NoKeys \in Ends /\ NoKeys.outKey = Null /\ NoKeys.inKey = Null
  BY <1>1 DEF NoKeys, Ends
<1>3. Idle \in SendState /\ Idle.session = 0 /\ Idle.at \notin Awaiting
  BY <1>1 DEF Idle, SendState, Party, Awaiting
<1>4. Typed
  BY <1>1, <1>2, <1>3 DEF Init, Typed
<1>5. \A h \in Sends : send[h].session <= sessions /\ send[h].at \notin Awaiting
  BY <1>3 DEF Init
<1>6. Counted
  <2>1. \A p \in Party : Unsealed(p) = {} /\ Undelivered(p) = {}
    BY <1>5 DEF Unsealed, Undelivered, Awaiting
  <2>2. \A p \in Party : party[p].outSeq = 1 /\ party[p].inSeq = 1
    BY DEF Init, NoKeys
  <2> QED  BY <2>1, <2>2, FS_EmptySet, OtherOfOther DEF Init, Counted
<1> QED  BY <1>2, <1>4, <1>5, <1>6 DEF Init, WebInv

\* Every step keeps the invariant.
LEMMA WebInvNext == WebInv /\ Counted /\ [Next]_vars => WebInv' /\ Counted'
<1> SUFFICES ASSUME WebInv, Counted, [Next]_vars PROVE WebInv' /\ Counted'
  OBVIOUS
<1>1. CASE StartSession
  BY <1>1, StartSessionInv, ClicksCounted DEF Clicks
<1>2. CASE EndSession
  BY <1>2, EndSessionInv, ClicksCounted DEF Clicks
<1>3. ASSUME NEW p \in Party, NEW tamper \in BOOLEAN, SendMessage(p, tamper)
      PROVE  WebInv' /\ Counted'
  <2>1. clicks + 1 \in Sends
    BY <1>3, WebAssumption DEF WebInv, Typed, SendMessage, Sends
  <2> QED  BY <1>3, <2>1, SendMessageInv, ClicksCounted DEF Clicks
<1>4. ASSUME NEW h \in Sends, Handler(h) PROVE WebInv' /\ Counted'
  <2>1. send[h].from \in Party
    BY DEF WebInv, Typed, SendState
  <2> QED  BY <1>4, <2>1, EncryptedInv, RotatedInv, DecryptFailedInv, DecryptedInv,
              FollowedInv DEF Handler
<1>5. CASE UNCHANGED vars
  <2>1. WebInv'
    BY <1>5 DEF vars, WebInv, Typed, Orderly, PendingSends, Phase
  <2>2. \A p \in Party : Unsealed(p)' = Unsealed(p) /\ Undelivered(p)' = Undelivered(p)
    BY <1>5 DEF vars, Unsealed, Undelivered
  <2> QED  BY <1>5, <2>1, <2>2, OtherOfOther DEF vars, Counted
<1> QED  BY <1>1, <1>2, <1>3, <1>4, <1>5 DEF Next, Clicks

\* The inductive invariant holds in every run of every instance.
THEOREM WebInvariance == Spec => [](WebInv /\ Counted)
BY WebInvInit, WebInvNext, PTL DEF Spec

\* The page's state keeps its types; above all, neither counter of a party runs
\* ahead of the messages clicked, however the handlers of overlapping sends and of
\* ended sessions interleave.
THEOREM WebTypes == Spec => []TypeOK
<1>1. WebInv /\ Counted => TypeOK
  <2> SUFFICES ASSUME WebInv, Counted PROVE TypeOK
    OBVIOUS
  <2>1. Typed /\ clicks \in 0 .. MaxSends /\ party \in [Party -> Ends]
    BY DEF WebInv, Typed
  <2>2. ASSUME NEW p \in Party PROVE party[p] \in PartyState
    <3>1. /\ party[p] \in Ends /\ party[p].outSeq \in Nat /\ party[p].inSeq \in Nat
      BY <2>1 DEF Ends
    <3>2. /\ Unsealed(p) \in SUBSET Sends /\ Undelivered(Other(p)) \in SUBSET Sends
      BY DEF Unsealed, Undelivered
    <3>3. Cardinality(Unsealed(p)) \in Nat /\ Cardinality(Undelivered(Other(p))) \in Nat
      BY <3>2, SomeSends
    <3>4. /\ party[p].outSeq >= 1 /\ party[p].inSeq >= 1
          /\ party[p].outSeq + Cardinality(Unsealed(p)) <= clicks + 1
          /\ party[p].inSeq + Cardinality(Undelivered(Other(p))) <= clicks + 1
      BY OtherOfOther DEF Counted
    <3>5. party[p].outSeq \in 1 .. (MaxSends + 1) /\ party[p].inSeq \in 1 .. (MaxSends + 1)
      BY <2>1, <3>1, <3>3, <3>4, WebAssumption
    <3> QED  BY <3>1, <3>5 DEF Ends, PartyState
  <2>3. party \in [Party -> PartyState]
    BY <2>1, <2>2
  <2> QED  BY <2>1, <2>3 DEF Typed, Counted, TypeOK
<1> QED  BY <1>1, WebInvariance, PTL

\* endSession wipes the keys for good: a handler it overtakes finds the key gone
\* and throws instead of putting a derived one back.
THEOREM KeysDie == Spec => []KeysDieWithSession
<1>1. WebInv => KeysDieWithSession
  BY DEF WebInv, KeysDieWithSession
<1> QED  BY <1>1, WebInvariance, PTL

\* A direction nothing disturbed has both ends in step, and has lost no message of
\* the session, whenever none of its handlers awaits; the other direction may be in
\* any state.
THEOREM QuietInStep == Spec => []InStepWhenQuiet
<1>1. WebInv => InStepWhenQuiet
  <2> SUFFICES ASSUME WebInv, NEW p \in Party, active, ~disturbed[p], ~Pending(p)
               PROVE  InStep(p)
    BY DEF InStepWhenQuiet
  <2>1. Orderly(p) /\ PendingSends(p) = {}
    BY DEF WebInv, Pending, PendingSends
  <2> QED  BY <2>1 DEF Orderly, InStep
<1> QED  BY <1>1, WebInvariance, PTL
=============================================================================
