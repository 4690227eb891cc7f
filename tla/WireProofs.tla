----------------------------- MODULE WireProofs -----------------------------
(***************************************************************************)
(* For every size, length, capacity and number of messages: a stream no    *)
(* oversized envelope was met in loses nothing, the threads stop in the    *)
(* middle of a send in one way only, for good, and that takes two messages *)
(* of each user.                                                           *)
(*                                                                         *)
(* The invariant follows one stream at a time: its envelopes lie end to    *)
(* end, what the receive thread has taken of the current one depends on    *)
(* what it waits for, and the length it works with is the one of the       *)
(* envelope that begins there, if one does.                                *)
(***************************************************************************)
EXTENDS Wire, SequenceTheorems, TLAPS

Envelope == [at : Nat, len : Lengths]

\* The place after the i-th envelope of p's stream.
After(p, i) == sent[p][i].at + EnvelopeSize(sent[p][i].len)

\* The envelopes of a stream lie end to end.
Laid(p) ==
    /\ \A i, j \in DOMAIN sent[p] : i < j => After(p, i) <= sent[p][j].at
    /\ \A i \in DOMAIN sent[p] :
          i + 1 \in DOMAIN sent[p] => sent[p][i + 1].at = After(p, i)

\* What the receive thread has taken, and which envelope it believes to read.
Reading(p) ==
    /\ recv[p] = "header" => taken[p] <= start[p] + HEADER_SIZE
    /\ recv[p] # "header" =>
          /\ start[p] + HEADER_SIZE <= taken[p]
          /\ taken[p] <= start[p] + EnvelopeSize(ct_len[p])
          /\ \A i \in StartingAt(p, start[p]) : ct_len[p] = sent[p][i].len
    /\ recv[p] = "lock" =>
          /\ StartingAt(p, start[p]) # {}
          /\ taken[p] = start[p] + EnvelopeSize(ct_len[p])

\* The displayed messages lie before the current envelope.
Counted(p) ==
    /\ Len(sent[p]) <= MaxSent
    /\ displayed[p] <= Len(sent[p])
    /\ displayed[p] # 0 => sent[p][displayed[p]].at < start[p]

\* No oversized envelope was reached.
Unharmed(p) ==
    \A i \in DOMAIN sent[p] :
        sent[p][i].at < start[p] => sent[p][i].len <= MAX_CIPHERTEXT_SIZE

AtNextMessage(p) ==
    \/ displayed[p] + 1 \in StartingAt(p, start[p])
    \/ displayed[p] = Len(sent[p]) /\ start[p] = EndOf(p)

Stream(p) ==
    /\ Laid(p) /\ Reading(p) /\ Counted(p)
    /\ Unharmed(p) => AtNextMessage(p)

\* The bytes of a stream on their way.
BytesInOrder ==
    \A p \in Party :
          /\ start[p] <= taken[p] /\ taken[p] <= written[p] /\ written[p] <= EndOf(p)
          /\ written[p] - taken[p] <= Capacity

Typed == TypeOK /\ BytesInOrder

WireInv == Typed /\ \A p \in Party : Stream(p)

\* An envelope is never shorter than its header, and never empty.
LEMMA SizeFacts ==
    \A len \in Nat : /\ EnvelopeSize(len) \in Nat
                     /\ EnvelopeSize(len) >= HEADER_SIZE
                     /\ HEADER_SIZE \in Nat /\ HEADER_SIZE > 0
BY WireAssumption DEF EnvelopeSize

\* What the types say of one stream.
LEMMA TypeFacts ==
    ASSUME Typed, NEW p \in Party
    PROVE  /\ sent[p] \in Seq(Envelope)
           /\ \A i \in DOMAIN sent[p] : /\ i \in Nat /\ sent[p][i].at \in Nat
                                        /\ sent[p][i].len \in Lengths
                                        /\ sent[p][i].len \in Nat
                                        /\ After(p, i) \in Nat
                                        /\ sent[p][i].at < After(p, i)
           /\ Len(sent[p]) \in Nat /\ DOMAIN sent[p] = 1 .. Len(sent[p])
           /\ written[p] \in Nat /\ taken[p] \in Nat /\ start[p] \in Nat
           /\ ct_len[p] \in Nat /\ displayed[p] \in Nat
           /\ recv[p] \in {"header", "rest", "lock"}
           /\ start[p] <= taken[p] /\ taken[p] <= written[p] /\ written[p] <= EndOf(p)
<1>1. sent[p] \in Seq(Envelope)
  BY DEF Typed, TypeOK, Envelope
<1>2. Len(sent[p]) \in Nat /\ DOMAIN sent[p] = 1 .. Len(sent[p])
  BY <1>1, LenProperties
<1>3. ASSUME NEW i \in DOMAIN sent[p]
      PROVE  /\ i \in Nat /\ sent[p][i].at \in Nat /\ sent[p][i].len \in Lengths
             /\ sent[p][i].len \in Nat /\ After(p, i) \in Nat /\ sent[p][i].at < After(p, i)
  <2>1. i \in Nat /\ sent[p][i] \in Envelope
    BY <1>1, <1>2, ElementOfSeq
  <2>2. sent[p][i].at \in Nat /\ sent[p][i].len \in Lengths /\ sent[p][i].len \in Nat
    BY <2>1, WireAssumption DEF Envelope
  <2> QED  BY <2>1, <2>2, SizeFacts DEF After
<1> QED  BY <1>1, <1>2, <1>3 DEF Typed, TypeOK, BytesInOrder

\* The end of a stream is a place in it.
LEMMA EndIsNat == ASSUME Typed, NEW p \in Party PROVE EndOf(p) \in Nat
<1>1. CASE sent[p] = << >>
  BY <1>1 DEF EndOf
<1>2. CASE sent[p] # << >>
  <2>1. Len(sent[p]) \in DOMAIN sent[p]
    BY <1>2, TypeFacts, EmptySeq
  <2>2. After(p, Len(sent[p])) \in Nat
    BY <2>1, TypeFacts
  <2> QED  BY <1>2, <2>2 DEF EndOf, After
<1> QED  BY <1>1, <1>2

\* The stream ends where its last envelope does.
LEMMA EndFacts ==
    ASSUME Typed, NEW p \in Party, Laid(p)
    PROVE  /\ EndOf(p) \in Nat
           /\ \A i \in DOMAIN sent[p] : /\ After(p, i) <= EndOf(p)
                                        /\ sent[p][i].at < EndOf(p)
                                        /\ i = Len(sent[p]) => EndOf(p) = After(p, i)
<1>1. CASE sent[p] = << >>
  BY <1>1, TypeFacts DEF EndOf
<1>2. CASE sent[p] # << >>
  <2>1. Len(sent[p]) \in DOMAIN sent[p]
    BY <1>2, TypeFacts, EmptySeq
  <2>2. EndOf(p) = After(p, Len(sent[p]))
    BY <1>2 DEF EndOf, After
  <2>3. \A i \in DOMAIN sent[p] : i # Len(sent[p]) => After(p, i) <= sent[p][Len(sent[p])].at
    <3> SUFFICES ASSUME NEW i \in DOMAIN sent[p], i # Len(sent[p])
                 PROVE  After(p, i) <= sent[p][Len(sent[p])].at
      OBVIOUS
    <3>1. i < Len(sent[p])
      BY TypeFacts
    <3> QED  BY <2>1, <3>1 DEF Laid
  <2> QED  BY <2>1, <2>2, <2>3, TypeFacts
<1> QED  BY <1>1, <1>2

\* At most one envelope begins at a place.
LEMMA OneStarts ==
    ASSUME Typed, NEW p \in Party, Laid(p), NEW n,
           NEW i \in StartingAt(p, n), NEW j \in StartingAt(p, n)
    PROVE  i = j
<1>1. /\ i \in DOMAIN sent[p] /\ j \in DOMAIN sent[p]
      /\ sent[p][i].at = n /\ sent[p][j].at = n
  BY DEF StartingAt
<1>2. i \in Nat /\ j \in Nat /\ n \in Nat /\ n < After(p, i) /\ n < After(p, j)
      /\ After(p, i) \in Nat /\ After(p, j) \in Nat
  BY <1>1, TypeFacts
<1>3. ~(i < j) /\ ~(j < i)
  <2>1. CASE i < j
    <3>1. After(p, i) <= n
      BY <1>1, <2>1 DEF Laid
    <3> QED  BY <1>2, <3>1
  <2>2. CASE j < i
    <3>1. After(p, j) <= n
      BY <1>1, <2>2 DEF Laid
    <3> QED  BY <1>2, <3>1
  <2> QED  BY <2>1, <2>2
<1> QED  BY <1>2, <1>3

\* Every step belongs to one stream.
OnlyStream(p) ==
    \A q \in Party \ {p} :
        /\ sent'[q] = sent[q] /\ written'[q] = written[q] /\ taken'[q] = taken[q]
        /\ start'[q] = start[q] /\ ct_len'[q] = ct_len[q] /\ recv'[q] = recv[q]
        /\ displayed'[q] = displayed[q]

LEMMA OtherStreams ==
    ASSUME WireInv, NEW p \in Party, OnlyStream(p), Typed', Stream(p)'
    PROVE  WireInv'
<1>1. ASSUME NEW q \in Party, q # p PROVE Stream(q)'
  <2>1. Stream(q)
    BY DEF WireInv
  <2>2. /\ sent'[q] = sent[q] /\ written'[q] = written[q] /\ taken'[q] = taken[q]
        /\ start'[q] = start[q] /\ ct_len'[q] = ct_len[q] /\ recv'[q] = recv[q]
        /\ displayed'[q] = displayed[q]
    BY <1>1 DEF OnlyStream
  <2> QED  BY <2>1, <2>2 DEF Stream, Laid, After, Reading, Counted, Unharmed,
              AtNextMessage, StartingAt, EndOf
<1> QED  BY <1>1 DEF WireInv

\* A new envelope is laid after the last; a receiver at the end of the stream is
\* at its beginning.
LEMMA SendInv ==
    ASSUME WireInv, NEW p \in Party, TakeLockAndSend(p)
    PROVE  WireInv'
<1>0. PICK n \in Nat : n = Len(sent[p])
  BY TypeFacts DEF WireInv
<1>1. PICK len \in Lengths :
         sent' = [sent EXCEPT ![p] = Append(sent[p], [at |-> EndOf(p), len |-> len])]
  BY DEF TakeLockAndSend
<1> DEFINE e == [at |-> EndOf(p), len |-> len]
           t == Append(sent[p], e)
<1>2. /\ Typed /\ Laid(p) /\ Reading(p) /\ Counted(p)
      /\ Unharmed(p) => AtNextMessage(p)
  BY DEF WireInv, Stream
<1>3. /\ n < MaxSent /\ main' = [main EXCEPT ![p] = "sending"]
      /\ UNCHANGED <<written, taken, start, ct_len, recv, displayed>>
      /\ sent' = [sent EXCEPT ![p] = t]
  BY <1>0, <1>1 DEF TakeLockAndSend, receiving
<1>4. len \in Nat /\ EndOf(p) \in Nat /\ EnvelopeSize(len) \in Nat
  BY <1>2, WireAssumption, SizeFacts, EndFacts
<1>5. /\ t \in Seq(Envelope) /\ Len(t) = n + 1 /\ DOMAIN t = 1 .. n + 1 /\ n \in Nat
      /\ \A i \in 1 .. n : t[i] = sent[p][i]
      /\ t[n + 1].at = EndOf(p) /\ t[n + 1].len = len
  <2>1. e \in Envelope /\ e.at = EndOf(p) /\ e.len = len
    BY <1>4 DEF Envelope
  <2> HIDE DEF e
  <2>2. sent[p] \in Seq(Envelope) /\ n = Len(sent[p])
    BY <1>0, <1>2, TypeFacts
  <2>3. t \in Seq(Envelope) /\ Len(t) = n + 1 /\ t[n + 1] = e
        /\ \A i \in 1 .. n : t[i] = sent[p][i]
    BY <2>1, <2>2, AppendProperties
  <2>4. DOMAIN t = 1 .. n + 1
    BY <2>2, <2>3, LenProperties
  <2> QED  BY <2>1, <2>2, <2>3, <2>4
<1> HIDE DEF e, t
<1>6. sent'[p] = t /\ sent' \in [Party -> Seq(Envelope)]
  BY <1>2, <1>3, <1>5 DEF Typed, TypeOK, Envelope
<1>7. DOMAIN sent[p] = 1 .. n /\ DOMAIN sent[p]' = 1 .. n + 1
  BY <1>0, <1>2, <1>5, <1>6, TypeFacts
<1>8. \A i \in 1 .. n : sent'[p][i] = sent[p][i] /\ After(p, i)' = After(p, i)
  BY <1>5, <1>6 DEF After
<1>9. /\ sent'[p][n + 1].at = EndOf(p) /\ sent'[p][n + 1].len = len
      /\ After(p, n + 1)' = EndOf(p) + EnvelopeSize(len)
  <2>1. After(p, n + 1)' = sent'[p][n + 1].at + EnvelopeSize(sent'[p][n + 1].len)
    BY DEF After
  <2> QED  BY <1>5, <1>6, <2>1
<1>10. EndOf(p)' = EndOf(p) + EnvelopeSize(len)
  <2>1. sent'[p] # << >> /\ Len(sent'[p]) = n + 1
    BY <1>5, <1>6
  <2> QED  BY <1>9, <2>1 DEF EndOf
<1>11. \A q \in Party \ {p} : sent'[q] = sent[q] /\ EndOf(q)' = EndOf(q)
  <2>1. \A q \in Party \ {p} : sent'[q] = sent[q]
    BY <1>2, <1>3 DEF Typed
  <2> QED  BY <2>1 DEF EndOf
<1>12. Typed'
  <2>1. \A q \in Party : /\ start[q] <= taken[q] /\ taken[q] <= written[q]
                          /\ written[q] <= EndOf(q)' /\ written[q] - taken[q] <= Capacity
    <3>1. \A q \in Party : /\ start[q] <= taken[q] /\ taken[q] <= written[q]
                            /\ written[q] <= EndOf(q) /\ written[q] - taken[q] <= Capacity
      BY <1>2 DEF Typed, BytesInOrder
    <3>2. written[p] \in Nat
      BY <1>2, TypeFacts
    <3>3. written[p] <= EndOf(p)'
      BY <1>4, <1>10, <3>1, <3>2
    <3> QED  BY <1>11, <3>1, <3>3
  <2> QED  BY <1>2, <1>3, <1>6, <2>1 DEF Typed, TypeOK, BytesInOrder, Envelope
<1>13. Laid(p)'
  <2>1. \A i \in 1 .. n + 1 : i \in 1 .. n \/ i = n + 1
    BY <1>5
  <2>2. \A i, j \in 1 .. n + 1 : i < j => After(p, i)' <= sent'[p][j].at
    <3> SUFFICES ASSUME NEW i \in 1 .. n + 1, NEW j \in 1 .. n + 1, i < j
                 PROVE  After(p, i)' <= sent'[p][j].at
      OBVIOUS
    <3>1. i \in 1 .. n
      BY <1>5
    <3>2. CASE j \in 1 .. n
      BY <1>2, <1>7, <1>8, <3>1, <3>2 DEF Laid
    <3>3. CASE j = n + 1
      BY <1>0, <1>2, <1>7, <1>8, <1>9, <3>1, <3>3, EndFacts
    <3> QED  BY <2>1, <3>2, <3>3
  <2>3. \A i \in 1 .. n + 1 : i + 1 \in 1 .. n + 1 => sent'[p][i + 1].at = After(p, i)'
    <3> SUFFICES ASSUME NEW i \in 1 .. n + 1, i + 1 \in 1 .. n + 1
                 PROVE  sent'[p][i + 1].at = After(p, i)'
      OBVIOUS
    <3>1. i \in 1 .. n
      BY <1>5
    <3>2. CASE i + 1 \in 1 .. n
      BY <1>2, <1>7, <1>8, <3>1, <3>2 DEF Laid
    <3>3. CASE i = n
      BY <1>0, <1>2, <1>7, <1>8, <1>9, <3>1, <3>3, EndFacts
    <3> QED  BY <1>5, <3>1, <3>2, <3>3
  <2> QED  BY <1>7, <2>2, <2>3 DEF Laid
<1>14. \A k : StartingAt(p, k)' = {i \in 1 .. n + 1 : sent'[p][i].at = k}
  BY <1>7 DEF StartingAt
<1>15. Reading(p)'
  <2>1. ASSUME recv[p] # "header" PROVE start[p] # EndOf(p)
    <3>1. start[p] + HEADER_SIZE <= taken[p] /\ taken[p] <= written[p] /\ written[p] <= EndOf(p)
      BY <1>2, <2>1, TypeFacts DEF Reading
    <3>2. start[p] \in Nat /\ taken[p] \in Nat /\ written[p] \in Nat
      BY <1>2, TypeFacts
    <3> QED  BY <1>4, <3>1, <3>2, WireAssumption
  <2>2. ASSUME recv[p] # "header"
        PROVE  StartingAt(p, start[p])' = StartingAt(p, start[p])
    <3>1. StartingAt(p, start[p])' = {i \in 1 .. n + 1 : sent'[p][i].at = start[p]}
      BY <1>3, <1>7 DEF StartingAt
    <3>2. StartingAt(p, start[p]) = {i \in 1 .. n : sent[p][i].at = start[p]}
      BY <1>7 DEF StartingAt
    <3> QED  BY <1>5, <1>8, <1>9, <2>1, <2>2, <3>1, <3>2
  <2>3. \A i \in StartingAt(p, start[p]) : sent'[p][i].len = sent[p][i].len
    BY <1>7, <1>8 DEF StartingAt
  <2> QED  BY <1>2, <1>3, <2>2, <2>3 DEF Reading
<1>16. Counted(p)'
  <2>1. Len(sent'[p]) = n + 1 /\ n + 1 <= MaxSent
    BY <1>3, <1>5, <1>6, WireAssumption
  <2>2. displayed[p] # 0 => displayed[p] \in 1 .. n
    BY <1>0, <1>2, TypeFacts DEF Counted
  <2> QED  BY <1>0, <1>2, <1>3, <1>5, <1>8, <2>1, <2>2, TypeFacts DEF Counted
<1>17. Unharmed(p)' => AtNextMessage(p)'
  <2> SUFFICES ASSUME Unharmed(p)' PROVE AtNextMessage(p)'
    OBVIOUS
  <2>1. Unharmed(p)
    <3>1. \A i \in 1 .. n : i \in 1 .. n + 1
      BY <1>5
    <3> QED  BY <1>3, <1>7, <1>8, <3>1 DEF Unharmed
  <2>2. CASE displayed[p] + 1 \in StartingAt(p, start[p])
    <3>1. displayed[p] + 1 \in 1 .. n /\ sent[p][displayed[p] + 1].at = start[p]
      BY <1>7, <2>2 DEF StartingAt
    <3>2. displayed[p] + 1 \in 1 .. n + 1 /\ sent'[p][displayed[p] + 1].at = start[p]
      BY <1>5, <1>8, <3>1
    <3> QED  BY <1>3, <1>7, <3>2 DEF StartingAt, AtNextMessage
  <2>3. CASE displayed[p] = n /\ start[p] = EndOf(p)
    <3>1. n + 1 \in 1 .. n + 1 /\ sent'[p][n + 1].at = start[p]
      BY <1>5, <1>9, <2>3
    <3>2. displayed'[p] + 1 = n + 1 /\ start'[p] = start[p]
      BY <1>3, <2>3
    <3>3. displayed'[p] + 1 \in {i \in 1 .. n + 1 : sent'[p][i].at = start'[p]}
      BY <3>1, <3>2
    <3> QED  BY <1>7, <3>3 DEF StartingAt, AtNextMessage
  <2> QED  BY <1>0, <1>2, <2>1, <2>2, <2>3 DEF AtNextMessage
<1>18. OnlyStream(p)
  BY <1>3, <1>11 DEF OnlyStream
<1> QED  BY <1>12, <1>13, <1>15, <1>16, <1>17, <1>18, OtherStreams DEF Stream

\* When the envelopes stay as they are.
LEMMA SameEnvelopes ==
    ASSUME WireInv, NEW p \in Party, sent' = sent
    PROVE  /\ Laid(p)' /\ \A q \in Party : EndOf(q)' = EndOf(q)
           /\ start' = start => StartingAt(p, start[p])' = StartingAt(p, start[p])
BY DEF WireInv, Stream, Laid, After, EndOf, StartingAt

LEMMA SendAllInv ==
    ASSUME WireInv, NEW p \in Party, SendAll(p)
    PROVE  WireInv'
<1>1. PICK k \in 1 .. (EndOf(p) - written[p]) :
         /\ written[p] + k <= taken[p] + Capacity
         /\ written' = [written EXCEPT ![p] = written[p] + k]
  BY DEF SendAll
<1>2. UNCHANGED <<sent, main, taken, start, ct_len, recv, displayed>>
  BY DEF SendAll, receiving
<1>3. Typed /\ Laid(p) /\ EndOf(p) \in Nat /\ written[p] \in Nat /\ taken[p] \in Nat
  BY EndFacts, TypeFacts DEF WireInv, Stream
<1>4. /\ written[p] + k \in Nat /\ written[p] <= written[p] + k
      /\ written[p] + k <= EndOf(p) /\ (written[p] + k) - taken[p] <= Capacity
  BY <1>1, <1>3, WireAssumption
<1>5. written' \in [Party -> Nat] /\ written'[p] = written[p] + k
      /\ \A q \in Party \ {p} : written'[q] = written[q]
  BY <1>1, <1>3, <1>4 DEF Typed, TypeOK
<1>6. Typed'
  <2>1. \A q \in Party : /\ start[q] <= taken[q] /\ taken[q] <= written'[q]
                          /\ written'[q] <= EndOf(q) /\ written'[q] - taken[q] <= Capacity
    <3>1. \A q \in Party : /\ start[q] <= taken[q] /\ taken[q] <= written[q]
                            /\ written[q] <= EndOf(q) /\ written[q] - taken[q] <= Capacity
      BY <1>3 DEF Typed, BytesInOrder
    <3>2. taken[p] <= written'[p]
      BY <1>3, <1>4, <1>5, <3>1
    <3> QED  BY <1>4, <1>5, <3>1, <3>2
  <2> QED  BY <1>2, <1>3, <1>5, <2>1, SameEnvelopes DEF Typed, TypeOK, BytesInOrder
<1>7. Stream(p)'
  BY <1>2 DEF WireInv, Stream, Laid, After, Reading, Counted, Unharmed, AtNextMessage,
     StartingAt, EndOf
<1>8. OnlyStream(p)
  BY <1>2, <1>5 DEF OnlyStream
<1> QED  BY <1>6, <1>7, <1>8, OtherStreams

LEMMA SendReturnsInv ==
    ASSUME WireInv, NEW p \in Party, SendReturns(p)
    PROVE  WireInv'
<1>1. /\ main' = [main EXCEPT ![p] = "prompt"]
      /\ UNCHANGED <<sent, written, taken, start, ct_len, recv, displayed>>
  BY DEF SendReturns, receiving
<1>2. Typed'
  BY <1>1, SameEnvelopes DEF WireInv, Typed, TypeOK, BytesInOrder
<1> QED  BY <1>1, <1>2 DEF WireInv, Stream, Laid, After, Reading, Counted, Unharmed,
            AtNextMessage, StartingAt, EndOf

\* recv never takes more than the envelope lacks, by what is known of it.
LEMMA RecvExactlyInv ==
    ASSUME WireInv, NEW p \in Party, RecvExactly(p)
    PROVE  WireInv'
<1>1. PICK k \in 1 .. (written[p] - taken[p]) :
         /\ taken[p] + k <= Wanted(p)
         /\ taken' = [taken EXCEPT ![p] = taken[p] + k]
  BY DEF RecvExactly, AtRecv
<1>2. recv[p] # "lock" /\ UNCHANGED <<sent, main, written, start, ct_len, recv, displayed>>
  BY DEF RecvExactly, AtRecv, sending
<1>3. /\ Typed /\ Reading(p) /\ written[p] \in Nat /\ taken[p] \in Nat
      /\ start[p] \in Nat /\ start[p] <= taken[p]
      /\ recv[p] \in {"header", "rest", "lock"}
  BY TypeFacts DEF WireInv, Stream
<1>4. /\ taken[p] + k \in Nat /\ taken[p] + k <= written[p] /\ taken[p] <= taken[p] + k
      /\ start[p] <= taken[p] + k
  BY <1>1, <1>3
<1>5. taken' \in [Party -> Nat] /\ taken'[p] = taken[p] + k
      /\ \A q \in Party \ {p} : taken'[q] = taken[q]
  BY <1>1, <1>3, <1>4 DEF Typed, TypeOK
<1>6. Typed'
  <2>1. \A q \in Party : /\ start[q] <= taken'[q] /\ taken'[q] <= written[q]
                          /\ written[q] <= EndOf(q) /\ written[q] - taken'[q] <= Capacity
    <3>1. \A q \in Party : /\ start[q] <= taken[q] /\ taken[q] <= written[q]
                            /\ written[q] <= EndOf(q) /\ written[q] - taken[q] <= Capacity
      BY <1>3 DEF Typed, BytesInOrder
    <3>2. written[p] - (taken[p] + k) <= Capacity
      BY <1>3, <1>4, <3>1, WireAssumption
    <3> QED  BY <1>4, <1>5, <3>1, <3>2
  <2> QED  BY <1>2, <1>3, <1>5, <2>1, SameEnvelopes DEF Typed, TypeOK, BytesInOrder
<1>7. Reading(p)'
  <2>1. StartingAt(p, start[p])' = StartingAt(p, start[p])
    BY <1>2 DEF StartingAt
  <2>2. CASE recv[p] = "header"
    BY <1>1, <1>2, <1>5, <2>2 DEF Reading, Wanted
  <2>3. CASE recv[p] = "rest"
    <3>1. /\ start[p] + HEADER_SIZE <= taken'[p]
          /\ taken'[p] <= start[p] + EnvelopeSize(ct_len[p])
      BY <1>1, <1>3, <1>4, <1>5, <2>3, WireAssumption DEF Reading, Wanted
    <3> QED  BY <1>2, <1>3, <2>1, <2>3, <3>1 DEF Reading
  <2> QED  BY <1>2, <1>3, <2>2, <2>3
<1>8. Stream(p)'
  BY <1>2, <1>7 DEF WireInv, Stream, Laid, After, Counted, Unharmed, AtNextMessage,
     StartingAt, EndOf
<1>9. OnlyStream(p)
  BY <1>2, <1>5 DEF OnlyStream
<1> QED  BY <1>6, <1>8, <1>9, OtherStreams

\* The header of an envelope that begins here tells its length.
LEMMA HeaderAcceptedInv ==
    ASSUME WireInv, NEW p \in Party, HeaderAccepted(p)
    PROVE  WireInv'
<1>1. PICK len \in Declared(p) : /\ len <= MAX_CIPHERTEXT_SIZE
                                   /\ ct_len' = [ct_len EXCEPT ![p] = len]
  BY DEF HeaderAccepted
<1>2. /\ recv[p] = "header" /\ start[p] + HEADER_SIZE <= taken[p]
      /\ recv' = [recv EXCEPT ![p] = "rest"]
      /\ UNCHANGED <<sent, main, written, taken, start, displayed>>
  <2>1. start[p] \in Nat /\ taken[p] \in Nat
    BY TypeFacts DEF WireInv
  <2> QED  BY <2>1, WireAssumption DEF HeaderAccepted, HeaderHere, Wanted, sending
<1>3. /\ Typed /\ Reading(p) /\ Laid(p) /\ start[p] \in Nat /\ taken[p] \in Nat
  BY TypeFacts DEF WireInv, Stream
<1>4. len \in Nat /\ \A i \in StartingAt(p, start[p]) : len = sent[p][i].len
  <2>1. CASE StartingAt(p, start[p]) = {}
    BY <2>1, WireAssumption DEF Declared
  <2>2. CASE StartingAt(p, start[p]) # {}
    <3>1. PICK j \in StartingAt(p, start[p]) : len = sent[p][j].len
      BY <2>2 DEF Declared
    <3>2. len \in Nat
      BY <1>3, <3>1, TypeFacts DEF StartingAt
    <3> QED  BY <1>3, <3>1, <3>2, OneStarts
  <2> QED  BY <2>1, <2>2
<1>5. /\ ct_len' \in [Party -> 0 .. MAX_CIPHERTEXT_SIZE] /\ ct_len'[p] = len /\ recv'[p] = "rest"
      /\ recv' \in [Party -> {"header", "rest", "lock"}]
      /\ \A q \in Party \ {p} : ct_len'[q] = ct_len[q] /\ recv'[q] = recv[q]
  BY <1>1, <1>2, <1>3, <1>4, WireAssumption DEF Typed, TypeOK
<1>6. Typed'
  <2>1. \A q \in Party : EndOf(q)' = EndOf(q)
    BY <1>2, SameEnvelopes
  <2>2. \A q \in Party : /\ start[q] <= taken[q] /\ taken[q] <= written[q]
                          /\ written[q] <= EndOf(q) /\ written[q] - taken[q] <= Capacity
    BY <1>3 DEF Typed, BytesInOrder
  <2>3. \A q \in Party : /\ start'[q] <= taken'[q] /\ taken'[q] <= written'[q]
                          /\ written'[q] <= EndOf(q)' /\ written'[q] - taken'[q] <= Capacity
    BY <1>2, <2>1, <2>2
  <2> QED  BY <1>2, <1>3, <1>5, <2>3 DEF Typed, TypeOK, BytesInOrder
<1>7. Reading(p)'
  <2>1. StartingAt(p, start[p])' = StartingAt(p, start[p])
    BY <1>2 DEF StartingAt
  <2>2. taken[p] <= start[p] + EnvelopeSize(len)
    <3>1. EnvelopeSize(len) \in Nat /\ EnvelopeSize(len) >= HEADER_SIZE
      BY <1>4, SizeFacts
    <3> QED  BY <1>2, <1>3, <3>1, WireAssumption DEF Reading
  <2> QED  BY <1>2, <1>4, <1>5, <2>1, <2>2 DEF Reading
<1>8. Stream(p)'
  BY <1>2, <1>7 DEF WireInv, Stream, Laid, After, Counted, Unharmed, AtNextMessage,
     StartingAt, EndOf
<1>9. OnlyStream(p)
  BY <1>2, <1>5 DEF OnlyStream
<1> QED  BY <1>6, <1>8, <1>9, OtherStreams

\* An envelope that decodes is all there, and no more is taken.
LEMMA DecodedInv ==
    ASSUME WireInv, NEW p \in Party, Decoded(p)
    PROVE  WireInv'
<1>1. /\ recv[p] = "rest" /\ taken[p] >= start[p] + EnvelopeSize(ct_len[p])
      /\ StartingAt(p, start[p]) # {}
      /\ recv' = [recv EXCEPT ![p] = "lock"]
      /\ UNCHANGED <<sent, main, written, taken, start, ct_len, displayed>>
  BY DEF Decoded, RestHere, Wanted, sending
<1>2. /\ Typed /\ Reading(p) /\ start[p] \in Nat /\ taken[p] \in Nat
      /\ EnvelopeSize(ct_len[p]) \in Nat
  BY TypeFacts, SizeFacts DEF WireInv, Stream
<1>3. /\ recv'[p] = "lock" /\ recv' \in [Party -> {"header", "rest", "lock"}]
      /\ \A q \in Party \ {p} : recv'[q] = recv[q]
  BY <1>1, <1>2 DEF Typed, TypeOK
<1>4. Typed'
  BY <1>1, <1>2, <1>3, SameEnvelopes DEF Typed, TypeOK, BytesInOrder
<1>5. Reading(p)'
  <2>1. StartingAt(p, start[p])' = StartingAt(p, start[p])
    BY <1>1 DEF StartingAt
  <2>2. taken[p] = start[p] + EnvelopeSize(ct_len[p])
    BY <1>1, <1>2 DEF Reading
  <2> QED  BY <1>1, <1>2, <1>3, <2>1, <2>2 DEF Reading
<1>6. Stream(p)'
  BY <1>1, <1>5 DEF WireInv, Stream, Laid, After, Counted, Unharmed, AtNextMessage,
     StartingAt, EndOf
<1>7. OnlyStream(p)
  BY <1>1, <1>3 DEF OnlyStream
<1> QED  BY <1>4, <1>6, <1>7, OtherStreams

\* The thread goes on to the next envelope: what is left to show.
LEMMA NextEnvelopeInv ==
    ASSUME WireInv, NEW p \in Party, NextEnvelope(p),
           UNCHANGED <<sent, main, written, taken>>, start[p] < taken[p],
           NEW d \in Nat, displayed' = [displayed EXCEPT ![p] = d],
           d <= Len(sent[p]), d # 0 => sent[p][d].at < taken[p],
           Unharmed(p)' => AtNextMessage(p)'
    PROVE  WireInv'
<1>1. /\ Typed /\ Len(sent[p]) <= MaxSent /\ Len(sent[p]) \in Nat /\ taken[p] \in Nat
  BY TypeFacts DEF WireInv, Stream, Counted
<1>2. /\ start'[p] = taken[p] /\ recv'[p] = "header" /\ displayed'[p] = d
      /\ d \in 0 .. MaxSent
      /\ start' \in [Party -> Nat] /\ ct_len' \in [Party -> 0 .. MAX_CIPHERTEXT_SIZE]
      /\ recv' \in [Party -> {"header", "rest", "lock"}]
      /\ displayed' \in [Party -> 0 .. MaxSent]
      /\ \A q \in Party \ {p} : /\ start'[q] = start[q] /\ recv'[q] = recv[q]
                                /\ ct_len'[q] = ct_len[q] /\ displayed'[q] = displayed[q]
  <2>1. d \in 0 .. MaxSent
    BY <1>1, WireAssumption
  <2>2. 0 \in 0 .. MAX_CIPHERTEXT_SIZE
    BY WireAssumption
  <2> QED  BY <1>1, <2>1, <2>2 DEF Typed, TypeOK, NextEnvelope
<1>3. Typed'
  <2>1. \A q \in Party : EndOf(q)' = EndOf(q)
    BY SameEnvelopes
  <2>2. \A q \in Party : /\ start[q] <= taken[q] /\ taken[q] <= written[q]
                          /\ written[q] <= EndOf(q) /\ written[q] - taken[q] <= Capacity
    BY <1>1 DEF Typed, BytesInOrder
  <2>3. taken[p] <= taken[p]
    BY <1>1
  <2>4. \A q \in Party : /\ start'[q] <= taken'[q] /\ taken'[q] <= written'[q]
                          /\ written'[q] <= EndOf(q)' /\ written'[q] - taken'[q] <= Capacity
    BY <1>2, <2>1, <2>2, <2>3
  <2> QED  BY <1>1, <1>2, <2>4 DEF Typed, TypeOK, BytesInOrder
<1>4. Laid(p)'
  BY SameEnvelopes
<1>5. Reading(p)'
  BY <1>1, <1>2, WireAssumption DEF Reading
<1>6. Counted(p)'
  BY <1>1, <1>2 DEF Counted
<1>7. OnlyStream(p)
  BY <1>2 DEF OnlyStream
<1> QED  BY <1>3, <1>4, <1>5, <1>6, <1>7, OtherStreams DEF Stream

\* What was unharmed after a step was so before.
LEMMA UnharmedBefore ==
    ASSUME WireInv, NEW p \in Party, NextEnvelope(p), UNCHANGED <<sent, taken>>,
           Unharmed(p)'
    PROVE  Unharmed(p) /\ AtNextMessage(p)
<1>1. /\ start'[p] = taken[p] /\ start[p] <= taken[p]
      /\ start[p] \in Nat /\ taken[p] \in Nat
      /\ \A i \in DOMAIN sent[p] : sent[p][i].at \in Nat
  BY TypeFacts DEF WireInv, Typed, TypeOK, NextEnvelope
<1>2. Unharmed(p)
  BY <1>1 DEF Unharmed
<1> QED  BY <1>2 DEF WireInv, Stream

\* While more than the header was taken, the end of the stream was not reached.
LEMMA NotAtTheEnd ==
    ASSUME WireInv, NEW p \in Party, AtNextMessage(p), start[p] < taken[p]
    PROVE  displayed[p] + 1 \in StartingAt(p, start[p])
<1>1. /\ start[p] \in Nat /\ taken[p] \in Nat /\ written[p] \in Nat /\ EndOf(p) \in Nat
      /\ taken[p] <= written[p] /\ written[p] <= EndOf(p)
  BY TypeFacts, EndFacts DEF WireInv, Stream
<1> QED  BY <1>1 DEF AtNextMessage

\* The count of displayed messages as it is, seen from further on.
LEMMA CountedFurther ==
    ASSUME WireInv, NEW p \in Party, start[p] < taken[p]
    PROVE  /\ displayed[p] \in Nat /\ displayed = [displayed EXCEPT ![p] = displayed[p]]
           /\ displayed[p] <= Len(sent[p])
           /\ displayed[p] # 0 => sent[p][displayed[p]].at < taken[p]
<1>1. /\ displayed[p] \in Nat /\ start[p] \in Nat /\ taken[p] \in Nat
      /\ Len(sent[p]) \in Nat /\ DOMAIN sent[p] = 1 .. Len(sent[p])
      /\ \A i \in DOMAIN sent[p] : sent[p][i].at \in Nat
  BY TypeFacts DEF WireInv
<1>2. displayed = [displayed EXCEPT ![p] = displayed[p]]
  BY DEF WireInv, Typed, TypeOK
<1>3. /\ displayed[p] <= Len(sent[p])
      /\ displayed[p] # 0 => sent[p][displayed[p]].at < start[p]
  BY DEF WireInv, Stream, Counted
<1> QED  BY <1>1, <1>2, <1>3

\* A refused header is that of an oversized envelope, or of none.
LEMMA HeaderRefusedInv ==
    ASSUME WireInv, NEW p \in Party, HeaderRefused(p)
    PROVE  WireInv'
<1>1. /\ NextEnvelope(p) /\ UNCHANGED <<sent, main, written, taken, displayed>>
      /\ \E len \in Declared(p) : len > MAX_CIPHERTEXT_SIZE
      /\ taken[p] >= start[p] + HEADER_SIZE
  BY DEF HeaderRefused, HeaderHere, Wanted, sending
<1>2. start[p] < taken[p] /\ start[p] \in Nat /\ taken[p] \in Nat
  BY <1>1, TypeFacts, WireAssumption DEF WireInv
<1>3. ASSUME Unharmed(p)' PROVE FALSE
  <2>1. displayed[p] + 1 \in StartingAt(p, start[p])
    BY <1>1, <1>2, <1>3, UnharmedBefore, NotAtTheEnd
  <2>2. PICK i \in StartingAt(p, start[p]) : sent[p][i].len > MAX_CIPHERTEXT_SIZE
    BY <1>1, <2>1 DEF Declared
  <2>3. /\ i \in DOMAIN sent[p] /\ sent[p][i].at = start[p] /\ sent[p][i].len \in Nat
    BY <2>2, TypeFacts DEF StartingAt, WireInv
  <2>4. sent[p][i].len <= MAX_CIPHERTEXT_SIZE
    BY <1>1, <1>2, <1>3, <2>3 DEF Unharmed, NextEnvelope, WireInv, Typed, TypeOK
  <2> QED  BY <2>2, <2>3, <2>4, WireAssumption
<1> QED  BY <1>1, <1>2, <1>3, CountedFurther, NextEnvelopeInv

LEMMA NotDecodedInv ==
    ASSUME WireInv, NEW p \in Party, NotDecoded(p)
    PROVE  WireInv'
<1>1. /\ NextEnvelope(p) /\ UNCHANGED <<sent, main, written, taken, displayed>>
      /\ StartingAt(p, start[p]) = {} /\ recv[p] = "rest"
  BY DEF NotDecoded, RestHere, sending
<1>2. start[p] < taken[p]
  BY <1>1, TypeFacts, WireAssumption DEF WireInv, Stream, Reading
<1>3. ASSUME Unharmed(p)' PROVE FALSE
  BY <1>1, <1>2, <1>3, UnharmedBefore, NotAtTheEnd
<1> QED  BY <1>1, <1>2, <1>3, CountedFurther, NextEnvelopeInv

LEMMA OutOfOrderLockedInv ==
    ASSUME WireInv, NEW p \in Party, OutOfOrderLocked(p)
    PROVE  WireInv'
<1>1. /\ NextEnvelope(p) /\ UNCHANGED <<sent, main, written, taken, displayed>>
      /\ displayed[p] + 1 \notin StartingAt(p, start[p]) /\ recv[p] = "lock"
  BY DEF OutOfOrderLocked, sending
<1>2. start[p] < taken[p]
  BY <1>1, TypeFacts, WireAssumption DEF WireInv, Stream, Reading
<1>3. ASSUME Unharmed(p)' PROVE FALSE
  BY <1>1, <1>2, <1>3, UnharmedBefore, NotAtTheEnd
<1> QED  BY <1>1, <1>2, <1>3, CountedFurther, NextEnvelopeInv

\* After a displayed envelope the next one begins, or the stream ends.
LEMMA DisplayLockedInv ==
    ASSUME WireInv, NEW p \in Party, DisplayLocked(p)
    PROVE  WireInv'
<1>0. PICK d \in Nat : d = displayed[p] + 1
  BY TypeFacts DEF WireInv
<1>1. /\ NextEnvelope(p) /\ UNCHANGED <<sent, main, written, taken>>
      /\ d \in StartingAt(p, start[p]) /\ recv[p] = "lock"
      /\ displayed' = [displayed EXCEPT ![p] = d]
  BY <1>0 DEF DisplayLocked, sending
<1>2. /\ Typed /\ Laid(p) /\ start[p] < taken[p]
      /\ taken[p] = start[p] + EnvelopeSize(ct_len[p]) /\ ct_len[p] = sent[p][d].len
  BY <1>1, TypeFacts, WireAssumption DEF WireInv, Stream, Reading
<1>3. /\ d \in DOMAIN sent[p] /\ DOMAIN sent[p] = 1 .. Len(sent[p])
      /\ sent[p][d].at = start[p] /\ Len(sent[p]) \in Nat
  BY <1>1, <1>2, TypeFacts DEF StartingAt
<1>4. taken[p] = After(p, d)
  BY <1>2, <1>3 DEF After
<1>5. AtNextMessage(p)'
  <2>1. start'[p] = taken[p] /\ displayed'[p] = d /\ EndOf(p)' = EndOf(p)
    BY <1>1, <1>2, SameEnvelopes DEF NextEnvelope, Typed, TypeOK
  <2>2. CASE d = Len(sent[p])
    <3>1. EndOf(p) = After(p, d)
      BY <1>2, <1>3, <2>2, EndFacts
    <3> QED  BY <1>1, <1>4, <2>1, <2>2, <3>1 DEF AtNextMessage
  <2>3. CASE d # Len(sent[p])
    <3>1. d + 1 \in DOMAIN sent[p]
      BY <1>3, <2>3
    <3>2. sent[p][d + 1].at = After(p, d)
      BY <1>2, <1>3, <3>1 DEF Laid
    <3> QED  BY <1>1, <1>4, <2>1, <3>1, <3>2 DEF AtNextMessage, StartingAt
  <2> QED  BY <2>2, <2>3
<1>6. d <= Len(sent[p]) /\ sent[p][d].at < taken[p]
  BY <1>2, <1>3
<1> QED  BY <1>1, <1>2, <1>5, <1>6, NextEnvelopeInv

LEMMA WireInvInit == Init => WireInv
<1> SUFFICES ASSUME Init PROVE WireInv
  OBVIOUS
<1>1. \A p \in Party : /\ sent[p] = << >> /\ recv[p] = "header" /\ displayed[p] = 0
                        /\ taken[p] = 0 /\ start[p] = 0 /\ written[p] = 0
                        /\ EndOf(p) = 0
  BY DEF Init, EndOf
<1>2. Typed
  BY <1>1, WireAssumption DEF Init, Typed, TypeOK, BytesInOrder
<1>3. ASSUME NEW p \in Party PROVE Stream(p)
  <2>1. DOMAIN sent[p] = {} /\ Len(sent[p]) = 0
    BY <1>1
  <2>2. Laid(p)
    BY <2>1 DEF Laid
  <2>3. Reading(p)
    BY <1>1, WireAssumption DEF Reading
  <2>4. Counted(p)
    BY <1>1, <2>1, WireAssumption DEF Counted
  <2>5. AtNextMessage(p)
    BY <1>1, <2>1 DEF AtNextMessage
  <2> QED  BY <2>2, <2>3, <2>4, <2>5 DEF Stream
<1> QED  BY <1>2, <1>3 DEF WireInv

LEMMA WireInvNext == WireInv /\ [Next]_vars => WireInv'
<1> SUFFICES ASSUME WireInv, [Next]_vars PROVE WireInv'
  OBVIOUS
<1>1. ASSUME NEW p \in Party, TakeLockAndSend(p) PROVE WireInv'
  BY <1>1, SendInv
<1>2. ASSUME NEW p \in Party, Main(p) PROVE WireInv'
  BY <1>2, SendAllInv, SendReturnsInv DEF Main
<1>3. ASSUME NEW p \in Party, Receiver(p) PROVE WireInv'
  BY <1>3, RecvExactlyInv, HeaderAcceptedInv, HeaderRefusedInv, DecodedInv, NotDecodedInv,
     DisplayLockedInv, OutOfOrderLockedInv DEF Receiver
<1>4. CASE UNCHANGED vars
  <2>1. UNCHANGED <<sent, main, written, taken, start, ct_len, recv, displayed>>
    BY <1>4 DEF vars
  <2>2. Typed'
    BY <2>1, SameEnvelopes DEF WireInv, Typed, TypeOK, BytesInOrder
  <2> QED  BY <2>1, <2>2 DEF WireInv, Stream, Laid, After, Reading, Counted, Unharmed,
              AtNextMessage, StartingAt, EndOf
<1> QED  BY <1>1, <1>2, <1>3, <1>4 DEF Next

THEOREM WireInvariance == Spec => []WireInv
BY WireInvInit, WireInvNext, PTL DEF Spec

\* No thread takes more bytes than are there, or hands on more than there is room
\* for: _recv_exactly and sendall.
THEOREM WireTypes == Spec => []TypeOK
<1>1. WireInv => TypeOK
  BY DEF WireInv, Typed
<1> QED  BY <1>1, WireInvariance, PTL

\* The cap of _recv_envelope bounds what a receive thread holds, for every size, every
\* length that users cause, and wherever in a stream it takes a header to be.
THEOREM HeldIsBounded == Spec => []OneEnvelopeHeld
<1>1. WireInv => OneEnvelopeHeld
  <2> SUFFICES ASSUME WireInv, NEW p \in Party
               PROVE  taken[p] <= start[p] + EnvelopeSize(MAX_CIPHERTEXT_SIZE)
    BY DEF OneEnvelopeHeld
  <2>1. Reading(p) /\ ct_len[p] \in 0 .. MAX_CIPHERTEXT_SIZE
    BY DEF WireInv, Stream, Typed, TypeOK
  <2>2. taken[p] \in Nat /\ start[p] \in Nat
    BY TypeFacts DEF WireInv
  <2> QED  BY <2>1, <2>2, WireAssumption DEF Reading, EnvelopeSize
<1> QED  BY <1>1, WireInvariance, PTL

\* _recv_exactly and the length field cut a stream at the places where its
\* envelopes were joined, however the bytes arrive, until an oversized one comes.
THEOREM StreamIsCutRight == Spec => []NothingLost
<1>1. WireInv => NothingLost
  <2> SUFFICES ASSUME WireInv, NEW p \in Party, Unharmed(p) PROVE AtNextMessage(p)
    BY DEF NothingLost, Unharmed, AtNextMessage
  <2> QED  BY DEF WireInv, Stream
<1> QED  BY <1>1, WireInvariance, PTL

\* _cmd_send can deadlock with the receive threads only when both users have begun
\* a second message before the first was displayed: the envelope whose reader waits
\* for the lock is all received, so it is a later one that the sendall is stuck in.
THEOREM DeadlockNeedsTwoEach == Spec => []DeadlockTakesTwoEach
<1>1. WireInv => DeadlockTakesTwoEach
  <2> SUFFICES ASSUME WireInv, Deadlocked, NEW p \in Party
               PROVE  Len(sent[p]) >= displayed[p] + 2
    BY DEF DeadlockTakesTwoEach
  <2>1. /\ Typed /\ Laid(p) /\ Reading(p) /\ Counted(p)
        /\ recv[p] = "lock" /\ written[p] < EndOf(p)
    BY DEF WireInv, Stream, Deadlocked
  <2>2. PICK i \in StartingAt(p, start[p]) : ct_len[p] = sent[p][i].len
    BY <2>1 DEF Reading
  <2>3. i \in DOMAIN sent[p] /\ sent[p][i].at = start[p] /\ taken[p] = After(p, i)
    BY <2>1, <2>2 DEF Reading, StartingAt, After
  <2>4. /\ i \in Nat /\ displayed[p] \in Nat /\ Len(sent[p]) \in Nat
        /\ DOMAIN sent[p] = 1 .. Len(sent[p]) /\ taken[p] \in Nat /\ written[p] \in Nat
        /\ taken[p] <= written[p] /\ EndOf(p) \in Nat
    BY <2>1, <2>3, TypeFacts, EndFacts
  <2>5. i # Len(sent[p])
    <3>1. taken[p] < EndOf(p)
      BY <2>1, <2>4
    <3>2. taken[p] # EndOf(p)
      BY <2>4, <3>1
    <3> QED  BY <2>1, <2>3, <3>2, EndFacts
  <2>6. displayed[p] < i
    <3>1. CASE displayed[p] = 0
      BY <2>3, <2>4, <3>1
    <3>2. CASE displayed[p] # 0
      <4>1. displayed[p] \in DOMAIN sent[p] /\ sent[p][displayed[p]].at < sent[p][i].at
        BY <2>1, <2>3, <2>4, <3>2 DEF Counted
      <4>2. i # displayed[p]
        BY <2>1, <2>3, <4>1, TypeFacts
      <4>3. ASSUME i < displayed[p] PROVE FALSE
        <5>1. After(p, i) <= sent[p][displayed[p]].at
          BY <2>1, <2>3, <4>1, <4>3 DEF Laid
        <5> QED  BY <2>1, <2>3, <4>1, <5>1, TypeFacts
      <4> QED  BY <2>4, <4>2, <4>3
    <3> QED  BY <3>1, <3>2
  <2> QED  BY <2>3, <2>4, <2>5, <2>6
<1> QED  BY <1>1, WireInvariance, PTL

\* As long as somebody sends, some thread can go on, unless all four are in the
\* deadlock: a stuck sendall has filled its connection, so its reader, which never
\* lacks bytes then, can only be waiting for a lock, and so round.
THEOREM OnlyDeadlockStops == Spec => []OnlyThatStopsThem
<1>1. Typed => OnlyThatStopsThem
  <2> SUFFICES ASSUME Typed, NEW p \in Party, main[p] = "sending"
               PROVE  Deadlocked <=> \A q \in Party : ~MainCanGoOn(q) /\ ~ReceiverCanGoOn(q)
    BY DEF OnlyThatStopsThem
  <2>1. \A q \in Party : Peer(q) \in Party /\ (q = p \/ q = Peer(p)) /\ Peer(Peer(q)) = q
    BY DEF Party, Peer
  <2>2. \A q \in Party :
           /\ written[q] \in Nat /\ taken[q] \in Nat /\ Wanted(q) \in Nat
           /\ main[q] \in {"prompt", "sending"} /\ recv[q] \in {"header", "rest", "lock"}
           /\ written[q] <= EndOf(q) /\ written[q] - taken[q] <= Capacity
    <3>1. \A q \in Party : start[q] \in Nat /\ ct_len[q] \in Nat
      BY DEF Typed, TypeOK
    <3>2. \A q \in Party : Wanted(q) \in Nat
      BY <3>1, SizeFacts DEF Wanted
    <3> QED  BY <3>2 DEF Typed, TypeOK, BytesInOrder
  <2>3. ASSUME Deadlocked, NEW q \in Party PROVE ~MainCanGoOn(q) /\ ~ReceiverCanGoOn(q)
    <3>1. /\ written[q] < EndOf(q) /\ written[q] = taken[q] + Capacity /\ recv[q] = "lock"
          /\ main[Peer(q)] = "sending"
      BY <2>1, <2>3 DEF Deadlocked
    <3>2. ~MainCanGoOn(q)
      BY <2>2, <3>1, WireAssumption DEF MainCanGoOn
    <3>3. ~ReceiverCanGoOn(q)
      BY <3>1 DEF ReceiverCanGoOn, AtRecv, HeaderHere, RestHere, LockFree
    <3> QED  BY <3>2, <3>3
  <2>4. ASSUME NEW q \in Party, main[q] = "sending", ~MainCanGoOn(q), ~ReceiverCanGoOn(q)
        PROVE  /\ written[q] < EndOf(q) /\ written[q] = taken[q] + Capacity
               /\ recv[q] = "lock" /\ main[Peer(q)] = "sending"
    <3>1. written[q] = taken[q] + Capacity /\ written[q] # EndOf(q)
      BY <2>2, <2>4, WireAssumption DEF MainCanGoOn
    <3>2. taken[q] < written[q]
      BY <2>2, <3>1, WireAssumption
    <3>3. recv[q] = "lock"
      BY <2>2, <2>4, <3>2 DEF ReceiverCanGoOn, AtRecv, HeaderHere, RestHere
    <3>4. main[Peer(q)] = "sending"
      BY <2>1, <2>2, <2>4, <3>3 DEF ReceiverCanGoOn, LockFree
    <3>5. written[q] < EndOf(q)
      BY <2>2, <3>1, EndIsNat
    <3> QED  BY <3>1, <3>3, <3>4, <3>5
  <2>5. ASSUME \A q \in Party : ~MainCanGoOn(q) /\ ~ReceiverCanGoOn(q) PROVE Deadlocked
    <3>1. main[Peer(p)] = "sending"
      BY <2>4, <2>5
    <3> QED  BY <2>1, <2>4, <2>5, <3>1 DEF Deadlocked
  <2> QED  BY <2>3, <2>5
<1>2. WireInv => Typed
  BY DEF WireInv
<1> QED  BY <1>1, <1>2, WireInvariance, PTL

\* Once deadlocked, nothing in the two sessions ever moves again, and no user can
\* type a command that would free a lock: a process has to be killed.
THEOREM DeadlockIsForGood == Spec => [][~Deadlocked]_vars
<1>1. Typed /\ [Next]_vars => [~Deadlocked]_vars
  <2> SUFFICES ASSUME Typed, Deadlocked, NEW p \in Party,
                      TakeLockAndSend(p) \/ Main(p) \/ Receiver(p)
               PROVE  FALSE
    BY DEF Next
  <2>1. /\ main[p] = "sending" /\ main[Peer(p)] = "sending" /\ recv[p] = "lock"
        /\ written[p] < EndOf(p) /\ written[p] = taken[p] + Capacity
    BY DEF Deadlocked, Party, Peer
  <2>2. written[p] \in Nat /\ taken[p] \in Nat /\ EndOf(p) \in Nat
    BY EndIsNat DEF Typed, TypeOK
  <2>3. ~SendReturns(p) /\ ~TakeLockAndSend(p)
    BY <2>1, <2>2 DEF SendReturns, TakeLockAndSend
  <2>4. ~SendAll(p)
    BY <2>1, <2>2, WireAssumption DEF SendAll
  <2>5. ~Receiver(p)
    BY <2>1 DEF Receiver, RecvExactly, AtRecv, HeaderAccepted, HeaderRefused, HeaderHere,
                Decoded, NotDecoded, RestHere, DisplayLocked, OutOfOrderLocked, LockFree
  <2> QED  BY <2>3, <2>4, <2>5 DEF Main
<1>2. WireInv => Typed
  BY DEF WireInv
<1> QED  BY <1>1, <1>2, WireInvariance, PTL DEF Spec
=============================================================================
