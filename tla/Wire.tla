-------------------------------- MODULE Wire --------------------------------
(***************************************************************************)
(* Two running sessions of main_chat.py and the TCP connection between     *)
(* them, byte by byte: how _recv_envelope cuts the stream into envelopes,  *)
(* and how _cmd_send keeps the lock through a sendall that may block.      *)
(*                                                                         *)
(* Everything is indexed by the sender of a stream: sent[p], written[p]    *)
(* and main[p] belong to the process of p; recv[p] is the receive thread   *)
(* of p's peer, which reads p's stream.  A byte is known by its place in   *)
(* the stream, so no contents are kept: a header that begins where an      *)
(* envelope begins is that envelope's, and any other 30 bytes are          *)
(* ciphertext, whose length field may say anything and whose magic is      *)
(* wrong.                                                                  *)
(***************************************************************************)
EXTENDS Naturals, Sequences

CONSTANTS
    HEADER_SIZE,
    TAG_SIZE,
    MAX_CIPHERTEXT_SIZE,
    Lengths,   \* the lengths of ciphertext that users cause; nothing caps them
    Capacity,  \* how many bytes the kernels hold between the two processes
    MaxSent    \* bound: messages of each user

ASSUME WireAssumption ==
    /\ HEADER_SIZE \in Nat \ {0}
    /\ TAG_SIZE \in Nat
    /\ MAX_CIPHERTEXT_SIZE \in Nat
    /\ Lengths \subseteq Nat
    /\ Capacity \in Nat \ {0}
    /\ MaxSent \in Nat

Party == {"alice", "bob"}
Peer(p) == IF p = "alice" THEN "bob" ELSE "alice"

EnvelopeSize(len) == HEADER_SIZE + len + TAG_SIZE

VARIABLES
    sent,      \* sent[p]: the envelopes p began to send, each [at, len]
    main,      \* main[p]: the REPL of p; while "sending" it holds p's lock
    written,   \* written[p]: bytes of p's stream handed to the kernel
    taken,     \* taken[p]: bytes of p's stream the peer has received
    start,     \* start[p]: where in p's stream the peer's current envelope begins
    ct_len,    \* ct_len[p]: the length its header declares
    recv,      \* recv[p]: what the peer's receive thread waits for
    displayed  \* displayed[p]: how many messages of p the peer displayed

vars == <<sent, main, written, taken, start, ct_len, recv, displayed>>
sending == <<sent, main, written>>
receiving == <<taken, start, ct_len, recv, displayed>>

\* Where p's stream ends when all that was begun is written.
EndOf(p) ==
    IF sent[p] = << >> THEN 0
    ELSE LET last == sent[p][Len(sent[p])] IN last.at + EnvelopeSize(last.len)

TypeOK ==
    /\ sent \in [Party -> Seq([at : Nat, len : Lengths])]
    /\ main \in [Party -> {"prompt", "sending"}]
    /\ written \in [Party -> Nat]
    /\ taken \in [Party -> Nat]
    /\ start \in [Party -> Nat]
    /\ ct_len \in [Party -> 0 .. MAX_CIPHERTEXT_SIZE]
    /\ recv \in [Party -> {"header", "rest", "lock"}]
    /\ displayed \in [Party -> 0 .. MaxSent]

Init ==
    /\ sent = [p \in Party |-> << >>]
    /\ main = [p \in Party |-> "prompt"]
    /\ written = [p \in Party |-> 0]
    /\ taken = [p \in Party |-> 0]
    /\ start = [p \in Party |-> 0]
    /\ ct_len = [p \in Party |-> 0]
    /\ recv = [p \in Party |-> "header"]
    /\ displayed = [p \in Party |-> 0]
-----------------------------------------------------------------------------
(* _cmd_send of p *)

\* The lock is free: its only other holder, recv, keeps it for one step.
TakeLockAndSend(p) ==
    /\ main[p] = "prompt" /\ Len(sent[p]) < MaxSent
    /\ \E len \in Lengths : sent' = [sent EXCEPT ![p] = Append(@, [at |-> EndOf(p), len |-> len])]
    /\ main' = [main EXCEPT ![p] = "sending"]
    /\ UNCHANGED <<written, receiving>>

\* sendall goes on as long as the kernels have room
SendAll(p) ==
    /\ main[p] = "sending"
    /\ \E k \in 1 .. (EndOf(p) - written[p]) :
          /\ written[p] + k <= taken[p] + Capacity
          /\ written' = [written EXCEPT ![p] = @ + k]
    /\ UNCHANGED <<sent, main, receiving>>

\* Bug: send instead of sendall.
SendReturnsBeforeAll(p) ==
    /\ main[p] = "sending" /\ written[p] > sent[p][Len(sent[p])].at
    /\ main' = [main EXCEPT ![p] = "prompt"]
    /\ UNCHANGED <<sent, written, receiving>>

\* rotate_send; the lock is released
SendReturns(p) ==
    /\ main[p] = "sending" /\ written[p] = EndOf(p)
    /\ main' = [main EXCEPT ![p] = "prompt"]
    /\ UNCHANGED <<sent, written, receiving>>
-----------------------------------------------------------------------------
(* _receive_loop of p's peer *)

\* The envelopes that begin at byte n of p's stream: one or none.
StartingAt(p, n) == {i \in DOMAIN sent[p] : sent[p][i].at = n}

Wanted(p) ==
    start[p] + (IF recv[p] = "header" THEN HEADER_SIZE ELSE EnvelopeSize(ct_len[p]))

\* Bug: the lock needed for reading, too.
AtRecvUnderLock(p) == recv[p] # "lock" /\ main[Peer(p)] = "prompt"

AtRecv(p) == recv[p] # "lock"

\* Bug: recv asked for more than the envelope still lacks.
RecvGreedy(p) ==
    /\ AtRecv(p) /\ taken[p] < Wanted(p)
    /\ \E k \in 1 .. (written[p] - taken[p]) : taken' = [taken EXCEPT ![p] = @ + k]
    /\ UNCHANGED <<sending, start, ct_len, recv, displayed>>

\* recv returns some of the bytes that are there, never more than asked for
RecvExactly(p) ==
    /\ AtRecv(p)
    /\ \E k \in 1 .. (written[p] - taken[p]) :
          /\ taken[p] + k <= Wanted(p)
          /\ taken' = [taken EXCEPT ![p] = @ + k]
    /\ UNCHANGED <<sending, start, ct_len, recv, displayed>>

\* What the length field of the header at start[p] may say; one more than
\* MAX_CIPHERTEXT_SIZE stands for whatever exceeds it.
Declared(p) ==
    IF StartingAt(p, start[p]) # {}
    THEN {sent[p][i].len : i \in StartingAt(p, start[p])}
    ELSE 0 .. (MAX_CIPHERTEXT_SIZE + 1)

HeaderHere(p) == recv[p] = "header" /\ taken[p] >= Wanted(p)

\* Bug: whatever length the header declares is read.
HeaderAcceptedUncapped(p) ==
    /\ HeaderHere(p)
    /\ \E len \in Declared(p) : ct_len' = [ct_len EXCEPT ![p] = len]
    /\ recv' = [recv EXCEPT ![p] = "rest"]
    /\ UNCHANGED <<sending, taken, start, displayed>>

HeaderAccepted(p) ==
    /\ HeaderHere(p)
    /\ \E len \in Declared(p) :
          /\ len <= MAX_CIPHERTEXT_SIZE
          /\ ct_len' = [ct_len EXCEPT ![p] = len]
    /\ recv' = [recv EXCEPT ![p] = "rest"]
    /\ UNCHANGED <<sending, taken, start, displayed>>

\* the next read begins at the first byte not received
NextEnvelope(p) ==
    /\ start' = [start EXCEPT ![p] = taken[p]]
    /\ recv' = [recv EXCEPT ![p] = "header"]
    /\ ct_len' = [ct_len EXCEPT ![p] = 0]

\* ParseError of _recv_envelope, with the rest of the envelope still unread
HeaderRefused(p) ==
    /\ HeaderHere(p)
    /\ \E len \in Declared(p) : len > MAX_CIPHERTEXT_SIZE
    /\ NextEnvelope(p)
    /\ UNCHANGED <<sending, taken, displayed>>

RestHere(p) == recv[p] = "rest" /\ taken[p] >= Wanted(p)

\* Bug: displayed before the lock is held.
DecodedAndDisplayed(p) ==
    /\ RestHere(p)
    /\ StartingAt(p, start[p]) # {}
    /\ recv' = [recv EXCEPT ![p] = "lock"]
    /\ displayed' = [displayed EXCEPT ![p] = @ + 1]
    /\ UNCHANGED <<sending, taken, start, ct_len>>

\* decode_envelope accepts; the loop asks for the lock
Decoded(p) ==
    /\ RestHere(p)
    /\ StartingAt(p, start[p]) # {}
    /\ recv' = [recv EXCEPT ![p] = "lock"]
    /\ UNCHANGED <<sending, taken, start, ct_len, displayed>>

\* ParseError of decode_envelope
NotDecoded(p) ==
    /\ RestHere(p)
    /\ StartingAt(p, start[p]) = {}
    /\ NextEnvelope(p)
    /\ UNCHANGED <<sending, taken, displayed>>

LockFree(p) == main[p] = "prompt"

\* the block under the lock: the next in sequence is displayed
DisplayLocked(p) ==
    /\ recv[p] = "lock" /\ LockFree(Peer(p))
    /\ displayed[p] + 1 \in StartingAt(p, start[p])
    /\ displayed' = [displayed EXCEPT ![p] = @ + 1]
    /\ NextEnvelope(p)
    /\ UNCHANGED <<sending, taken>>

\* SequenceError: an earlier message was lost
OutOfOrderLocked(p) ==
    /\ recv[p] = "lock" /\ LockFree(Peer(p))
    /\ displayed[p] + 1 \notin StartingAt(p, start[p])
    /\ NextEnvelope(p)
    /\ UNCHANGED <<sending, taken, displayed>>
-----------------------------------------------------------------------------
Main(p) == SendAll(p) \/ SendReturns(p)

Receiver(p) ==
    \/ RecvExactly(p) \/ HeaderAccepted(p) \/ HeaderRefused(p)
    \/ Decoded(p) \/ NotDecoded(p) \/ DisplayLocked(p) \/ OutOfOrderLocked(p)

Next == \E p \in Party : TakeLockAndSend(p) \/ Main(p) \/ Receiver(p)

Spec == Init /\ [][Next]_vars

\* Threads run and TCP delivers; users need not type.
FairSpec == Spec /\ \A p \in Party : WF_vars(Main(p)) /\ WF_vars(Receiver(p))
-----------------------------------------------------------------------------
(* Properties *)

\* As long as no oversized envelope was reached, the receive thread is at the
\* beginning of the first message not yet displayed: none is lost, cut or shifted,
\* however the bytes were portioned.
NothingLost ==
    \A p \in Party :
        (\A i \in DOMAIN sent[p] :
              sent[p][i].at < start[p] => sent[p][i].len <= MAX_CIPHERTEXT_SIZE)
            => \/ displayed[p] + 1 \in StartingAt(p, start[p])
               \/ displayed[p] = Len(sent[p]) /\ start[p] = EndOf(p)

\* The length field is not authenticated, and after an oversized envelope it may be
\* ciphertext: even so a receive thread never holds more than the largest acceptable
\* envelope before it decides what to do with it.
OneEnvelopeHeld ==
    \A p \in Party : taken[p] <= start[p] + EnvelopeSize(MAX_CIPHERTEXT_SIZE)

\* Both REPL threads hold their lock in a sendall that waits for room, and both
\* receive threads, which alone could make room, wait for the locks.
Deadlocked ==
    \A p \in Party :
        /\ main[p] = "sending" /\ written[p] < EndOf(p)
        /\ written[p] = taken[p] + Capacity
        /\ recv[p] = "lock"

\* It takes a second message of both users, sent before the first is displayed.
DeadlockTakesTwoEach ==
    Deadlocked => \A p \in Party : Len(sent[p]) >= displayed[p] + 2

MainCanGoOn(p) ==
    main[p] = "sending" /\ (written[p] < taken[p] + Capacity \/ written[p] = EndOf(p))

ReceiverCanGoOn(p) ==
    \/ AtRecv(p) /\ taken[p] < written[p] /\ taken[p] < Wanted(p)
    \/ HeaderHere(p) \/ RestHere(p)
    \/ recv[p] = "lock" /\ LockFree(Peer(p))

\* While anybody holds a lock, the threads can stop for one reason only: of the ways
\* in which two REPL threads, two receive threads and two full connections may wait
\* for each other, no other is a deadlock.
OnlyThatStopsThem ==
    (\E p \in Party : main[p] = "sending")
        => (Deadlocked <=> \A p \in Party : ~MainCanGoOn(p) /\ ~ReceiverCanGoOn(p))

\* A sendall that waits returns in the end, unless it comes to that.
SendReturnsUnlessDeadlocked ==
    \A p \in Party : main[p] = "sending" ~> main[p] = "prompt" \/ Deadlocked

NoneOversized(p) == \A i \in DOMAIN sent[p] : sent[p][i].len <= MAX_CIPHERTEXT_SIZE

\* Every message is displayed, though sends keep the lock the receiver needs,
\* unless they deadlock or an oversized message is sent.
DisplayedUnlessDeadlocked ==
    \A p \in Party : \A n \in 1 .. MaxSent :
        Len(sent[p]) >= n ~> displayed[p] >= n \/ Deadlocked \/ ~NoneOversized(p)

\* protocol.py:115, after a ParseError "only the individual message is dropped":
\* no acceptable envelope is read as a part of another.
OnlyTheMalformedIsDropped ==
    \A p \in Party : \A i \in DOMAIN sent[p] :
        sent[p][i].len <= MAX_CIPHERTEXT_SIZE
            => ~(start[p] < sent[p][i].at /\ sent[p][i].at < taken[p])
=============================================================================
