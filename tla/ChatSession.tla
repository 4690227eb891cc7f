---------------------------- MODULE ChatSession ----------------------------
(***************************************************************************)
(* One process of main_chat.py: the REPL thread, the receive threads it    *)
(* starts, one per session, and the globals they share.  session_active   *)
(* is set, cleared and tested outside the lock, and _receive_loop reads    *)
(* session_sock outside it, so each such access is a step of its own.  A  *)
(* block under _lock is one step: nothing it reads changes while it is     *)
(* held, but for session_active, which it tests once.                     *)
(*                                                                         *)
(* The n-th session has the n-th socket, the n-th DKESessionState and the  *)
(* n-th receive thread.  Keys are those of the session and the message     *)
(* number: an envelope opens under the session state that it was sealed    *)
(* for, at its own place in the chain, and under no other.                 *)
(***************************************************************************)
EXTENDS Naturals, Sequences

CONSTANTS
    MaxSessions,  \* bound: sessions started in the life of the process
    MaxMessages,  \* bound: messages the peer sends in a session
    SeqLimit,     \* encode_envelope takes sequence numbers below it (2^64)
    Failures,     \* what may become of a connection, see Failure
    Flaws         \* the flaws envelopes may arrive with

Failure == {"eof", "reset", "unreachable"}

ASSUME ChatAssumption ==
    /\ MaxSessions \in Nat \ {0}
    /\ MaxMessages \in Nat
    /\ SeqLimit \in Nat \ {0}
    /\ Failures \subseteq Failure
    /\ Flaws \subseteq {"framing", "tag"}

Session == 1 .. MaxSessions
None == 0

\* flaw: "framing" is what decode_envelope rejects (for the size cap of
\* _recv_envelope see Wire), "tag" what AES-GCM rejects
Envelope == [session : Session, sequence : Nat, flaw : {"none", "framing", "tag"}]
NoEnvelope == [session |-> None, sequence |-> 0, flaw |-> "framing"]

VARIABLES
    session_active,  \* the threading.Event
    session_state,   \* which DKESessionState the global refers to
    session_sock,    \* which socket the global refers to
    started,          \* how many sessions this process has taken up
    main,             \* where the REPL thread is
    recv,             \* recv[t]: where receive thread t is
    conn,             \* conn[t]: the socket thread t is reading, if it is
    raw,              \* raw[t]: the envelope thread t awaits the lock with
    link,             \* link[s]: socket s and the network behind it
    chain             \* chain[s]: the DKESessionState of session s: its two sequence
                      \* numbers; whether a send failed after it used the current
                      \* key (spoiled, a history variable); whether it was wiped

vars == <<session_active, session_state, session_sock, started, main,
          recv, conn, raw, link, chain>>

globals == <<session_active, session_state, session_sock>>
threads == <<recv, conn, raw>>

Reading == {"check", "load", "recv", "lock", "lost", "clear"}

TypeOK ==
    /\ session_active \in BOOLEAN
    /\ session_state \in Session \cup {None}
    /\ session_sock \in Session \cup {None}
    /\ started \in 0 .. MaxSessions
    /\ main \in {"prompt", "handshake", "store", "activate", "spawn", "send",
                 "send_failed", "status", "end", "quit", "exited"}
    /\ recv \in [Session -> Reading \cup {"unborn", "done", "crashed"}]
    /\ conn \in [Session -> Session \cup {None}]
    /\ raw \in [Session -> Envelope \cup {NoEnvelope}]
    /\ link \in [Session -> [open : BOOLEAN, peer : {"up"} \cup Failure,
                             inbox : Seq(Envelope), arrived : 0 .. MaxMessages]]
    /\ chain \in [Session -> [sent : 0 .. SeqLimit, received : 0 .. MaxMessages,
                              spoiled : BOOLEAN, wiped : BOOLEAN]]

Init ==
    /\ session_active = FALSE
    /\ session_state = None
    /\ session_sock = None
    /\ started = 0
    /\ main = "prompt"
    /\ recv = [t \in Session |-> "unborn"]
    /\ conn = [t \in Session |-> None]
    /\ raw = [t \in Session |-> NoEnvelope]
    /\ link = [s \in Session |->
                 [open |-> FALSE, peer |-> "up", inbox |-> << >>, arrived |-> 0]]
    /\ chain = [s \in Session |-> [sent |-> 0, received |-> 0,
                                spoiled |-> FALSE, wiped |-> FALSE]]
-----------------------------------------------------------------------------
(* The REPL thread.  A command whose first test fails prints a line and    *)
(* changes nothing.                                                        *)

MainGoes(from, to) == main = from /\ main' = to

\* start
StartCmd ==
    /\ MainGoes("prompt", "handshake")
    /\ ~session_active
    /\ started < MaxSessions
    /\ UNCHANGED <<globals, started, threads, link, chain>>

HandshakeDone ==
    /\ MainGoes("handshake", "store")
    /\ link' = [link EXCEPT ![started + 1].open = TRUE]
    /\ UNCHANGED <<globals, started, threads, chain>>

HandshakeFailed ==
    /\ MainGoes("handshake", "prompt")
    /\ UNCHANGED <<globals, started, threads, link, chain>>

StoreGlobals ==
    /\ MainGoes("store", "activate")
    /\ started' = started + 1
    /\ session_state' = started + 1
    /\ session_sock' = started + 1
    /\ UNCHANGED <<session_active, threads, link, chain>>

Activate ==
    /\ MainGoes("activate", "spawn")
    /\ session_active' = TRUE
    /\ UNCHANGED <<session_state, session_sock, started, threads, link, chain>>

SpawnReceiver ==
    /\ MainGoes("spawn", "prompt")
    /\ recv' = [recv EXCEPT ![started] = "check"]
    /\ UNCHANGED <<globals, started, conn, raw, link, chain>>

\* send.  The blocks below use session_state untested: see CommandFindsItsSession.
\* Here the outbound chain only counts; its keys are the subject of Ratchet.
SendCmd ==
    /\ MainGoes("prompt", "send")
    /\ session_active
    /\ UNCHANGED <<globals, started, threads, link, chain>>

SendLocked ==
    /\ MainGoes("send", "prompt")
    /\ session_state # None
    /\ chain[session_state].sent < SeqLimit
    /\ chain' = [chain EXCEPT ![session_state].sent = @ + 1]
    /\ UNCHANGED <<globals, started, threads, link>>

\* sendall raises, perhaps with a part of the envelope on its way; the outbound
\* chain is left as it was, with the key that sealed the envelope
SendRaises ==
    /\ MainGoes("send", "send_failed")
    /\ session_sock # None
    /\ link[session_sock].peer # "up"
    /\ chain[session_state].sent < SeqLimit
    /\ chain' = [chain EXCEPT ![session_state].spoiled = TRUE]
    /\ UNCHANGED <<globals, started, threads, link>>

\* encode_envelope raises ValueError, which neither _cmd_send nor main catches
SendOverflows ==
    /\ MainGoes("send", "exited")
    /\ session_state # None
    /\ chain[session_state].sent = SeqLimit
    /\ UNCHANGED <<globals, started, threads, link, chain>>

\* Bug: the session goes on after a failed send.
SendFailedGoesOn ==
    /\ MainGoes("send_failed", "prompt")
    /\ UNCHANGED <<globals, started, threads, link, chain>>

SendFailed ==
    /\ MainGoes("send_failed", "prompt")
    /\ session_active' = FALSE
    /\ UNCHANGED <<session_state, session_sock, started, threads, link, chain>>

\* status
StatusCmd ==
    /\ MainGoes("prompt", "status")
    /\ session_active
    /\ UNCHANGED <<globals, started, threads, link, chain>>

StatusLocked ==
    /\ MainGoes("status", "prompt")
    /\ session_state # None
    /\ UNCHANGED <<globals, started, threads, link, chain>>

\* Bug: the flag left set while the session is torn down.
EndCmdLeavesActive ==
    /\ MainGoes("prompt", "end") \/ MainGoes("prompt", "quit")
    /\ session_active
    /\ UNCHANGED <<globals, started, threads, link, chain>>

\* end; and quit, end of input, or Ctrl-C at the prompt, which end first
EndCmd ==
    /\ MainGoes("prompt", "end") \/ MainGoes("prompt", "quit")
    /\ session_active
    /\ session_active' = FALSE
    /\ UNCHANGED <<session_state, session_sock, started, threads, link, chain>>

\* DKESessionState.wipe: both chains' key buffers overwritten with zeros
WipeState == chain' = [chain EXCEPT ![session_state].wiped = TRUE]

\* Bug: the socket dropped without the shutdown that wakes its reader.
EndLockedWithoutShutdown ==
    /\ MainGoes("end", "prompt") \/ MainGoes("quit", "exited")
    /\ WipeState
    /\ session_state' = None
    /\ session_sock' = None
    /\ UNCHANGED <<session_active, started, threads, link>>

\* Both globals are set here: only this block makes them None.  shutdown may
\* raise on a connection that is no longer up, and close is then skipped.
EndLocked ==
    /\ MainGoes("end", "prompt") \/ MainGoes("quit", "exited")
    /\ \E closed \in BOOLEAN :
          /\ closed \/ link[session_sock].peer # "up"
          /\ link' = [link EXCEPT ![session_sock].open = ~closed,
                                  ![session_sock].inbox = IF closed THEN << >> ELSE @]
    /\ WipeState
    /\ session_state' = None
    /\ session_sock' = None
    /\ UNCHANGED <<session_active, started, threads>>

\* quit with no active session: _cmd_end returns at its first test
QuitInactive ==
    /\ MainGoes("prompt", "exited")
    /\ ~session_active
    /\ UNCHANGED <<globals, started, threads, link, chain>>

\* Ctrl-C anywhere but at the prompt: KeyboardInterrupt is caught there only, so
\* the process ends with its session as it is.
Interrupt ==
    /\ main \notin {"prompt", "exited"}
    /\ main' = "exited"
    /\ UNCHANGED <<globals, started, threads, link, chain>>

\* main: the command of sys.argv, if any, then those that are typed
Command == StartCmd \/ SendCmd \/ StatusCmd \/ EndCmd \/ QuitInactive

MainStep ==
    \/ StoreGlobals \/ Activate \/ SpawnReceiver
    \/ SendLocked \/ SendRaises \/ SendOverflows \/ SendFailed
    \/ StatusLocked \/ EndLocked
-----------------------------------------------------------------------------
(* Receive thread t; daemon threads die with the process *)

Goes(t, from, to) ==
    /\ main # "exited"
    /\ recv[t] = from
    /\ recv' = [recv EXCEPT ![t] = to]
    /\ UNCHANGED <<started, main>>

\* while session_active.is_set()
LoopTest(t) ==
    /\ \/ session_active /\ Goes(t, "check", "load")
       \/ ~session_active /\ Goes(t, "check", "done")
    /\ UNCHANGED <<globals, conn, raw, link, chain>>

\* the argument of _recv_envelope(session_sock), read without the lock
LoadSock(t) ==
    /\ \/ /\ session_sock # None
          /\ Goes(t, "load", "recv")
          /\ conn' = [conn EXCEPT ![t] = session_sock]
       \/ /\ session_sock = None   \* AttributeError, which nothing catches
          /\ Goes(t, "load", "crashed")
          /\ UNCHANGED conn
    /\ UNCHANGED <<globals, raw, link, chain>>

\* recv(2) returns, and thread t goes on to `to`
Returns(t, to) ==
    /\ Goes(t, "recv", to)
    /\ conn' = [conn EXCEPT ![t] = None]
    /\ UNCHANGED <<globals, chain>>

Arrived(s) == link[s].open /\ link[s].inbox # << >>

\* A whole envelope arrived and decodes.  Threads that share a socket, see
\* ReceiverServesItsOwnSession, take whole envelopes from it here; in the code they
\* may tear one apart.
RecvEnvelope(t) ==
    /\ Returns(t, "lock")
    /\ Arrived(conn[t]) /\ Head(link[conn[t]].inbox).flaw # "framing"
    /\ raw' = [raw EXCEPT ![t] = Head(link[conn[t]].inbox)]
    /\ link' = [link EXCEPT ![conn[t]].inbox = Tail(@)]

\* ParseError: continue
RecvMalformed(t) ==
    /\ Returns(t, "check")
    /\ Arrived(conn[t]) /\ Head(link[conn[t]].inbox).flaw = "framing"
    /\ link' = [link EXCEPT ![conn[t]].inbox = Tail(@)]
    /\ UNCHANGED raw

\* ConnectionError: end of stream, reset, or our own shutdown
RecvConnectionError(t) ==
    /\ Returns(t, "lost")
    /\ LET l == link[conn[t]]
       IN  \/ ~l.open
           \/ l.peer = "reset"
           \/ l.peer = "eof" /\ l.inbox = << >>
    /\ UNCHANGED <<raw, link>>

\* any other OSError: the thread returns and leaves the session as it is
RecvOSError(t) ==
    /\ Returns(t, "done")
    /\ ~link[conn[t]].open \/ link[conn[t]].peer = "unreachable"
    /\ UNCHANGED <<raw, link>>

\* Bug: the thread returns and tells nobody.
PeerLostInSilence(t) ==
    /\ Goes(t, "lost", "done")
    /\ UNCHANGED <<globals, conn, raw, link, chain>>

PeerLost(t) ==
    /\ \/ session_active /\ Goes(t, "lost", "clear")
       \/ ~session_active /\ Goes(t, "lost", "done")
    /\ UNCHANGED <<globals, conn, raw, link, chain>>

\* Bug: the thread discards the session it lost by itself.
ClearActiveAndState(t) ==
    /\ Goes(t, "clear", "done")
    /\ session_active' = FALSE
    /\ session_state' = None
    /\ UNCHANGED <<session_sock, conn, raw, link, chain>>

ClearActive(t) ==
    /\ Goes(t, "clear", "done")
    /\ session_active' = FALSE
    /\ UNCHANGED <<session_state, session_sock, conn, raw, link, chain>>

Opens(envelope, s) ==
    /\ envelope.flaw = "none"
    /\ envelope.session = s
    /\ envelope.sequence = chain[s].received

\* the block under _lock
Locked(t, to) ==
    /\ Goes(t, "lock", to)
    /\ raw' = [raw EXCEPT ![t] = NoEnvelope]
    /\ UNCHANGED <<globals, conn, link>>

SessionGone(t) ==
    /\ Locked(t, "done")
    /\ session_state = None \/ ~session_active
    /\ UNCHANGED chain

\* Bug: the session state taken before the lock, and not tested again under it.
AcceptUnderStaleState(t) ==
    /\ Locked(t, "check")
    /\ Opens(raw[t], raw[t].session)
    /\ chain' = [chain EXCEPT ![raw[t].session].received = @ + 1]

AcceptLocked(t) ==
    /\ Locked(t, "check")
    /\ session_state # None /\ session_active
    /\ Opens(raw[t], session_state)
    /\ chain' = [chain EXCEPT ![session_state].received = @ + 1]

\* Bug: dropped, yet counted.
DropEnvelopeCounted(t) ==
    /\ Locked(t, "check")
    /\ session_state # None /\ session_active
    /\ ~Opens(raw[t], session_state)
    /\ chain' = [chain EXCEPT ![session_state].received = @ + 1]

\* SequenceError, InvalidTag or ValueError: continue
DropEnvelope(t) ==
    /\ Locked(t, "check")
    /\ session_state # None /\ session_active
    /\ ~Opens(raw[t], session_state)
    /\ UNCHANGED chain

Receiver(t) ==
    \/ LoopTest(t) \/ LoadSock(t)
    \/ RecvEnvelope(t) \/ RecvMalformed(t)
    \/ RecvConnectionError(t) \/ RecvOSError(t)
    \/ PeerLost(t) \/ ClearActive(t)
    \/ SessionGone(t) \/ AcceptLocked(t) \/ DropEnvelope(t)
-----------------------------------------------------------------------------
(* The network and the peer behind socket s, while anybody can see them *)

Watched(s) == main # "exited" /\ link[s].open /\ link[s].peer = "up"

PeerSends(s) ==
    /\ Watched(s) /\ link[s].arrived < MaxMessages
    /\ \E flaw \in {"none"} \cup Flaws :
          link' = [link EXCEPT
            ![s].inbox = Append(@, [session |-> s, sequence |-> link[s].arrived,
                                    flaw |-> flaw]),
            ![s].arrived = @ + 1]
    /\ UNCHANGED <<globals, started, main, threads, chain>>

ConnectionFails(s) ==
    /\ Watched(s)
    /\ \E f \in Failures : link' = [link EXCEPT ![s].peer = f]
    /\ UNCHANGED <<globals, started, main, threads, chain>>
-----------------------------------------------------------------------------
Next ==
    \/ Command \/ HandshakeDone \/ HandshakeFailed \/ MainStep \/ Interrupt
    \/ \E t \in Session : Receiver(t)
    \/ \E s \in Session : PeerSends(s) \/ ConnectionFails(s)

Spec == Init /\ [][Next]_vars

\* Threads run; users, peers and networks need do nothing.
FairSpec ==
    /\ Spec
    /\ WF_vars(MainStep)
    /\ \A t \in Session : WF_vars(Receiver(t))
-----------------------------------------------------------------------------
(* Properties *)

\* The flag every command tests without the lock never claims a session that
\* the lock's blocks have not set up, or have already wiped.
ActiveHasLiveSession ==
    session_active =>
        /\ session_state # None
        /\ session_sock = session_state
        /\ ~chain[session_state].wiped

\* A command that passed its test of the flag finds, once it has the lock, the
\* session it tested for: _cmd_send and _cmd_status use the globals untested, and
\* a receive thread that clears the flag in between must leave them alone.
CommandFindsItsSession ==
    main \in {"send", "status", "end", "quit"} =>
        /\ session_state # None
        /\ session_sock = session_state
        /\ ~chain[session_state].wiped

\* Once end has wiped a session, no receive thread uses its keys again, whatever
\* envelope or socket it was holding at the time.
WipedKeysStayUnused ==
    [][\A s \in Session : chain[s].wiped => chain'[s] = chain[s]]_vars

\* The receive thread of a session ended locally stops, unless a new start
\* comes first or the process exits.
EndStopsReceiver ==
    \A t \in Session :
        chain[t].wiped ~> \/ recv[t] \notin Reading
                          \/ session_active
                          \/ main = "exited"

\* The sessions of a process live as SessionLifecycle says, however old the threads
\* are that run: a session that was lost or replaced never moves again, and a key
\* whose send failed, which the warning of rotate_send would let a retry use, seals
\* nothing more because the flag goes down before the next command.
Mode ==
    CASE session_active -> "live"
      [] ~session_active /\ session_state = None -> "none"
      [] ~session_active /\ session_state # None ->
            IF main = "activate" THEN "new" ELSE "lost"

Lifecycle == INSTANCE SessionLifecycle WITH begun <- started, mode <- Mode, session <- chain

ImplementsLifecycle == Lifecycle!Spec

\* When the peer closes or resets the current connection, the session does not
\* stay active on it, unless the process exits.
DisconnectIsNoticed ==
    \A s \in Session :
        (session_active /\ session_sock = s /\ link[s].peer \in {"eof", "reset"})
            ~> (~session_active \/ session_sock # s \/ main = "exited")

\* main_chat.py:75 and section 7 of the architecture document: an end of file or a
\* socket exception terminates the session and discards its state, so a session
\* whose receive thread has stopped is over and wiped.
ExceptionDiscardsState ==
    main = "prompt" =>
        \A t \in 1 .. started :
            recv[t] \notin Reading
                => chain[t].wiped /\ ~(session_active /\ session_sock = t)

\* The docstring of _receive_loop: a receive thread runs until its session is
\* over, so it never reads the socket of another, nor clears the flag of another.
ReceiverServesItsOwnSession ==
    \A t \in Session :
        /\ recv[t] = "recv" => conn[t] = t
        /\ recv[t] = "clear" => ~session_active \/ session_sock = t
=============================================================================
