------------------------- MODULE ChatSessionProofs -------------------------
(***************************************************************************)
(* For every number of sessions and messages and every fate of the         *)
(* connections: the flag never claims a session that is not there, a       *)
(* command finds the session it tested for, wiped keys stay unused, and    *)
(* the sessions live as SessionLifecycle says.                             *)
(*                                                                         *)
(* None of these is inductive.  That the globals name the latest session,  *)
(* which end has not wiped, rests on where the REPL thread is when it sets *)
(* and clears them, and on every wiped session being an earlier one.       *)
(***************************************************************************)
EXTENDS ChatSession, SequenceTheorems, TLAPS

\* The places between the test or the setting of the flag and the use of the
\* globals: there is a session at each of them.
Holding == {"activate", "spawn", "send", "status", "end", "quit"}

Consistent ==
    /\ session_sock = session_state /\ session_state \in {None, started}
    /\ session_active \/ main \in Holding => session_state # None
    /\ main \in {"handshake", "store", "activate", "end", "quit"} => ~session_active
    /\ main \in {"handshake", "store"} => started < MaxSessions
    /\ \A s \in Session : chain[s].wiped => s <= started /\ s # session_state

\* A session with a spoiled key is no longer active once the REPL thread is back
\* at the prompt, and nothing waits to be sent in it.
Retired ==
    /\ \A s \in Session : chain[s].spoiled => s <= started
    /\ session_state # None /\ chain[session_state].spoiled =>
          \/ main \in {"send_failed", "exited"}
          \/ ~session_active /\ main \notin {"activate", "send"}

\* One of the first n envelopes of session s.
FromPeer(envelope, s, n) == envelope.session = s /\ envelope.sequence < n

\* A thread in recv has a socket, and every envelope is one the peer sent.
Numbered ==
    /\ \A t \in Session : recv[t] = "recv" => conn[t] # None
    /\ \A s \in Session : \A i \in DOMAIN link[s].inbox :
          FromPeer(link[s].inbox[i], s, link[s].arrived)
    /\ \A t \in Session : raw[t] # NoEnvelope =>
          FromPeer(raw[t], raw[t].session, link[raw[t].session].arrived)

ChatInv == TypeOK /\ Numbered /\ Consistent /\ Retired

\* The type of link[s] in TypeOK.
Link == [open : BOOLEAN, peer : {"up"} \cup Failure,
         inbox : Seq(Envelope), arrived : 0 .. MaxMessages]

\* The type of chain[s] in TypeOK.
Chain == [sent : 0 .. SeqLimit, received : 0 .. MaxMessages,
          spoiled : BOOLEAN, wiped : BOOLEAN]

\* The initial states satisfy the invariant.
LEMMA InitInv == Init => ChatInv
<1> SUFFICES ASSUME Init PROVE ChatInv
  OBVIOUS
<1>1. TypeOK
  <2>1. << >> \in Seq(Envelope)
    OBVIOUS
  <2>2. 0 \in 0 .. MaxMessages /\ 0 \in 0 .. MaxSessions /\ 0 \in 0 .. SeqLimit
    BY ChatAssumption
  <2> QED  BY <2>1, <2>2 DEF Init, TypeOK, Reading
<1>2. Numbered
  BY DEF Init, Numbered
<1>3. Consistent
  BY ChatAssumption DEF Init, Consistent, Holding, None
<1>4. Retired
  BY DEF Init, Retired
<1> QED  BY <1>1, <1>2, <1>3, <1>4 DEF ChatInv

\* A link that is opened, whose peer is lost, or whose inbox changes.
LEMMA LinkUpdates ==
    ASSUME NEW l \in Link
    PROVE  /\ \A o \in BOOLEAN :
                 /\ [l EXCEPT !.open = o] \in Link
                 /\ [l EXCEPT !.open = o].inbox = l.inbox
                 /\ [l EXCEPT !.open = o].arrived = l.arrived
           /\ \A f \in Failure :
                 /\ [l EXCEPT !.peer = f] \in Link
                 /\ [l EXCEPT !.peer = f].inbox = l.inbox
                 /\ [l EXCEPT !.peer = f].arrived = l.arrived
           /\ \A i \in Seq(Envelope) :
                 /\ [l EXCEPT !.inbox = i] \in Link
                 /\ [l EXCEPT !.inbox = i].inbox = i
                 /\ [l EXCEPT !.inbox = i].arrived = l.arrived
           /\ \A n \in 0 .. MaxMessages :
                 /\ [l EXCEPT !.arrived = n] \in Link
                 /\ [l EXCEPT !.arrived = n].inbox = l.inbox
                 /\ [l EXCEPT !.arrived = n].arrived = n
BY DEF Link

\* What a thread awaits the lock with is of some session.
LEMMA RawTypes ==
    TypeOK => \A t \in Session :
                 raw[t] # NoEnvelope => raw[t] \in Envelope /\ raw[t].session \in Session
BY DEF TypeOK, Envelope

\* A step that moves no envelope and lets no thread begin to read.
LEMMA NoEnvelopeMoves ==
    ASSUME ChatInv, UNCHANGED <<link, conn, raw>>,
           \A t \in Session : recv'[t] = "recv" => recv[t] = "recv"
    PROVE  Numbered'
BY DEF ChatInv, Numbered, FromPeer

\* The steps of the REPL thread before and during the start of a session.
LEMMA StartInv ==
    ASSUME ChatInv,
           StartCmd \/ HandshakeFailed \/ StoreGlobals \/ Activate \/ SpawnReceiver
    PROVE  ChatInv'
<1> USE ChatAssumption DEF ChatInv, TypeOK, MainGoes, globals, threads
<1>1. TypeOK'
  <2>1. CASE StartCmd
    BY <2>1 DEF StartCmd
  <2>2. CASE HandshakeFailed
    BY <2>2 DEF HandshakeFailed
  <2>3. CASE StoreGlobals
    <3>1. started + 1 \in Session /\ started + 1 \in 0 .. MaxSessions
      BY <2>3 DEF StoreGlobals, Consistent, Session
    <3> QED  BY <2>3, <3>1 DEF StoreGlobals
  <2>4. CASE Activate
    BY <2>4 DEF Activate
  <2>5. CASE SpawnReceiver
    BY <2>5 DEF SpawnReceiver, Reading
  <2> QED  BY <2>1, <2>2, <2>3, <2>4, <2>5
<1>2. Numbered'
  BY NoEnvelopeMoves
     DEF StartCmd, HandshakeFailed, StoreGlobals, Activate, SpawnReceiver
<1>3. Consistent' /\ Retired'
  <2> USE DEF Consistent, Retired, Holding
  <2>1. CASE StartCmd
    BY <2>1 DEF StartCmd
  <2>2. CASE HandshakeFailed
    BY <2>2 DEF HandshakeFailed
  <2>3. CASE StoreGlobals
    <3>1. /\ started \in Nat /\ started < MaxSessions /\ started + 1 \in Session
          /\ ~chain[started + 1].wiped /\ ~chain[started + 1].spoiled
      BY <2>3 DEF StoreGlobals, Session
    <3> QED  BY <2>3, <3>1 DEF StoreGlobals, Session, None
  <2>4. CASE Activate
    BY <2>4 DEF Activate
  <2>5. CASE SpawnReceiver
    BY <2>5 DEF SpawnReceiver
  <2> QED  BY <2>1, <2>2, <2>3, <2>4, <2>5
<1> QED  BY <1>1, <1>2, <1>3

\* The end of the handshake: the socket of the new session is open.
LEMMA HandshakeDoneInv == ChatInv /\ HandshakeDone => ChatInv'
<1> SUFFICES ASSUME ChatInv, HandshakeDone PROVE ChatInv'
  OBVIOUS
<1> DEFINE l == [link[started + 1] EXCEPT !.open = TRUE]
<1>1. /\ main = "handshake" /\ main' = "store"
      /\ link' = [link EXCEPT ![started + 1] = l]
      /\ UNCHANGED <<globals, started, threads, chain>>
  BY DEF HandshakeDone, MainGoes
<1>2. started + 1 \in Session /\ started \in Nat
  BY <1>1, ChatAssumption DEF ChatInv, TypeOK, Consistent, Session
<1>3. link \in [Session -> Link]
  BY DEF ChatInv, TypeOK, Link
<1>4. l \in Link /\ l.inbox = link[started + 1].inbox /\ l.arrived = link[started + 1].arrived
  BY <1>2, <1>3, LinkUpdates
<1> HIDE DEF l
<1>5. TypeOK'
  BY <1>1, <1>2, <1>3, <1>4 DEF ChatInv, TypeOK, Link, Session, globals, threads
<1>6. Numbered'
  <2>1. \A s \in Session : link'[s].inbox = link[s].inbox /\ link'[s].arrived = link[s].arrived
    BY <1>1, <1>2, <1>3, <1>4
  <2> QED  BY <1>1, <2>1, RawTypes DEF ChatInv, Numbered, FromPeer, threads
<1>7. Consistent' /\ Retired'
  BY <1>1 DEF ChatInv, Consistent, Retired, Holding, globals
<1> QED  BY <1>5, <1>6, <1>7 DEF ChatInv

\* send, when it has the lock: the outbound chain of the session moves or is spoiled.
LEMMA SendInv == ChatInv /\ (SendLocked \/ SendRaises) => ChatInv'
<1> SUFFICES ASSUME ChatInv, SendLocked \/ SendRaises PROVE ChatInv'
  OBVIOUS
<1>1. /\ main = "send" /\ main' \in {"prompt", "send_failed"}
      /\ chain[session_state].sent < SeqLimit
      /\ UNCHANGED <<globals, started, threads, link>>
  BY DEF SendLocked, SendRaises, MainGoes
<1>2. /\ session_state \in Session /\ session_state = started
      /\ ~chain[session_state].spoiled
  BY <1>1 DEF ChatInv, TypeOK, Consistent, Retired, Holding
<1>3. chain \in [Session -> Chain] /\ chain[session_state] \in Chain
  BY <1>2 DEF ChatInv, TypeOK, Chain
<1>4. /\ chain' \in [Session -> Chain]
      /\ \A s \in Session : chain'[s].wiped = chain[s].wiped
      /\ \A s \in Session : chain'[s].spoiled =>
            \/ chain[s].spoiled
            \/ s = session_state /\ main' = "send_failed"
  <2>1. CASE SendLocked
    <3>1. chain[session_state].sent + 1 \in 0 .. SeqLimit
      BY <1>1, <1>3, ChatAssumption DEF Chain
    <3> QED  BY <1>2, <1>3, <2>1, <3>1 DEF SendLocked, Chain
  <2>2. CASE SendRaises
    BY <1>2, <1>3, <2>2 DEF SendRaises, MainGoes, Chain
  <2> QED  BY <2>1, <2>2
<1>5. TypeOK'
  BY <1>1, <1>4 DEF ChatInv, TypeOK, Chain, globals, threads
<1>6. Numbered'
  BY <1>1, NoEnvelopeMoves DEF threads
<1>7. Consistent'
  BY <1>1, <1>4 DEF ChatInv, Consistent, Holding, globals
<1>8. Retired'
  <2>1. started <= started /\ session_state' = session_state /\ started' = started
    BY <1>1 DEF ChatInv, TypeOK, globals
  <2> QED  BY <1>1, <1>2, <1>4, <2>1 DEF ChatInv, Retired
<1> QED  BY <1>5, <1>6, <1>7, <1>8 DEF ChatInv

\* The other steps of send and status, quit without a session, and Ctrl-C.
LEMMA CommandInv ==
    ASSUME ChatInv,
           \/ SendCmd \/ SendOverflows \/ SendFailed
           \/ StatusCmd \/ StatusLocked \/ EndCmd \/ QuitInactive \/ Interrupt
    PROVE  ChatInv'
<1> USE DEF ChatInv, MainGoes, globals, threads, SendCmd, SendOverflows, SendFailed,
            StatusCmd, StatusLocked, EndCmd, QuitInactive, Interrupt
<1>1. TypeOK'
  BY DEF TypeOK
<1>2. Numbered'
  BY NoEnvelopeMoves
<1>3. Consistent'
  BY DEF Consistent, Holding
<1>4. Retired'
  BY DEF Retired
<1> QED  BY <1>1, <1>2, <1>3, <1>4

\* end wipes the session the globals name, and clears them.
LEMMA EndLockedInv == ChatInv /\ EndLocked => ChatInv'
<1> SUFFICES ASSUME ChatInv, EndLocked PROVE ChatInv'
  OBVIOUS
<1>1. /\ main \in {"end", "quit"} /\ main' \in {"prompt", "exited"}
      /\ chain' = [chain EXCEPT ![session_state].wiped = TRUE]
      /\ session_state' = None /\ session_sock' = None
      /\ UNCHANGED <<session_active, started, threads>>
  BY DEF EndLocked, WipeState, MainGoes
<1>2. session_state \in Session /\ session_sock = session_state /\ ~session_active
  BY <1>1 DEF ChatInv, Consistent, Holding, TypeOK
<1>3. link \in [Session -> Link]
  BY DEF ChatInv, TypeOK, Link
<1>4. /\ link' \in [Session -> Link]
      /\ \A s \in Session : link'[s].inbox \in {link[s].inbox, << >>}
      /\ \A s \in Session : link'[s].arrived = link[s].arrived
  <2>1. PICK closed \in BOOLEAN :
           link' = [link EXCEPT ![session_sock].open = ~closed,
                                ![session_sock].inbox = IF closed THEN << >> ELSE @]
    BY DEF EndLocked
  <2> DEFINE l == [link[session_sock] EXCEPT !.open = ~closed]
             i == IF closed THEN << >> ELSE l.inbox
  <2>2. link' = [link EXCEPT ![session_sock] = [l EXCEPT !.inbox = i]]
    BY <2>1, Zenon
  <2>3. l \in Link /\ l.inbox = link[session_sock].inbox /\ l.arrived = link[session_sock].arrived
    <3>1. (~closed) \in BOOLEAN
      OBVIOUS
    <3> QED  BY <1>2, <1>3, <3>1, LinkUpdates
  <2> HIDE DEF l
  <2>4. i \in Seq(Envelope) /\ i \in {link[session_sock].inbox, << >>}
    BY <2>3 DEF Link
  <2> HIDE DEF i
  <2>5. /\ [l EXCEPT !.inbox = i] \in Link
        /\ [l EXCEPT !.inbox = i].inbox = i
        /\ [l EXCEPT !.inbox = i].arrived = l.arrived
    BY <2>3, <2>4, LinkUpdates
  <2> QED  BY <1>2, <1>3, <2>2, <2>3, <2>4, <2>5
<1>5. TypeOK'
  <2>1. chain' \in [Session -> Chain]
    BY <1>1, <1>2 DEF ChatInv, TypeOK, Chain
  <2> QED  BY <1>1, <1>4, <2>1 DEF ChatInv, TypeOK, Link, Chain, threads
<1>6. Numbered'
  BY <1>1, <1>4, RawTypes DEF ChatInv, Numbered, FromPeer, threads
<1>7. Consistent'
  <2>1. \A s \in Session : chain'[s].wiped => chain[s].wiped \/ s = session_state
    BY <1>1, <1>2 DEF ChatInv, TypeOK
  <2>2. session_state <= started
    BY <1>2 DEF ChatInv, Consistent, TypeOK, None, Session
  <2>3. \A s \in Session : chain'[s].wiped => s <= started' /\ s # session_state'
    BY <1>1, <2>1, <2>2 DEF ChatInv, Consistent, Session, None
  <2>4. started' \in Nat /\ None <= started'
    BY <1>1 DEF ChatInv, TypeOK, None
  <2> QED  BY <1>1, <1>2, <2>3, <2>4 DEF ChatInv, Consistent, Holding
<1>8. Retired'
  <2>1. \A s \in Session : chain'[s].spoiled = chain[s].spoiled
    BY <1>1, <1>2 DEF ChatInv, TypeOK
  <2> QED  BY <1>1, <2>1 DEF ChatInv, Retired
<1> QED  BY <1>5, <1>6, <1>7, <1>8 DEF ChatInv

\* A step that changes neither the globals, but for clearing the flag, nor where
\* the REPL thread is, nor what is wiped.
LEMMA ConsistentKept ==
    ASSUME TypeOK, Consistent, Retired,
           UNCHANGED <<session_state, session_sock, started, main>>,
           session_active' => session_active,
           \A s \in Session : /\ chain'[s].wiped = chain[s].wiped
                              /\ chain'[s].spoiled = chain[s].spoiled
    PROVE  Consistent' /\ Retired'
<1>1. Consistent'
  BY DEF Consistent
<1>2. Retired'
  BY DEF Retired, TypeOK
<1> QED  BY <1>1, <1>2

\* Steps of a receive thread outside recv and the lock.
LEMMA LoopInv ==
    ASSUME ChatInv, NEW t \in Session,
           LoopTest(t) \/ PeerLost(t) \/ ClearActive(t)
    PROVE  ChatInv'
<1> USE DEF ChatInv, Goes, globals, LoopTest, PeerLost, ClearActive
<1>1. TypeOK'
  BY DEF TypeOK, Reading
<1>2. Numbered'
  <2>1. \A r \in Session : recv'[r] = "recv" => recv[r] = "recv"
    BY DEF TypeOK
  <2> QED  BY <2>1, NoEnvelopeMoves
<1>3. Consistent' /\ Retired'
  BY ConsistentKept
<1> QED  BY <1>1, <1>2, <1>3

\* The socket a thread is about to read.
LEMMA LoadSockInv ==
    ASSUME ChatInv, NEW t \in Session, LoadSock(t)
    PROVE  ChatInv'
<1> USE DEF ChatInv, Goes, globals, LoadSock
<1>1. TypeOK'
  BY DEF TypeOK, Reading
<1>2. Numbered'
  <2>1. \A r \in Session : recv'[r] = "recv" => conn'[r] # None
    BY DEF TypeOK, Numbered
  <2> QED  BY <2>1 DEF Numbered, FromPeer
<1>3. Consistent' /\ Retired'
  BY ConsistentKept
<1> QED  BY <1>1, <1>2, <1>3

\* recv returns with an envelope, which the thread keeps or drops.
LEMMA RecvEnvelopeInv ==
    ASSUME ChatInv, NEW t \in Session, RecvEnvelope(t) \/ RecvMalformed(t)
    PROVE  ChatInv'
<1> DEFINE s == conn[t]
           e == Head(link[s].inbox)
           i == Tail(link[s].inbox)
           l == [link[s] EXCEPT !.inbox = i]
<1>1. /\ recv[t] = "recv" /\ recv' \in {[recv EXCEPT ![t] = "lock"], [recv EXCEPT ![t] = "check"]}
      /\ conn' = [conn EXCEPT ![t] = None]
      /\ link[s].inbox # << >>
      /\ link' = [link EXCEPT ![s] = l]
      /\ raw' \in {raw, [raw EXCEPT ![t] = e]}
      /\ UNCHANGED <<globals, started, main, chain>>
  BY DEF RecvEnvelope, RecvMalformed, Returns, Goes, Arrived
<1>2. s \in Session
  BY <1>1 DEF ChatInv, TypeOK, Numbered
<1>3. link \in [Session -> Link] /\ link[s] \in Link
  BY <1>2 DEF ChatInv, TypeOK, Link
<1>4. link[s].inbox \in Seq(Envelope)
  BY <1>3 DEF Link
<1>5. /\ e \in Envelope /\ i \in Seq(Envelope)
      /\ FromPeer(e, s, link[s].arrived)
      /\ \A k \in DOMAIN i : FromPeer(i[k], s, link[s].arrived)
  <2> DEFINE w == link[s].inbox
  <2>1. /\ Head(w) \in Envelope /\ Tail(w) \in Seq(Envelope) /\ Len(Tail(w)) = Len(w) - 1
        /\ \A k \in 1 .. Len(Tail(w)) : Tail(w)[k] = w[k + 1]
    BY <1>1, <1>4, HeadTailProperties
  <2>2. Len(w) \in Nat \ {0} /\ DOMAIN w = 1 .. Len(w) /\ DOMAIN Tail(w) = 1 .. Len(Tail(w))
    BY <1>1, <1>4, <2>1, EmptySeq, LenProperties
  <2>3. Head(w) = w[1]
    BY <1>4
  <2>4. \A k \in DOMAIN w : FromPeer(w[k], s, link[s].arrived)
    BY <1>2 DEF ChatInv, Numbered
  <2> HIDE DEF w
  <2>5. 1 \in DOMAIN w /\ \A k \in DOMAIN Tail(w) : k + 1 \in DOMAIN w
    BY <2>1, <2>2
  <2>6. /\ FromPeer(Head(w), s, link[s].arrived)
        /\ \A k \in DOMAIN Tail(w) : FromPeer(Tail(w)[k], s, link[s].arrived)
    BY <2>1, <2>2, <2>3, <2>4, <2>5
  <2> QED  BY <2>1, <2>6 DEF w
<1>6. l \in Link /\ l.inbox = i /\ l.arrived = link[s].arrived
  BY <1>3, <1>5, LinkUpdates
<1> HIDE DEF l, i, e
<1>7. TypeOK'
  <2>1. link' \in [Session -> Link]
    BY <1>1, <1>2, <1>3, <1>6
  <2>2. raw' \in [Session -> Envelope \cup {NoEnvelope}]
    BY <1>1, <1>5 DEF ChatInv, TypeOK
  <2>3. recv' \in [Session -> Reading \cup {"unborn", "done", "crashed"}]
    BY <1>1 DEF ChatInv, TypeOK, Reading
  <2>4. conn' \in [Session -> Session \cup {None}]
    BY <1>1 DEF ChatInv, TypeOK
  <2> QED  BY <1>1, <2>1, <2>2, <2>3, <2>4 DEF ChatInv, TypeOK, Link, globals
<1>8. Numbered'
  <2>1. \A r \in Session : link'[r].arrived = link[r].arrived
    BY <1>1, <1>2, <1>3, <1>6
  <2>2. \A r \in Session : recv'[r] = "recv" => conn'[r] # None
    BY <1>1 DEF ChatInv, TypeOK, Numbered
  <2>3. \A r \in Session : \A k \in DOMAIN link'[r].inbox :
           FromPeer(link'[r].inbox[k], r, link[r].arrived)
    BY <1>1, <1>2, <1>3, <1>5, <1>6 DEF ChatInv, Numbered
  <2>4. \A r \in Session : raw'[r] # NoEnvelope =>
           /\ raw'[r].session \in Session
           /\ FromPeer(raw'[r], raw'[r].session, link[raw'[r].session].arrived)
    <3>1. e.session = s
      BY <1>5 DEF FromPeer
    <3> QED  BY <1>1, <1>2, <1>5, <3>1, RawTypes DEF ChatInv, TypeOK, Numbered
  <2> QED  BY <2>1, <2>2, <2>3, <2>4 DEF Numbered
<1>9. Consistent' /\ Retired'
  BY <1>1, ConsistentKept DEF ChatInv, globals
<1> QED  BY <1>7, <1>8, <1>9 DEF ChatInv

\* recv raises.
LEMMA RecvRaisesInv ==
    ASSUME ChatInv, NEW t \in Session, RecvConnectionError(t) \/ RecvOSError(t)
    PROVE  ChatInv'
<1> USE DEF ChatInv, Returns, Goes, globals, RecvConnectionError, RecvOSError
<1>1. TypeOK'
  BY DEF TypeOK, Reading
<1>2. Numbered'
  <2>1. \A r \in Session : recv'[r] = "recv" => conn'[r] # None
    BY DEF TypeOK, Numbered
  <2> QED  BY <2>1 DEF Numbered, FromPeer
<1>3. Consistent' /\ Retired'
  BY ConsistentKept
<1> QED  BY <1>1, <1>2, <1>3

\* A count that is below another one can grow.
LEMMA NextBelow ==
    ASSUME NEW m \in Nat, NEW x \in 0 .. m, NEW y \in 0 .. m, x < y
    PROVE  x + 1 \in 0 .. m
OBVIOUS

\* The block under the lock: at most the next message is counted.
LEMMA LockedInv ==
    ASSUME ChatInv, NEW t \in Session,
           SessionGone(t) \/ AcceptLocked(t) \/ DropEnvelope(t)
    PROVE  ChatInv'
<1>1. /\ recv' \in {[recv EXCEPT ![t] = "done"], [recv EXCEPT ![t] = "check"]}
      /\ raw' = [raw EXCEPT ![t] = NoEnvelope]
      /\ UNCHANGED <<globals, started, main, conn, link>>
  BY DEF SessionGone, AcceptLocked, DropEnvelope, Locked, Goes
<1>2. /\ chain' \in [Session -> Chain]
      /\ \A s \in Session : /\ chain'[s].wiped = chain[s].wiped
                            /\ chain'[s].spoiled = chain[s].spoiled
  <2>1. CASE UNCHANGED chain
    BY <2>1 DEF ChatInv, TypeOK, Chain
  <2>2. CASE AcceptLocked(t)
    <3>1. /\ session_state \in Session
          /\ raw[t] # NoEnvelope /\ raw[t].session = session_state
          /\ raw[t].sequence = chain[session_state].received
          /\ chain' = [chain EXCEPT ![session_state].received = @ + 1]
      BY <2>2 DEF AcceptLocked, Opens, NoEnvelope, ChatInv, TypeOK
    <3>2. chain[session_state].received < link[session_state].arrived
      BY <3>1 DEF ChatInv, Numbered, FromPeer
    <3>3. /\ chain[session_state].received \in 0 .. MaxMessages
          /\ link[session_state].arrived \in 0 .. MaxMessages
      BY <3>1 DEF ChatInv, TypeOK
    <3>4. chain[session_state].received + 1 \in 0 .. MaxMessages
      BY <3>2, <3>3, ChatAssumption, NextBelow
    <3>5. chain \in [Session -> Chain]
      BY DEF ChatInv, TypeOK, Chain
    <3> DEFINE c == chain[session_state]
               d == [c EXCEPT !.received = c.received + 1]
    <3>6. chain' = [chain EXCEPT ![session_state] = d]
      BY <3>1, Zenon
    <3>7. d \in Chain /\ d.wiped = c.wiped /\ d.spoiled = c.spoiled
      BY <3>1, <3>4, <3>5 DEF Chain
    <3> QED
      <4> HIDE DEF d
      <4> QED  BY <3>1, <3>5, <3>6, <3>7
  <2> QED  BY <2>1, <2>2 DEF SessionGone, AcceptLocked, DropEnvelope
<1>3. TypeOK'
  BY <1>1, <1>2 DEF ChatInv, TypeOK, Reading, Chain, globals
<1>4. Numbered'
  <2>1. \A r \in Session : recv'[r] = "recv" => conn'[r] # None
    BY <1>1 DEF ChatInv, TypeOK, Numbered
  <2>2. \A r \in Session : raw'[r] # NoEnvelope => raw'[r] = raw[r]
    BY <1>1 DEF ChatInv, TypeOK
  <2> QED  BY <1>1, <2>1, <2>2 DEF ChatInv, Numbered, FromPeer
<1>5. Consistent' /\ Retired'
  BY <1>1, <1>2, ConsistentKept DEF ChatInv, globals
<1> QED  BY <1>3, <1>4, <1>5 DEF ChatInv

\* The peer sends its next message.
LEMMA PeerSendsInv ==
    ASSUME ChatInv, NEW s \in Session, PeerSends(s)
    PROVE  ChatInv'
<1> DEFINE w == link[s].inbox
           n == link[s].arrived + 1
<1>1. /\ link[s].arrived < MaxMessages
      /\ UNCHANGED <<globals, started, main, threads, chain>>
  BY DEF PeerSends
<1>2. PICK flaw \in {"none"} \cup Flaws :
         link' = [link EXCEPT
            ![s].inbox = Append(@, [session |-> s, sequence |-> link[s].arrived,
                                    flaw |-> flaw]),
            ![s].arrived = @ + 1]
  BY DEF PeerSends
<1> DEFINE e == [session |-> s, sequence |-> link[s].arrived, flaw |-> flaw]
           i == Append(w, e)
           l == [link[s] EXCEPT !.inbox = i]
<1>3. link \in [Session -> Link] /\ link[s] \in Link
  BY DEF ChatInv, TypeOK, Link
<1>4. /\ w \in Seq(Envelope) /\ link[s].arrived \in Nat /\ n \in 0 .. MaxMessages
  BY <1>1, <1>3, ChatAssumption DEF Link
<1>5. e \in Envelope
  BY <1>4, ChatAssumption DEF Envelope
<1>6. /\ i \in Seq(Envelope)
      /\ \A k \in DOMAIN i : i[k] = e \/ (k \in DOMAIN w /\ i[k] = w[k])
  <2> HIDE DEF w, e
  <2> QED  BY <1>4, <1>5, AppendProperties
<1>7. link' = [link EXCEPT ![s] = [l EXCEPT !.arrived = n]]
  <2>1. l.arrived = link[s].arrived
    BY <1>3 DEF Link
  <2> QED  BY <1>2, <2>1
<1>8. l \in Link /\ l.inbox = i
  BY <1>3, <1>6, LinkUpdates
<1>9. e.session = s /\ e.sequence = link[s].arrived /\ n = link[s].arrived + 1
  OBVIOUS
<1> HIDE DEF l, i, e, w, n
<1>10. /\ [l EXCEPT !.arrived = n] \in Link
      /\ [l EXCEPT !.arrived = n].inbox = i
      /\ [l EXCEPT !.arrived = n].arrived = n
  BY <1>4, <1>8, LinkUpdates
<1>11. link' \in [Session -> Link]
  BY <1>3, <1>7, <1>10
<1>12. /\ \A r \in Session : link'[r].arrived = IF r = s THEN n ELSE link[r].arrived
       /\ \A r \in Session : link'[r].inbox = IF r = s THEN i ELSE link[r].inbox
  BY <1>3, <1>7, <1>10
<1>13. \A r \in Session : \A y \in Envelope :
          FromPeer(y, r, link[r].arrived) => FromPeer(y, r, link'[r].arrived)
  <2>1. \A r \in Session : link[r].arrived \in Nat
    BY <1>3, ChatAssumption DEF Link
  <2>2. \A y \in Envelope : y.sequence \in Nat
    BY DEF Envelope
  <2> QED  BY <1>12, <1>9, <2>1, <2>2 DEF FromPeer
<1>14. TypeOK'
  BY <1>1, <1>11 DEF ChatInv, TypeOK, Link, globals, threads
<1>15. Numbered'
  <2>1. FromPeer(e, s, link'[s].arrived)
    BY <1>4, <1>12, <1>9 DEF FromPeer
  <2>2. \A r \in Session : \A k \in DOMAIN link[r].inbox :
           /\ link[r].inbox[k] \in Envelope
           /\ FromPeer(link[r].inbox[k], r, link'[r].arrived)
    <3>1. ASSUME NEW r \in Session, NEW k \in DOMAIN link[r].inbox
          PROVE  link[r].inbox[k] \in Envelope
      <4>1. link[r].inbox \in Seq(Envelope)
        BY <1>3 DEF Link
      <4> QED  BY <3>1, <4>1, ElementOfSeq, LenProperties
    <3> QED  BY <1>13, <3>1 DEF ChatInv, Numbered
  <2>3. \A r \in Session : \A k \in DOMAIN link'[r].inbox :
           FromPeer(link'[r].inbox[k], r, link'[r].arrived)
    BY <1>6, <1>12, <2>1, <2>2 DEF w
  <2>4. \A r \in Session : raw[r] # NoEnvelope =>
           FromPeer(raw[r], raw[r].session, link'[raw[r].session].arrived)
    BY <1>13, RawTypes DEF ChatInv, Numbered
  <2> QED  BY <1>1, <2>3, <2>4 DEF ChatInv, Numbered, threads
<1>16. Consistent' /\ Retired'
  BY <1>1, ConsistentKept DEF ChatInv, globals
<1> QED  BY <1>14, <1>15, <1>16 DEF ChatInv

\* The connection or the peer is lost.
LEMMA ConnectionFailsInv ==
    ASSUME ChatInv, NEW s \in Session, ConnectionFails(s)
    PROVE  ChatInv'
<1>1. PICK f \in Failures : link' = [link EXCEPT ![s] = [link[s] EXCEPT !.peer = f]]
  BY DEF ConnectionFails
<1>2. UNCHANGED <<globals, started, main, threads, chain>>
  BY DEF ConnectionFails
<1>3. link \in [Session -> Link] /\ f \in Failure
  BY ChatAssumption DEF ChatInv, TypeOK, Link
<1>4. /\ [link[s] EXCEPT !.peer = f] \in Link
      /\ [link[s] EXCEPT !.peer = f].inbox = link[s].inbox
      /\ [link[s] EXCEPT !.peer = f].arrived = link[s].arrived
  BY <1>3, LinkUpdates
<1>5. /\ link' \in [Session -> Link]
      /\ \A r \in Session : link'[r].inbox = link[r].inbox /\ link'[r].arrived = link[r].arrived
  BY <1>1, <1>3, <1>4
<1>6. TypeOK'
  BY <1>2, <1>5 DEF ChatInv, TypeOK, Link, globals, threads
<1>7. Numbered'
  BY <1>2, <1>5, RawTypes DEF ChatInv, Numbered, FromPeer, threads
<1>8. Consistent' /\ Retired'
  BY <1>2, ConsistentKept DEF ChatInv, globals
<1> QED  BY <1>6, <1>7, <1>8 DEF ChatInv

\* Every step keeps the invariant.
LEMMA NextInv == ChatInv /\ [Next]_vars => ChatInv'
<1> SUFFICES ASSUME ChatInv, [Next]_vars PROVE ChatInv'
  OBVIOUS
<1>1. CASE Command \/ HandshakeDone \/ HandshakeFailed \/ MainStep \/ Interrupt
  BY <1>1, StartInv, HandshakeDoneInv, SendInv, CommandInv, EndLockedInv
     DEF Command, MainStep
<1>2. CASE \E t \in Session : Receiver(t)
  BY <1>2, LoopInv, LoadSockInv, RecvEnvelopeInv, RecvRaisesInv, LockedInv DEF Receiver
<1>3. CASE \E s \in Session : PeerSends(s) \/ ConnectionFails(s)
  BY <1>3, PeerSendsInv, ConnectionFailsInv
<1>4. CASE UNCHANGED vars
  BY <1>4 DEF vars, globals, threads, ChatInv, TypeOK, Numbered, FromPeer, Consistent, Retired
<1> QED  BY <1>1, <1>2, <1>3, <1>4 DEF Next

\* The inductive invariant holds in every run of every instance.
THEOREM ChatInvariance == Spec => []ChatInv
<1>1. Init => ChatInv
  BY InitInv
<1>2. ChatInv /\ [Next]_vars => ChatInv'
  BY NextInv
<1> QED  BY <1>1, <1>2, PTL DEF Spec

\* Globals, threads and links keep their types; above all, a chain never counts
\* more messages than its peer sent.
THEOREM ChatTypes == Spec => []TypeOK
<1>1. ChatInv => TypeOK
  BY DEF ChatInv
<1> QED  BY <1>1, ChatInvariance, PTL

\* The flag of main_chat.py, tested and set without the lock, never claims a
\* session that is not set up or is already wiped.
THEOREM ActiveSessionsAreLive == Spec => []ActiveHasLiveSession
<1>1. ChatInv => ActiveHasLiveSession
  BY DEF ChatInv, TypeOK, Consistent, ActiveHasLiveSession
<1> QED  BY <1>1, ChatInvariance, PTL

\* _cmd_send, _cmd_status and _cmd_end, once they have the lock, find the session
\* they tested for, though they do not test again.
THEOREM CommandsFindTheirSession == Spec => []CommandFindsItsSession
<1>1. ChatInv => CommandFindsItsSession
  BY DEF ChatInv, TypeOK, Consistent, Holding, CommandFindsItsSession
<1> QED  BY <1>1, ChatInvariance, PTL

\* The test under the lock in _receive_loop is enough: no thread, however old,
\* counts a message in a session that end has wiped.
THEOREM WipedKeysUnused == Spec => WipedKeysStayUnused
<1>1. ChatInv /\ [Next]_vars =>
         [\A s \in Session : chain[s].wiped => chain'[s] = chain[s]]_vars
  <2> SUFFICES ASSUME ChatInv, Next, NEW s \in Session, chain[s].wiped
               PROVE  chain'[s] = chain[s]
    OBVIOUS
  <2>1. s # session_state
    BY DEF ChatInv, Consistent
  <2>2. chain \in [Session -> Chain]
    BY DEF ChatInv, TypeOK, Chain
  <2>3. CASE UNCHANGED chain
    BY <2>3
  <2>4. CASE EndLocked
    BY <2>1, <2>2, <2>4 DEF EndLocked, WipeState
  <2>5. CASE \E t \in Session : AcceptLocked(t)
    BY <2>1, <2>2, <2>5 DEF AcceptLocked
  <2>6. CASE SendLocked \/ SendRaises
    BY <2>1, <2>2, <2>6 DEF SendLocked, SendRaises
  <2> QED  BY <2>3, <2>4, <2>5, <2>6
             DEF Next, Command, MainStep, Receiver, StartCmd, SendCmd, StatusCmd, EndCmd,
                 QuitInactive, Interrupt, SendOverflows, HandshakeDone, HandshakeFailed, StoreGlobals, Activate,
                 SpawnReceiver, SendFailed, StatusLocked,
                 LoopTest, LoadSock, RecvEnvelope, RecvMalformed, RecvConnectionError,
                 RecvOSError, Returns, PeerLost, ClearActive, SessionGone, DropEnvelope,
                 PeerSends, ConnectionFails
<1> QED  BY <1>1, ChatInvariance, PTL DEF Spec, WipedKeysStayUnused
-----------------------------------------------------------------------------
(* The sessions of the process live as SessionLifecycle says *)

LVars == <<started, Mode, chain>>

\* What Mode says of each state, without its CASE.
LEMMA Modes ==
    ASSUME session_active \in BOOLEAN
    PROVE  /\ session_active => Mode = "live"
           /\ ~session_active /\ session_state = None => Mode = "none"
           /\ ~session_active /\ session_state # None /\ main = "activate" => Mode = "new"
           /\ ~session_active /\ session_state # None /\ main # "activate" => Mode = "lost"
BY DEF Mode

\* A step that leaves the sessions alone maps to a stutter: only the flag, the globals
\* and the places around "activate" bear on the mode.
LEMMA ModeKept ==
    ASSUME session_active \in BOOLEAN,
           UNCHANGED <<session_active, session_state, started, chain>>,
           main # "activate", main' # "activate"
    PROVE  UNCHANGED LVars
BY DEF LVars, Mode

\* A step that does no more than clear the flag loses the session, if it was live.
LEMMA FlagCleared ==
    ASSUME ChatInv, session_active' = FALSE,
           UNCHANGED <<session_state, started, chain>>,
           main' = main \/ "activate" \notin {main, main'}
    PROVE  Lifecycle!Lose \/ UNCHANGED LVars
<1>1. session_active \in BOOLEAN /\ session_active' \in BOOLEAN
  BY DEF ChatInv, TypeOK
<1>2. CASE session_active
  <2>1. session_state # None /\ main # "activate"
    BY <1>2 DEF ChatInv, Consistent
  <2>2. Mode = "live"
    BY <1>2 DEF Mode
  <2>3. Mode' = "lost"
    BY <2>1 DEF Mode
  <2> QED  BY <2>2, <2>3 DEF Lifecycle!Lose, Lifecycle!Becomes
<1>3. CASE ~session_active
  BY <1>1, <1>3 DEF LVars, Mode
<1> QED  BY <1>1, <1>2, <1>3

\* StoreGlobals begins a session, Activate opens it.
LEMMA BeginMaps == ChatInv /\ StoreGlobals => Lifecycle!Begin
<1> SUFFICES ASSUME ChatInv, StoreGlobals PROVE Lifecycle!Begin
  OBVIOUS
<1>1. /\ main = "store" /\ main' = "activate" /\ ~session_active
      /\ started' = started + 1 /\ session_state' = started + 1
      /\ UNCHANGED <<session_active, chain>>
  BY DEF StoreGlobals, MainGoes, ChatInv, Consistent
<1>2. started \in Nat /\ started + 1 \in Session /\ session_state' # None
  BY <1>1, ChatAssumption DEF ChatInv, TypeOK, Consistent, Session, None
<1>3. Mode \in {"none", "lost"}
  BY <1>1 DEF Mode
<1>4. Mode' = "new"
  BY <1>1, <1>2 DEF Mode
<1> QED  BY <1>1, <1>2, <1>3, <1>4 DEF Lifecycle!Begin

LEMMA OpenMaps == ChatInv /\ Activate => Lifecycle!Open
<1> SUFFICES ASSUME ChatInv, Activate PROVE Lifecycle!Open
  OBVIOUS
<1>1. /\ main = "activate" /\ ~session_active /\ session_state # None
      /\ session_active' /\ UNCHANGED <<started, chain>>
  BY DEF Activate, MainGoes, ChatInv, Consistent, Holding
<1>2. Mode = "new"
  BY <1>1 DEF Mode
<1>3. Mode' = "live"
  BY <1>1 DEF Mode
<1> QED  BY <1>1, <1>2, <1>3 DEF Lifecycle!Open, Lifecycle!Becomes

\* A send that holds the lock moves or spoils the outbound chain of the latest session,
\* whose current key is fresh.
LEMMA SendMaps == ChatInv /\ (SendLocked \/ SendRaises) => Lifecycle!Send \/ Lifecycle!FailToSend
<1> SUFFICES ASSUME ChatInv, SendLocked \/ SendRaises
             PROVE  Lifecycle!Send \/ Lifecycle!FailToSend
  OBVIOUS
<1>1. /\ main = "send" /\ main' # "activate"
      /\ UNCHANGED <<session_active, session_state, started>>
  BY DEF SendLocked, SendRaises, MainGoes, globals
<1>2. /\ session_state = started /\ session_state # None
      /\ ~chain[started].spoiled
      /\ session_active \in BOOLEAN
  BY <1>1 DEF ChatInv, TypeOK, Consistent, Retired, Holding
<1>3. Mode \in {"live", "lost"}
  BY <1>1, <1>2 DEF Mode
<1>4. Mode' = Mode
  BY <1>1, <1>2 DEF Mode
<1>5. CASE SendLocked
  BY <1>1, <1>2, <1>3, <1>4, <1>5 DEF SendLocked, Lifecycle!Send
<1>6. CASE SendRaises
  BY <1>1, <1>2, <1>3, <1>4, <1>6 DEF SendRaises, Lifecycle!FailToSend
<1> QED  BY <1>5, <1>6

\* Only end wipes, and only the session that it or somebody else has lost.
LEMMA WipeMaps == ChatInv /\ EndLocked => Lifecycle!Wipe
<1> SUFFICES ASSUME ChatInv, EndLocked PROVE Lifecycle!Wipe
  OBVIOUS
<1>1. /\ main \in {"end", "quit"}
      /\ chain' = [chain EXCEPT ![session_state].wiped = TRUE]
      /\ session_state' = None
      /\ UNCHANGED <<session_active, started>>
  BY DEF EndLocked, WipeState, MainGoes
<1>2. session_state = started /\ session_state # None /\ ~session_active
  BY <1>1 DEF ChatInv, Consistent, Holding
<1>3. Mode = "lost"
  BY <1>1, <1>2 DEF Mode
<1>4. Mode' = "none"
  BY <1>1, <1>2 DEF Mode
<1> QED  BY <1>1, <1>2, <1>3, <1>4 DEF Lifecycle!Wipe

\* A receive thread that counts a message does so in the latest session, while it lives.
LEMMA ReceiveMaps ==
    ASSUME ChatInv, NEW t \in Session, AcceptLocked(t)
    PROVE  Lifecycle!Receive
<1>1. /\ session_active /\ session_state # None
      /\ chain' = [chain EXCEPT ![session_state].received = @ + 1]
      /\ UNCHANGED <<session_active, started>>
  BY DEF AcceptLocked, Locked, Goes, globals
<1>2. session_state = started
  BY <1>1 DEF ChatInv, Consistent
<1>3. Mode = "live"
  BY <1>1 DEF Mode
<1>4. Mode' = "live"
  BY <1>1 DEF Mode
<1> QED  BY <1>1, <1>2, <1>3, <1>4 DEF Lifecycle!Receive

\* Ctrl-C: a session that was not yet activated is lost, any other stays what it was.
LEMMA InterruptMaps == ChatInv /\ Interrupt => Lifecycle!Lose \/ UNCHANGED LVars
<1> SUFFICES ASSUME ChatInv, Interrupt PROVE Lifecycle!Lose \/ UNCHANGED LVars
  OBVIOUS
<1>1. main' = "exited" /\ UNCHANGED <<session_active, session_state, started, chain>>
  BY DEF Interrupt, globals
<1>2. session_active \in BOOLEAN
  BY DEF ChatInv, TypeOK
<1>3. CASE main = "activate"
  <2>1. ~session_active /\ session_state # None
    BY <1>3 DEF ChatInv, Consistent, Holding
  <2>2. Mode = "new"
    BY <1>3, <2>1 DEF Mode
  <2>3. Mode' = "lost"
    BY <1>1, <2>1 DEF Mode
  <2> QED  BY <1>1, <2>2, <2>3 DEF Lifecycle!Lose, Lifecycle!Becomes
<1>4. CASE main # "activate"
  BY <1>1, <1>2, <1>4, ModeKept
<1> QED  BY <1>3, <1>4

\* The steps of receive threads and of the network that touch no session.
LEMMA OthersMap ==
    ASSUME ChatInv,
           UNCHANGED <<session_active, session_state, started, main, chain>>
    PROVE  UNCHANGED LVars
BY DEF LVars, Mode

\* Every step is a step of SessionLifecycle or a stutter of it.
LEMMA StepMaps == ChatInv /\ [Next]_vars => [Lifecycle!Next]_LVars
<1> SUFFICES ASSUME ChatInv, [Next]_vars PROVE Lifecycle!Next \/ UNCHANGED LVars
  OBVIOUS
<1>1. CASE StoreGlobals \/ Activate
  BY <1>1, BeginMaps, OpenMaps DEF Lifecycle!Next
<1>2. CASE SendLocked \/ SendRaises \/ EndLocked
  BY <1>2, SendMaps, WipeMaps DEF Lifecycle!Next
<1>3. CASE SendFailed \/ EndCmd
  BY <1>3, FlagCleared DEF SendFailed, EndCmd, MainGoes, Lifecycle!Next
<1>4. CASE \/ StartCmd \/ HandshakeDone \/ HandshakeFailed
           \/ SendCmd \/ StatusCmd \/ StatusLocked \/ SendOverflows \/ QuitInactive
  BY <1>4, ModeKept DEF StartCmd, HandshakeDone, HandshakeFailed, SendCmd, StatusCmd,
     StatusLocked, SendOverflows, QuitInactive, MainGoes, globals, ChatInv, TypeOK
<1>5. CASE SpawnReceiver \/ Interrupt
  BY <1>5, ModeKept, InterruptMaps
     DEF SpawnReceiver, MainGoes, globals, ChatInv, TypeOK, Lifecycle!Next
<1>6. CASE \E t \in Session : Receiver(t)
  <2> PICK t \in Session : Receiver(t)
    BY <1>6
  <2>1. CASE AcceptLocked(t)
    BY <2>1, ReceiveMaps DEF Lifecycle!Next
  <2>2. CASE ClearActive(t)
    BY <2>2, FlagCleared DEF ClearActive, Goes, Lifecycle!Next
  <2>3. CASE ~(AcceptLocked(t) \/ ClearActive(t))
    BY <2>3, OthersMap
       DEF Receiver, LoopTest, LoadSock, RecvEnvelope, RecvMalformed, RecvConnectionError,
           RecvOSError, Returns, PeerLost, SessionGone, DropEnvelope, Locked, Goes, globals
  <2> QED  BY <2>1, <2>2, <2>3
<1>7. CASE \E s \in Session : PeerSends(s) \/ ConnectionFails(s)
  BY <1>7, OthersMap DEF PeerSends, ConnectionFails, globals
<1>8. CASE UNCHANGED vars
  BY <1>8, OthersMap DEF vars
<1> QED  BY <1>1, <1>2, <1>3, <1>4, <1>5, <1>6, <1>7, <1>8 DEF Next, Command, MainStep

\* The process implements SessionLifecycle: its sessions follow each other, only the
\* latest is ever sent in, received in or wiped, none is taken up again, and nothing is
\* sealed under a key whose send failed.
THEOREM LifecycleHolds == Spec => ImplementsLifecycle
<1>1. Init => Lifecycle!Init
  BY DEF Init, Lifecycle!Init, Lifecycle!Fresh, Mode
<1>2. ChatInv /\ [Next]_vars => [Lifecycle!Next]_(Lifecycle!vars)
  BY StepMaps DEF LVars, Lifecycle!vars
<1> QED  BY <1>1, <1>2, ChatInvariance, PTL DEF Spec, ImplementsLifecycle, Lifecycle!Spec
=============================================================================
