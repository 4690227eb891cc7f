# A verification project for the DKE hybrid messaging engine

TLA+ models of the Dynamic Key Evolution (DKE) engine and of the chat program built
on it, TLC runs that check them on small instances, and theorems that TLAPS proves
for every value of the constants. Paths below are those of the repository; TAD is
`TECHNICAL_ARCHITECTURE.md`.

## 1. The system

| Part | State | Operations | Interacts with |
|---|---|---|---|
| Ratchet engine, `dke_engine.py` | per session two `DirectionState`s: key, sequence number, last nonce | `from_k0`, `outbound_params`, `rotate_send`, `inbound_key`, `rotate_receive`, `validate_sequence`, `advance_key`, `wipe` | called under `_lock` by the chat process |
| Envelope and AEAD, `protocol.py` | none | `encode_envelope`, `decode_envelope`, `encrypt`, `decrypt` | pure functions on bytes |
| Primitives, `crypto_core.py` | none | X25519, HKDF, Ed25519 signing and verifying | called in the handshake |
| Handshake, `main_chat.py:283-457` | one TCP connection, one ephemeral key pair per side | listen, accept, connect, send and read 96 bytes, verify, derive | two processes over the network |
| Chat process, `main_chat.py:465-869` | globals `_session_state`, `_session_sock`, the event `_session_active`, `_lock`, one receive thread per session | `start`, `send`, `status`, `end`, `quit`, the receive loop | REPL thread and receive threads share the globals; two processes share a connection |
| Transport, `main_chat.py:193-275` | the byte stream | `_recv_exactly`, `_recv_envelope`, `_send_envelope` | a "dumb pipe" that nobody trusts |
| Browser simulator, `app.js` | `sessionState` of one page: both parties' keys, counters, log | start, end, send, tamper | asynchronous click handlers around `crypto.subtle` |
| `demo_e2e.py`, `benchmark.py`, `tests/` | none of their own | scripts over the engine | |
| `copyright-submission/`, `web/` | older and duplicate copies | | |

What is hard in it:

* **Two chains that nobody synchronises.** Every message must leave both ends with
  the same next key though they compute it at different times. One lost message
  stops a direction; a header is not authenticated; a genuine message may be
  dropped because its nonce repeats.
* **Threads that share globals.** The flag `_session_active` is set, cleared and
  tested outside the lock, and the receive loop reads `_session_sock` outside it,
  while `start` and `end` replace sessions under its feet.
* **Half-finished steps.** Sockets raise between two steps, the connector has a
  session before the listener has verified it, peers vanish or stay silent.
* **A stream of bytes.** `recv` returns any part, `sendall` blocks when the buffers are
  full, and it does so under the lock that the receive thread needs.
* **Asynchrony in the page.** Handlers of `app.js` read state, await, and write.

What makes the parts correct:

* engine and protocol: what is shown is a prefix of what was sent; both ends of a
  chain agree; no key seals two messages; used keys are out of reach;
* handshake: with a pinned identity only the peer's key counts, both ends agree on
  K0, and neither end waits for ever or keeps half a session;
* chat process: the flag tells the truth about the session, commands find the session
  they tested for, wiped keys stay unused, threads end with their session, disconnects
  are noticed, a key whose send failed seals nothing more;
* transport: envelopes are cut where they begin; a blocked send goes on;
* page: a direction that nobody disturbs stays in step; keys die with their session.

`PROJECT.json` lists every component, and the hazards with their lines.

## 2. The modules

| Module | Models | Rests on |
|---|---|---|
| `DKEEngine` | `dke_engine.py` as operators on the session state | |
| `Protocol` | `protocol.py`: what encrypt, decrypt, encode and decode accept | `DKEEngine` |
| `Ratchet` | two parties, the relay between them: `Send`, `Receive` in its five outcomes, relay faults | `Protocol` |
| `PrefixDelivery` | the abstract specification: each side hears a prefix of what the other said | |
| `RatchetSecrecy` | what held keys give away; the properties about it | `Ratchet` |
| `MCRatchet` | the fault budgets TLC uses | `RatchetSecrecy` |
| `Handshake` | `start --listen` and `start --connect` against each other | |
| `ChatSession` | one chat process: the REPL thread, its receive threads, the globals | |
| `SessionLifecycle` | the abstract specification of such a process: its sessions and what becomes of them, without threads, flags, locks and sockets | |
| `Wire` | two processes with a running session and the bytes between them | |
| `WebSim` | `app.js`: both parties in one page, between the awaits | |
| `RatchetProofs`, `RatchetSecrecyProofs`, `RatchetDeliveryProofs`, `HandshakeProofs`, `ChatSessionProofs`, `WireProofs`, `WebSimProofs` | the proofs | the module they are named for |

**DKEEngine, Protocol.** A key is the sequence of steps hashed into K0. This makes
SHA-256 an injective one-way function: two keys are equal iff they have the same
history, and a key leads to those it is a prefix of. A ciphertext is known by what
opens it. `decrypt` gets no associated data, so the header is outside of it, and the
relay may change it.

**Ratchet.** `Send` is the whole of `_cmd_send`'s locked block, and `Receive` one
iteration of `_receive_loop`: `DropMalformed` (ParseError), `DropOutOfSequence`
(SequenceError), `DropUnauthentic` (InvalidTag), `DropNonceReuse` (the ValueError of
`rotate_receive`) and `Accept`. `sent` is a history; `displayed` is what the user
sees. Locking makes each of these one step of the process; the races between
threads are `ChatSession`'s subject, the blocking is `Wire`'s.

**Handshake.** `NextStep` holds the order of the steps of each role. `Pins` is what the
users may give as `--peer-key`. An end whose handshake raises is closed, explicitly
or when `_cmd_start` drops the last reference. Ctrl-C is not an `Exception`, so it
ends the process: `Interrupt`. A port that cannot be bound is `ListenFails`. The kernel completes a connection before `accept`
returns, so `Connect` and `Accept` are two steps.

**ChatSession.** Each access to the flag or to `_session_sock` outside the lock is a
step of its own; a block under `_lock` is one step. The n-th session has the n-th
socket, state and thread; threads of older sessions may still run. Failures:
`eof` (the peer closed), `reset`, and `unreachable` (an OSError that is no
ConnectionError, such as a timed-out connection). Envelopes may have flaws. Whether
an envelope opens is decided as in `Ratchet`: the right session and the next
sequence number. `chain[s]` is the `DKESessionState` of session `s`: its two
counters, whether it was wiped, and the history variable `spoiled`: a send failed
after its key was used, and `rotate_send` was skipped. `SendOverflows` is the
ValueError of `encode_envelope` at `SeqLimit`, which nobody catches; `Interrupt` is
Ctrl-C anywhere but at the prompt. Both end the process.

**SessionLifecycle.** Sessions follow each other; the latest is new, live or lost, and
only the latest moves: it counts what it sends and receives, it may be spoiled, after
which it seals nothing, and it may be wiped. A send that found the session live may
finish after it was lost. The refinement maps the flag, `session_state` and the place
of the REPL thread to the mode (`Mode`), and `chain` to the sessions.

**Wire.** A byte is its place in the stream of its sender, so no contents are kept.
`TakeLockAndSend`, `SendAll` (any number of bytes for which the kernels have room) and
`SendReturns` are `_cmd_send`; `main = "sending"` means that the lock is held.
`RecvExactly`, `HeaderAccepted`, `HeaderRefused`, `Decoded`, `NotDecoded` and the two
`...Locked` actions are `_recv_envelope` and the loop around it. A header read where
no envelope begins is ciphertext, whose length field may say anything; the cap of `_recv_envelope` bounds what
is buffered even then (`OneEnvelopeHeld`). Both
processes have the same code, so the two streams differ in the sender's name only.

**WebSim.** An action is a stretch of `sendMessage` between two awaits; `send[h].at` says
which call the h-th invocation awaits, and its other fields are the locals it carries
across. `importKey` copies the key when it is called, hence `copy`. The buttons stay
enabled while handlers await, so `Clicks` may come in between. `disturbed` is a
history variable that names the three things after which a direction may be out of
step: an overlap, a tampered message, a survivor of an earlier session. The page's
magic `DKEM` and its sequence numbers from 1 differ from `protocol.py`, with which it
never talks.

## 3. The runs

| Run | Instance | Shows |
|---|---|---|
| `ratchet_relay` | 2 messages each way, 4 nonces, 2 faults towards bob | `TypeOK`, `ChainsAgree`, `CrossMatch`, `EachKeySealsOneMessage`, `ForwardSecrecy`, the inductive invariant `SecrecyInv`, `NothingRefused`; with fairness `EverySentIsDisplayed` for the direction without faults |
| `ratchet_repeats` | 2 messages each way, 2 nonces that may repeat, 2 texts, a fault each way | `ImplementsPrefixDelivery` (refinement), `StuckForGood` |
| `session_threads` | 2 sessions, 1 message each way in each, resets at any moment, malformed envelopes, Ctrl-C, the sequence limit | `ActiveHasLiveSession`, `CommandFindsItsSession`, `WipedKeysStayUnused`, `ImplementsLifecycle` (refinement); with fairness `EndStopsReceiver`, `DisconnectIsNoticed` |
| `handshake_ends` | all 16 choices of pins, 2 damaged payloads, interrupts, silence | `PinnedPeerIsGenuine`, `Agreement`, `NobodyWaitsInVain`; with fairness `HandshakeEnds`, `RefusalIsNoticed` |
| `wire_stream` | 2 messages each, acceptable or oversized, buffers smaller than an envelope | `NothingLost`, `OneEnvelopeHeld`, `DeadlockTakesTwoEach`, `OnlyThatStopsThem`; with fairness `SendReturnsUnlessDeadlocked`, `DisplayedUnlessDeadlocked` |
| `web_page` | 2 sessions, 3 messages of either party, tampering | `InStepWhenQuiet`, `KeysDieWithSession`; with fairness `UndisturbedIsShown` |

**Bounds.** Two messages per direction make every relation between a message and its
successor happen: first and later message, a loss with a successor in flight,
repetition, overtaking, damage, the two chains at different places. Two faults allow
a fault upon a fault. Two nonces that may repeat reach the nonce check on both sides
of its exception for the first message. `SeqLimit` stands for 2^64. Two sessions are
what a stale thread or handler needs (`MaxSessions`); three messages in the page
(`MaxSends`) are an overlap and one that follows it, or a survivor and one message
each way. `session_threads` fails connections by `reset` only, which `recv` may report
before or after the data that arrived, so the reads of an `eof` are among its
behaviours; with all three failures the state space, 278,813 states as it is, grows
beyond what a routine check can afford. `eof` and `unreachable` happen in
`session_discard` and `session_stale`, and the theorems hold for every set of
failures. In `Wire`, `HEADER_SIZE` 2, `TAG_SIZE` 1, `MAX_CIPHERTEXT_SIZE` 1 and
`Capacity` 2 stand for 30, 16, 64 MB and the socket buffers: what counts is that a header can be
torn, that the ciphertext and tag of an oversized envelope are long enough to be
taken for a header, and that an envelope does not fit the buffers. The theorems
remove these bounds for the safety properties of the runs. No run stops on a
deadlock check: every model may rightly stop, when users have said all they may, a
process has exited, or, in `Wire`, both sends are stuck, which the properties there
speak of.

**Fairness.** Weak fairness on what threads do by themselves: the receive loop, the
commands of the REPL once begun, a `sendall` with room, the steps of a handshake, the
settling of the page's promises. Users need not type or click, peers need not send,
networks need not fail or recover, so there is none on these. The receive
loop competes with the REPL for the lock; weak fairness is enough since a user sends
finitely many messages (`MaxSent`), after which the lock stays free.

`DeadlockTakesTwoEach` and the two liveness properties of `wire_stream` are about a defect
that no document denies: `_cmd_send` keeps `_lock` during `sendall`. When each user
sends a further message, for which the buffers have no room, while the one before it
was read at the other end and waits for the lock there, both processes stop for good.
The properties say what it takes to happen, that no other state in which a lock is
held stops the threads (`OnlyThatStopsThem`), and that nothing else stops a send.

### Where code and documents part

Six runs check a sentence of the repository that the code does not keep:

* `session_discard`: "Peer disconnect → session state discarded" (`main_chat.py:75`,
  TAD section 7). When the connection is lost the flag is cleared; keys and socket
  stay, and `end`, which would wipe them, refuses since the flag is down. After an
  OSError that is no ConnectionError even the flag stays, and nobody receives.
* `session_stale`: the receive loop "runs until the peer disconnects or the session
  is ended locally" (`main_chat.py:468`). It tests one flag for all sessions, and can
  read the next session's socket.
* `handshake_stall`: a peer that does not answer is met by a "Timeout in
  `main_chat.py`" (TAD section 7). The timeout is for connecting only.
* `ratchet_k0`: "Compromise of Ki does not expose messages encrypted under
  K0...K(i-1)" (TAD section 5.2). K0 is in two buffers and leaves the second only
  when that direction moves. `ForwardSecrecy` is what does hold.
* `wire_oversize`: after a ParseError "only the individual message is dropped"
  (`protocol.py:115`). After an oversized length the body stays in the stream and is
  read as headers, which may swallow the envelopes behind it.
* `web_overlap`: "Every message advances the key chain" (`index.html:40`). Two messages
  sent without waiting are sealed under one key and advance it once.

## 4. The proofs

TLAPS proves the following from the assumptions the modules name: `ZeroNonce` is a
nonce, `SeqLimit` is positive, K0 is a key, budgets, bounds and sizes are naturals,
a header and the buffers are not empty, `Pins` are pins.

**Ratchet.** `ChainsAgree` is not inductive: that a ciphertext which opens was the next
of the peer's chain needs to know how a sender's chain grew and where ciphertexts
come from. `IndInv` adds both: `SenderChain` (each key is its predecessor advanced by
the message sent under it, so a key's length is its place), `WireGenuine` (what
arrives intact was sealed by the peer) and `DisplayedIsSent`. A key that opens a
message has the receiver's length, so the message is the one at the receiver's place.
From this follow `ChainsAlwaysAgree`, `TypeCorrect` and `PrefixDeliveryHolds`, the
refinement: each `Send` is a `Say`, each `Accept` a `Hear`, everything else a stutter.

**Secrecy.** `SecrecyInv` adds that fresh nonces are apart and that each key keeps its
chain's first step. Two chains with different first steps share no key but K0 and
none leads to the other's (`EachKeyIsUsedOnce`, `ForwardSecrecyHolds`).

**Delivery.** `CrossInv` adds that where the relay made no fault, what is in transit is
what was sent and not yet accepted. Then the head of the stream is the message that
is due, and none of the four ways to drop it applies: `KeysCrossMatch`, the session
invariant of `dke_engine.py`. `FaithfulRelayLosesNothing` says the same of the whole
stream: what is in transit is the rest of what was sent, message by message, so a
receiver refuses nothing that a faithful relay brings. This is what is safe in
`EverySentIsDisplayed`; that the last of it arrives takes fairness. `StuckIsForGood` is the other side: later messages are
sealed with longer keys and damage makes nothing acceptable.

**Handshake.** `HandshakeInv` says that damage destroys a signature but does not move
it to another key, that nobody derives before verifying, and that a key comes from
the payload read. `PinnedPeersAreGenuine` and `EndsAgree` follow. `NobodyWaits` proves the safe half of
`HandshakeEnds`: whoever waits for a payload waits for a peer that can still bring it
or has closed. It is inductive only with `InTurn`, which says how far each side has
come when the other's payload is under way: alice writes before she reads, bob reads
and verifies before he writes.

**Chat process.** `ChatInv` ties what the globals name to where the REPL thread is: while
it is past `start` and not yet wiping, they name the last session, which is not
wiped. That receive threads clear the flag at any time then does no harm, because
no command gives the globals another meaning in between. `Consistent`, `Numbered`
and `Retired` are its parts. `Retired` is what the refinement needs: a session is
spoiled only while the REPL thread is about to clear the flag, or when the flag is
down and no send is under way. `LifecycleHolds` then goes through the steps: the send,
receive and wipe of a session are those of `SessionLifecycle`, a flag cleared from
anywhere is a `Lose`, and a thread that clears the flag of a session not its own only
makes it lost earlier.

**Wire.** `WireInv` follows one stream: its bytes are received after they are written and
no more are under way than the buffers hold (`BytesInOrder`), envelopes lie end to end (`Laid`), what has been
taken of the current one depends on what the thread waits for, and the length it
works with is that of the envelope that begins there, if one does (`Reading`). The
receiver whose peer is blocked waits for the lock with a whole envelope taken, so it
is a later one that the blocked send is stuck in: `DeadlockNeedsTwoEach`. That the
length worked with is within the cap, also where a header is misread, gives
`HeldIsBounded`.
`OnlyDeadlockStops` goes through every way in which two REPL threads, two receive
threads and two full connections can wait for each other and finds that one.
`DeadlockIsForGood` is about what comes after it: no step of the model leads out of
it, so a process has to be killed.

**Page.** Being in step when quiet says nothing of the moments in between. `WebInv` does:
an undisturbed direction has at most one handler, and where it is tells how far the
receiver is behind the sender (`Phase`). A handler of one direction never writes
the other's keys (`OtherDirection`), so one direction is looked at at a time. The bounds
on the counters in `TypeOK` say how often handlers may write, which no place of a
single handler shows. `Counted` counts them: a counter and the handlers that may
still raise it are together no more than the clicks on send, plus the one it starts
from.

Every invariant, every action property and both refinements of the passing runs are
proved. Model-checked only are the liveness properties, since fairness and ENABLED
are beyond the prover: `EverySentIsDisplayed`, `EndStopsReceiver`, `DisconnectIsNoticed`,
`HandshakeEnds`, `RefusalIsNoticed`, `SendReturnsUnlessDeadlocked`,
`DisplayedUnlessDeadlocked` and `UndisturbedIsShown`. `NothingRefused`,
`NobodyWaitsInVain` and `OnlyThatStopsThem` are what is safe in three of them. No
module has RECURSIVE operators; chains are described step by step, so no induction
over data is needed.

Operators introduced by a comment that begins with "Bug" are wrong variants of the
definition that follows them. They are not part of the model: putting one in place
of its definition makes a run fail, which shows that the property guards against it.

## 5. What is not modelled

* The values of an envelope's fields and their formatting; only sizes and what is
  accepted. A false magic, version or flag is one kind of damage.
* Key buffers byte by byte: a state that was rotated no longer holds the old key, and a
  wiped session holds none. Copies that Python makes of them. In the page,
  `state.k0`, which is kept for display until the session ends.
* Two threads that tear one envelope apart. A receive thread that outlived its session
  may read the next one's socket (`session_stale`); `ChatSession` lets each of the two
  take whole envelopes.
* Payloads of earlier connections. `Handshake` has one connection, so one ephemeral key
  of each party; the relay damages its payloads or falls silent, and repeats none.
* The strength of the primitives: SHA-256 is injective, AES-GCM opens under its own
  key and nonce only, a signature verifies for its signer and its key only.
* `demo_e2e.py`: one thread sends and receives for both parties in a fixed order, a
  run that `Ratchet` contains. Its own is a start-up that sleeps 80 ms instead of
  waiting for the listener, and wall-clock time is not in the models.
* Parsing of commands, printing, the benchmark, the tests, styles, packaging, the
  wire view, the copy buttons and dialogs of the page: no state of a session.
* `copyright-submission/` and `web/`: copies of the same sources.
* "Backward secrecy" (`README.md:7`) is not checked: nothing secret enters the chain
  after K0, so there is nothing to search for.

## 6. Plan

1. *(done)* the ratchet, its promise and its proofs; the chat process; the handshake.
2. *(done)* `WebSim`: `app.js`, one action per stretch between two awaits.
3. *(done)* `Wire`: two processes with bounded buffers, the framing of the stream and the
   lock held over `sendall`.
4. *(done)* proofs of every safety property of the runs, the refinement of
   `SessionLifecycle`, and what is safe in the liveness of handshake, relay and wire.
5. Open: `ChatSession` composed with `DKEEngine` instead of message counters, and a
   refinement of the page by the promise of a direction.
