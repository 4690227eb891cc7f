------------------------------- MODULE WebSim -------------------------------
(***************************************************************************)
(* app.js: the simulator of both parties in one page.  JavaScript runs one *)
(* handler at a time up to its next await, so an action is a stretch       *)
(* between two awaits.  crypto.subtle works in parallel and settles its    *)
(* promises in any order, and clicks come in between.                      *)
(*                                                                         *)
(* importKey copies the key when it is called, so a handler awaits with a  *)
(* copy.  sentCount and recvCount move with outSeq and inSeq.             *)
(***************************************************************************)
EXTENDS Naturals, Sequences

CONSTANTS
    MaxSessions,  \* bound: sessions started in the life of the page
    MaxSends      \* bound: messages sent in the life of the page

ASSUME WebAssumption ==
    /\ MaxSessions \in Nat
    /\ MaxSends \in Nat

Party == {"alice", "bob"}
Other(p) == IF p = "alice" THEN "bob" ELSE "alice"

Sends == 1 .. MaxSends  \* a send stands for its nonce, too

\* A key is a sequence: its session, then the nonces hashed in since.
Null == << >>

VARIABLES
    active,     \* state.active
    party,      \* state.alice and state.bob
    sessions,   \* how many sessions were started
    clicks,     \* how many sends were begun
    send,       \* send[h]: the h-th call of sendMessage
    shown,      \* the sends whose text the receiver's transcript shows
    disturbed   \* disturbed[p]: see Disturbs; a history variable

vars == <<active, party, sessions, clicks, send, shown, disturbed>>

Awaiting == {"encrypting", "rotating", "decrypting", "following"}

PartyState == [outKey : Seq(Nat), inKey : Seq(Nat),
               outSeq : 1 .. (MaxSends + 1), inSeq : 1 .. (MaxSends + 1)]

\* key: what the message is sealed with; copy: what the awaited call works on
SendState == [at : Awaiting \cup {"idle", "over"},
              from : Party, tamper : BOOLEAN, session : Nat, seq : Nat,
              key : Seq(Nat), copy : Seq(Nat)]

TypeOK ==
    /\ active \in BOOLEAN
    /\ party \in [Party -> PartyState]
    /\ sessions \in 0 .. MaxSessions
    /\ clicks \in 0 .. MaxSends
    /\ send \in [Sends -> SendState]
    /\ shown \subseteq Sends
    /\ disturbed \in [Party -> BOOLEAN]

Idle == [at |-> "idle", from |-> "alice", tamper |-> FALSE, session |-> 0,
         seq |-> 0, key |-> Null, copy |-> Null]

NoKeys == [outKey |-> Null, inKey |-> Null, outSeq |-> 1, inSeq |-> 1]

Init ==
    /\ active = FALSE
    /\ party = [p \in Party |-> NoKeys]
    /\ sessions = 0
    /\ clicks = 0
    /\ send = [h \in Sends |-> Idle]
    /\ shown = {}
    /\ disturbed = [p \in Party |-> FALSE]

\* Some handler of a message from p awaits.
Pending(p) == \E h \in Sends : send[h].from = p /\ send[h].at \in Awaiting
-----------------------------------------------------------------------------
(* Sessions *)

\* updateUI follows every change of active at once.
StartShown == ~active

StartSession ==
    /\ StartShown /\ sessions < MaxSessions
    /\ active' = TRUE
    /\ sessions' = sessions + 1
    /\ party' = [p \in Party |-> [outKey |-> <<sessions + 1>>, inKey |-> <<sessions + 1>>,
                                  outSeq |-> 1, inSeq |-> 1]]
    /\ disturbed' = [p \in Party |-> Pending(p)]
    /\ UNCHANGED <<clicks, send, shown>>

EndSession ==
    /\ active
    /\ active' = FALSE
    /\ party' = [p \in Party |-> [party[p] EXCEPT !.outKey = Null, !.inKey = Null]]
    /\ UNCHANGED <<sessions, clicks, send, shown, disturbed>>
-----------------------------------------------------------------------------
(* sendMessage *)

RatchetDeriveKey(key, nonce) == Append(key, nonce)

\* What puts the two ends of a direction out of step: a send begun while another
\* awaits, or a tampered one.  StartSession adds the sends that outlive a session.
Disturbs(p, tamper) == tamper \/ Pending(p)

\* up to the await of encryptAESGCM; the tamper button sends as alice
SendMessage(p, tamper) ==
    /\ active /\ clicks < MaxSends
    /\ tamper => p = "alice"
    /\ clicks' = clicks + 1
    /\ send' = [send EXCEPT ![clicks + 1] =
         [at |-> "encrypting", from |-> p, tamper |-> tamper, session |-> sessions,
          seq |-> party[p].outSeq, key |-> party[p].outKey, copy |-> Null]]
    /\ disturbed' = [disturbed EXCEPT ![p] = @ \/ Disturbs(p, tamper)]
    /\ UNCHANGED <<active, party, sessions, shown>>

\* the awaited call of send h settles
Settles(h, from) ==
    /\ send[h].at = from
    /\ UNCHANGED <<active, sessions, clicks, disturbed>>

GoesOn(h, to, copy) == send' = [send EXCEPT ![h].at = to, ![h].copy = copy]

\* sendMessage returns or throws, and its locals are gone
Leaves(h) ==
    send' = [send EXCEPT ![h] = [Idle EXCEPT !.at = "over", !.from = send[h].from,
                                             !.session = send[h].session]]

\* Bug: the message counted when it is sealed and again when it is shown.
EncryptedCountedTwice(h) ==
    /\ Settles(h, "encrypting")
    /\ LET p == send[h].from
       IN  /\ party' = [party EXCEPT ![p].outSeq = @ + 2]
           /\ IF party[p].outKey = Null THEN Leaves(h)
                                     ELSE GoesOn(h, "rotating", party[p].outKey)
    /\ UNCHANGED shown

\* The sender shows and counts the message and starts to derive; without a key,
\* because the session has ended, importKey rejects.
Encrypted(h) ==
    /\ Settles(h, "encrypting")
    /\ LET p == send[h].from
       IN  /\ party' = [party EXCEPT ![p].outSeq = @ + 1]
           /\ IF party[p].outKey = Null THEN Leaves(h)
                                     ELSE GoesOn(h, "rotating", party[p].outKey)
    /\ UNCHANGED shown

\* Bug: the receiver compares with the sender's counter, which has moved on.
InOrderBySender(h) == send[h].seq = party[send[h].from].outSeq

InOrder(h) == send[h].seq = party[Other(send[h].from)].inSeq

\* Bug: the prior key not zeroized, so its absence goes unnoticed.
RotatedWithoutZeroizing(h) ==
    /\ Settles(h, "rotating")
    /\ LET p == send[h].from
       IN  /\ party' = [party EXCEPT ![p].outKey = RatchetDeriveKey(send[h].copy, h)]
           /\ IF InOrder(h) THEN GoesOn(h, "decrypting", party[Other(p)].inKey)
                            ELSE Leaves(h)
    /\ UNCHANGED shown

\* The sender's key is replaced and the envelope delivered.  outKey.fill on null
\* throws: the session has ended.  Both keys of a direction are null or neither.
Rotated(h) ==
    /\ Settles(h, "rotating")
    /\ LET p == send[h].from
       IN  \/ /\ party[p].outKey = Null
              /\ Leaves(h)
              /\ UNCHANGED party
           \/ /\ party[p].outKey # Null
              /\ party' = [party EXCEPT ![p].outKey = RatchetDeriveKey(send[h].copy, h)]
              /\ \/ InOrder(h) /\ GoesOn(h, "decrypting", party[Other(p)].inKey)
                 \/ ~InOrder(h) /\ Leaves(h)
    /\ UNCHANGED shown

\* AES-GCM accepts the intact message under the key that sealed it, only.
Opens(h) == send[h].key = send[h].copy /\ ~send[h].tamper

\* Authentication fails: the catch block.
DecryptFailed(h) ==
    /\ Settles(h, "decrypting")
    /\ ~Opens(h)
    /\ Leaves(h)
    /\ UNCHANGED <<party, shown>>

\* The receiver shows and counts the message and starts to derive; without a
\* key, importKey rejects into the catch block.
Decrypted(h) ==
    /\ Settles(h, "decrypting")
    /\ Opens(h)
    /\ LET q == Other(send[h].from)
       IN  /\ party' = [party EXCEPT ![q].inSeq = @ + 1]
           /\ IF party[q].inKey = Null THEN Leaves(h)
                                    ELSE GoesOn(h, "following", party[q].inKey)
    /\ shown' = shown \cup {h}

\* Bug: the receiver replaces its own sending key.
FollowedOnTheOtherChain(h) ==
    /\ Settles(h, "following")
    /\ LET q == Other(send[h].from)
       IN  /\ party' = [party EXCEPT ![q].outKey = RatchetDeriveKey(send[h].copy, h)]
           /\ Leaves(h)
    /\ UNCHANGED shown

\* inKey.fill on null throws into the catch block.
Followed(h) ==
    /\ Settles(h, "following")
    /\ LET q == Other(send[h].from)
       IN  \/ /\ party[q].inKey = Null
              /\ Leaves(h)
              /\ UNCHANGED party
           \/ /\ party[q].inKey # Null
              /\ party' = [party EXCEPT ![q].inKey = RatchetDeriveKey(send[h].copy, h)]
              /\ Leaves(h)
    /\ UNCHANGED shown

Handler(h) ==
    Encrypted(h) \/ Rotated(h) \/ DecryptFailed(h) \/ Decrypted(h) \/ Followed(h)

\* The buttons, and Enter in an input.
Clicks ==
    \/ StartSession \/ EndSession
    \/ \E p \in Party, tamper \in BOOLEAN : SendMessage(p, tamper)
-----------------------------------------------------------------------------
Next == Clicks \/ \E h \in Sends : Handler(h)

Spec == Init /\ [][Next]_vars

\* Promises settle; users need not click.
FairSpec == Spec /\ \A h \in Sends : WF_vars(Handler(h))
-----------------------------------------------------------------------------
(* Properties *)

\* endSession leaves no key behind, and no handler that was awaiting at the time
\* puts one back later.
KeysDieWithSession ==
    \A p \in Party : ~active => party[p].outKey = Null /\ party[p].inKey = Null

InStep(p) ==
    /\ party[p].outKey = party[Other(p)].inKey
    /\ party[p].outSeq = party[Other(p)].inSeq
    /\ \A h \in Sends :
          send[h].from = p /\ send[h].session = sessions /\ h <= clicks => h \in shown

\* While nothing is under way in a direction that no overlap, no survivor of an
\* earlier session and no tampering disturbed, sender and receiver hold the same
\* key and count and every message of the session was shown, whatever became of
\* the other direction.
InStepWhenQuiet ==
    \A p \in Party : active /\ ~disturbed[p] /\ ~Pending(p) => InStep(p)

\* A message sent in an undisturbed direction is shown, if the session lasts and
\* stays undisturbed.
UndisturbedIsShown ==
    \A h \in Sends :
        (send[h].at \in Awaiting /\ ~disturbed[send[h].from])
            ~> (h \in shown \/ disturbed[send[h].from] \/ ~active)

\* index.html:40, "Every message advances the key chain": as many steps were
\* taken from the initial key as messages were counted.
EveryMessageAdvancesTheChain ==
    \A p \in Party :
        active /\ ~Pending(p) => Len(party[p].outKey) = party[p].outSeq
=============================================================================
