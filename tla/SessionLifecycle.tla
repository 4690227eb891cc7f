-------------------------- MODULE SessionLifecycle --------------------------
(***************************************************************************)
(* What one chat process does with its sessions, with no threads, flags,   *)
(* locks or sockets: they follow each other, each lives once, and only the *)
(* latest one ever moves.  A session that was lost is not taken up again;  *)
(* whether its keys are wiped is up to the user.                           *)
(***************************************************************************)
EXTENDS Naturals

CONSTANTS Session, SeqLimit

VARIABLES
    begun,   \* how many sessions were begun; the last of them is the latest
    mode,    \* what the latest session is
    session  \* session[s]: what has become of the state of session s

vars == <<begun, mode, session>>

Fresh == [sent |-> 0, received |-> 0, spoiled |-> FALSE, wiped |-> FALSE]

Init ==
    /\ begun = 0
    /\ mode = "none"
    /\ session = [s \in Session |-> Fresh]

Begin ==
    /\ mode \in {"none", "lost"} /\ begun + 1 \in Session
    /\ begun' = begun + 1
    /\ mode' = "new"
    /\ UNCHANGED session

Becomes(from, to) == mode \in from /\ mode' = to /\ UNCHANGED <<begun, session>>

Open == Becomes({"new"}, "live")

Lose == Becomes({"new", "live"}, "lost")

\* A send that found the session live may finish after it was lost.
Send ==
    /\ mode \in {"live", "lost"}
    /\ ~session[begun].spoiled /\ session[begun].sent < SeqLimit
    /\ session' = [session EXCEPT ![begun].sent = @ + 1]
    /\ UNCHANGED <<begun, mode>>

\* A failed send spoils the key it used: nothing is sealed with it again.
FailToSend ==
    /\ mode \in {"live", "lost"}
    /\ session' = [session EXCEPT ![begun].spoiled = TRUE]
    /\ UNCHANGED <<begun, mode>>

Receive ==
    /\ mode = "live"
    /\ session' = [session EXCEPT ![begun].received = @ + 1]
    /\ UNCHANGED <<begun, mode>>

Wipe ==
    /\ mode = "lost"
    /\ session' = [session EXCEPT ![begun].wiped = TRUE]
    /\ mode' = "none"
    /\ UNCHANGED begun

Next == Begin \/ Open \/ Lose \/ Send \/ FailToSend \/ Receive \/ Wipe

Spec == Init /\ [][Next]_vars
=============================================================================
