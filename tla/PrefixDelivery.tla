--------------------------- MODULE PrefixDelivery ---------------------------
(***************************************************************************)
(* What a DKE session promises its two users, with no keys, envelopes or   *)
(* relay: what one side shows is at all times the first so many messages   *)
(* of the other, each once and in order.  A message may stay undelivered   *)
(* for ever.                                                               *)
(***************************************************************************)
EXTENDS Naturals, Sequences

CONSTANTS Text, User, Other(_)

VARIABLES said, heard

Init ==
    /\ said = [u \in User |-> << >>]
    /\ heard = [u \in User |-> << >>]

Say(u, t) ==
    /\ said' = [said EXCEPT ![u] = Append(@, t)]
    /\ UNCHANGED heard

Hear(u) ==
    /\ Len(heard[u]) < Len(said[Other(u)])
    /\ heard' = [heard EXCEPT ![u] = Append(@, said[Other(u)][Len(heard[u]) + 1])]
    /\ UNCHANGED said

Next == \E u \in User : Hear(u) \/ \E t \in Text : Say(u, t)

Spec == Init /\ [][Next]_<<said, heard>>
=============================================================================
