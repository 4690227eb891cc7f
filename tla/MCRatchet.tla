----------------------------- MODULE MCRatchet -----------------------------
(* Instances of Ratchet for TLC: budgets of faults. *)
EXTENDS RatchetSecrecy

MCK0 == << >>

NoFaults == [p \in Party |-> 0]
FaultsToBob == [p \in Party |-> IF p = "bob" THEN 2 ELSE 0]
OneFaultEach == [p \in Party |-> 1]
=============================================================================
