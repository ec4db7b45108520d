-------------------------- MODULE MCDepositPipeline --------------------------
(* DepositPipeline for TLC: small instances of the constants. *)
EXTENDS DepositPipeline

CONSTANTS t1, t2

\* Fault budgets.
NoFaults == [p \in Process |-> 0]
ObserverOnce == [p \in Process |-> IF p = "observer" THEN 1 ELSE 0]

=============================================================================
