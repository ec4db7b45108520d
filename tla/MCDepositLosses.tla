--------------------------- MODULE MCDepositLosses ---------------------------
(* The deposit pipeline with the history of DepositLosses, and the proofs'  *)
(* invariant, for TLC: small instances of the constants.                    *)
EXTENDS DepositLosses, DepositInvariant, TLC

CONSTANTS t1, t2

\* Fault budgets.
FinalizerOnce == [p \in Process |-> IF p = "finalizer" THEN 1 ELSE 0]
ObserverAndSa == [p \in Process |-> IF p = "finalizer" THEN 0 ELSE 1]
\* Every transfer may revert, so they are interchangeable.
Transfers == Permutations({t1, t2})
=============================================================================
