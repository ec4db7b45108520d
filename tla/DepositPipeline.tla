--------------------------- MODULE DepositPipeline ---------------------------
(***************************************************************************)
(* The deposit side of one chain: observer, finalizer and SA as processes  *)
(* of their own over one database, while the chain grows and reorganises.  *)
(***************************************************************************)
EXTENDS DepositSA

vars ==
    <<chainVars, faults, store, observerVars, finalizerVars, saVars>>

Init ==
    /\ ChainInit /\ StoreInit
    /\ ObserverInit /\ FinalizerInit /\ SaInit

Chain == (Mine \/ Reorg) /\ UNCHANGED <<store, observerVars, finalizerVars, saVars>>

Observer ==
    (ObserverWork \/ ObserverFault) /\ UNCHANGED <<finalizerVars, saVars>>

Finalizer ==
    (FinalizerWork \/ FinalizerAbort) /\ UNCHANGED <<observerVars, saVars>>

Sa ==
    /\ SaWork \/ SaRefused \/ SaFault
    /\ UNCHANGED <<cursor, obsLast, scan, finalizerVars>>

Next == Chain \/ Observer \/ Finalizer \/ Sa

Spec == Init /\ [][Next]_vars

\* Blocks keep coming and each container is restarted and runs (restart:
\* always): no process is starved for ever.
Fairness ==
    /\ WF_vars(Mine /\ UNCHANGED <<store, observerVars, finalizerVars, saVars>>)
    /\ WF_vars(ObserverWork /\ UNCHANGED <<finalizerVars, saVars>>)
    /\ WF_vars(FinalizerWork /\ UNCHANGED <<observerVars, saVars>>)
    /\ WF_vars(SaWork /\ UNCHANGED <<cursor, obsLast, scan, finalizerVars>>)

FairSpec == Spec /\ Fairness

-----------------------------------------------------------------------------
(* Type correctness of the whole state. *)
TypeOK ==
    /\ ChainTypeOK /\ StoreTypeOK
    /\ ObserverTypeOK /\ FinalizerTypeOK /\ SaTypeOK

Credited == {t \in Tx : sends[t] > 0}

\* Zex is told only of transfers that are for ever in the chain: whatever
\* reorganisations, crashes and lost answers happened, a delivered transfer
\* is in a settled block, executed, and below the value limit (finalizer,
\* validators' checks and get_accepted_deposits together).
CreditBacked ==
    \A t \in Credited :
        /\ where[t] # 0 /\ where[t] <= Settled
        /\ t \notin reverted /\ t \notin Oversized

\* A record the finalizer has promoted, and all its later life, belongs to a
\* transfer in a settled block (to_finalized after the fetch of the hashes).
FinalizedSettled ==
    \A t \in Tx :
        status[t] \in {"finalized", "verified", "successful"} =>
            where[t] # 0 /\ where[t] <= Settled

\* Zex may hear of a transfer more than once, but each time after the first
\* costs a fault of the SA: a working SA never sends a batch twice.
ResendNeedsFault == \A t \in Tx : sends[t] <= 1 + faults["sa"]

\* Once the SA has recorded the outcome of a transfer it never sends it again.
NeverResentOnceRecorded ==
    [][\A t \in Tx :
         status[t] \in {"verified", "successful", "rejected"} =>
             sends'[t] = sends[t]]_vars

\* The saved cursor never goes back, whatever heads the nodes answer with.
CursorMonotone == [][lastObserved' >= lastObserved]_vars

\* Every transfer in a block the cursor is past has its record, though the
\* observer may die at any await (upsert of the cursor after the inserts).
Coverage ==
    \A t \in Tx :
        (lastObserved # NoBlock /\ origin < where[t] /\ where[t] <= lastObserved
         /\ t \notin reverted) => status[t] # NoRecord

\* A record marked as reorganised away is of a transfer that is not, in a
\* settled block, an executed transaction.
DiscardedWasReorged ==
    \A t \in Tx :
        status[t] = "reorg" =>
            where[t] = 0 \/ where[t] > Settled \/ t \in reverted

-----------------------------------------------------------------------------
(* The records live the life DepositLifecycle promises. *)
Lifecycle == INSTANCE DepositLifecycle WITH credited <- Credited
Refinement == Lifecycle!LifecycleSpec
=============================================================================
