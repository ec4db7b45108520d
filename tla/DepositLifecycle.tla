-------------------------- MODULE DepositLifecycle --------------------------
(***************************************************************************)
(* What the deposit pipeline promises of the records, without saying how:  *)
(* the life of a deposit record and what Zex was told of it.               *)
(*                                                                         *)
(*   none -> pending -> finalized -> verified -> successful                *)
(*   none -> rejected     \-> reorg     \-> reorg                          *)
(*                                                                         *)
(* A record is verified only after Zex was told of the transfer.           *)
(***************************************************************************)
EXTENDS DepositTypes

VARIABLES
    status,    \* status of each record
    credited   \* transfers Zex was told of

lifecycleVars == <<status, credited>>

LifecycleInit ==
    /\ status = [t \in Tx |-> NoRecord]
    /\ credited = {}

Move(S, new) ==
    status' = [t \in Tx |-> IF t \in S THEN new ELSE status[t]]

\* The observer sees a transfer for the first time.
Record(t) ==
    /\ status[t] = NoRecord
    /\ Move({t}, AcceptedStatus(t, "pending"))
    /\ UNCHANGED credited

\* The finalizer's two updates.
Finalize(S) ==
    /\ \A t \in S : status[t] = "pending"
    /\ Move(S, "finalized")
    /\ UNCHANGED credited

Discard(S) ==
    /\ \A t \in S : status[t] = "pending"
    /\ Move(S, "reorg")
    /\ UNCHANGED credited

\* Zex is told of transfers whose records are finalized.
Credit(S) ==
    /\ \A t \in S : status[t] = "finalized"
    /\ credited' = credited \cup S
    /\ UNCHANGED status

Verify(t) ==
    /\ status[t] = "finalized" /\ t \in credited
    /\ Move({t}, "verified")
    /\ UNCHANGED credited

\* The validators left finalized deposits out of what they signed, also one
\* they signed before and Zex was told of (DiscardedCreditIsExplained).
Drop(S) ==
    /\ \A t \in S : status[t] = "finalized"
    /\ Move(S, "reorg")
    /\ UNCHANGED credited

\* The vault depositor collected the transfer.
Collect(S) ==
    /\ \A t \in S : status[t] = "verified"
    /\ Move(S, "successful")
    /\ UNCHANGED credited

LifecycleNext ==
    \/ \E t \in Tx : Record(t) \/ Verify(t)
    \/ \E S \in SUBSET Tx :
         Finalize(S) \/ Discard(S) \/ Credit(S) \/ Drop(S) \/ Collect(S)

LifecycleSpec == LifecycleInit /\ [][LifecycleNext]_lifecycleVars
=============================================================================
