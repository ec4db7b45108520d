-------------------------- MODULE DepositInvariant --------------------------
(***************************************************************************)
(* The inductive invariant behind the safety properties of DepositPipeline,*)
(* stated apart from the proofs so that TLC checks it too.                 *)
(*                                                                         *)
(* It needs ReorgDepth <= Conf: what the code calls finalized is settled.  *)
(***************************************************************************)
EXTENDS DepositPipeline

\* Deep enough for get_finalized_block_number.
Final(t) == where[t] # 0 /\ where[t] <= head - Conf

\* What the finalizer holds between its awaits: a number that was finalized,
\* blocks at or below it, hashes of final transactions.
FinalizerInv ==
    /\ finPc # "idle" => finNum <= head - Conf
    /\ finPc \in {"idle", "query"} => finTodo = {}
    /\ \A b \in finTodo \cup finBatch : b <= finNum
    /\ \A t \in finHashes : Final(t)

\* What a status says of the transfer.
RecordInv ==
    \A t \in Tx :
        /\ status[t] \in {"finalized", "verified", "successful"} => Final(t)
        /\ t \in Oversized => status[t] \in {NoRecord, "rejected"}

\* What the SA holds between its awaits: until it records them, the batch it
\* works on is FINALIZED, and what is signed is in its block and executed.
SaInv ==
    /\ saPc \in {"sign", "send"} => \A t \in saBatch : status[t] = "finalized"
    /\ \A p \in saSigned :
         /\ p[1] \in saBatch /\ status[p[1]] = "finalized"
         /\ p[2] = where[p[1]] /\ p[1] \notin reverted

\* Posted in this pass and not recorded yet.
AwaitsRecord(t) == saPc = "record" /\ \E p \in saSigned : p[1] = t

\* A post not paid for by a fault has its outcome recorded, or about to be.
CreditInv ==
    \A t \in Tx :
        /\ sends[t] > 0 => Final(t) /\ t \notin reverted /\ t \notin Oversized
        /\ sends[t] <= 1 + faults["sa"]
        /\ (status[t] \in {"verified", "successful"} \/ AwaitsRecord(t)
            \/ sends[t] <= faults["sa"])

(* The state between any two steps: finalizer, records, SA and deliveries   *)
(* agree with a chain whose final blocks never change.                     *)
SafetyInv == FinalizerInv /\ RecordInv /\ SaInv /\ CreditInv
=============================================================================
