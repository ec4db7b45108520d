---------------------------- MODULE DepositStore ----------------------------
(***************************************************************************)
(* The evm_deposit collection of one chain and the operations db/deposit.py*)
(* has on it.  The unique index on (transfer.tx_hash, chain_symbol) makes  *)
(* the collection a function from hashes to records; of a record the       *)
(* control reads the status and the block number.                          *)
(***************************************************************************)
EXTENDS DepositTypes

VARIABLES
    status,  \* status of each record, NoRecord if there is none
    blk      \* transfer.block_number of each record

store == <<status, blk>>

StoreTypeOK ==
    /\ status \in [Tx -> DepositStatus \cup {NoRecord}]
    /\ blk \in [Tx -> Nat]

StoreInit ==
    /\ status = [t \in Tx |-> NoRecord]
    /\ blk = [t \in Tx |-> 0]

-----------------------------------------------------------------------------
(* Reads. *)

\* Mutant: the query lost its status.
WithStatusAny(s) == {t \in Tx : status[t] # NoRecord}

\* find_deposit_by_status, the records it selects (Sorted limits them).
WithStatus(s) == {t \in Tx : status[t] = s}

\* get_pending_deposits_block_number: a set, its sort order is lost.
PendingBlocks(number) ==
    {blk[t] : t \in {u \in WithStatus("pending") : blk[u] <= number}}

-----------------------------------------------------------------------------
(* Writes. *)

\* upsert_deposit
Upsert(t, b, s) ==
    /\ status' = [status EXCEPT ![t] = s]
    /\ blk' = [blk EXCEPT ![t] = b]

\* insert_deposit_if_not_exists
InsertIfNotExists(t, b, s) ==
    IF status[t] = NoRecord THEN Upsert(t, b, s) ELSE UNCHANGED store

\* Every record of S that has status old gets status new (update_many).
SetStatus(S, old, new) ==
    /\ status' = [t \in Tx |->
                    IF t \in S /\ status[t] = old THEN new ELSE status[t]]
    /\ UNCHANGED blk

\* Mutant: the hashes found in the blocks are not asked for.
ToFinalizedAnyHash(number, hashes) ==
    SetStatus({t \in Tx : blk[t] <= number}, "pending", "finalized")

ToFinalized(number, hashes) ==
    SetStatus({t \in hashes : blk[t] <= number}, "pending", "finalized")

SetAnyStatus(S, new) ==
    /\ status' = [t \in Tx |->
                    IF t \in S /\ status[t] # NoRecord THEN new ELSE status[t]]
    /\ UNCHANGED blk

\* Mutant: records of any status in the range are discarded.
ToReorgBlockNumberAny(from, to) ==
    SetAnyStatus({t \in Tx : from <= blk[t] /\ blk[t] <= to}, "reorg")

ToReorgBlockNumber(from, to) ==
    SetStatus({t \in Tx : from <= blk[t] /\ blk[t] <= to}, "pending", "reorg")

\* Mutant: records of any status among the hashes are discarded.
ToReorgWithTxHashAny(hashes, s) == SetAnyStatus(hashes, "reorg")

ToReorgWithTxHash(hashes, s) == SetStatus(hashes, s, "reorg")
=============================================================================
