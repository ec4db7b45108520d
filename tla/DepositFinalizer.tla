-------------------------- MODULE DepositFinalizer --------------------------
(***************************************************************************)
(* deposit/finalizer.py: compare the pending deposits of finalized blocks  *)
(* with the blocks' transactions; those found become FINALIZED, the other  *)
(* pending deposits of the range of blocks become REORG.                   *)
(*                                                                         *)
(* Each await is a step of its own, since the observer and the chain move  *)
(* between them.  finPc is the await the loop is at.                       *)
(***************************************************************************)
EXTENDS DepositObserver, FiniteSetsExt

VARIABLES
    finPc,      \* "idle", "query", "fetch" or "discard"
    finNum,     \* finalized_block_number
    finTodo,    \* pending block numbers whose batch has yet to start
    finBatch,   \* blocks_to_check
    finUnread,  \* those whose hashes are not fetched yet
    finHashes   \* results

finalizerVars == <<finPc, finNum, finTodo, finBatch, finUnread, finHashes>>

FinalizerTypeOK ==
    /\ finPc \in {"idle", "query", "fetch", "discard"}
    /\ finNum \in Int
    /\ finTodo \in SUBSET Nat /\ finBatch \in SUBSET Nat
    /\ finUnread \in SUBSET finBatch /\ finHashes \in SUBSET Tx
    /\ finPc \in {"fetch", "discard"} <=> finBatch # {}

FinalizerInit ==
    /\ finPc = "idle" /\ finNum = 0
    /\ finTodo = {} /\ finBatch = {} /\ finUnread = {} /\ finHashes = {}

-----------------------------------------------------------------------------
(* The batches of one pass partition the pending block numbers in the      *)
(* order Python iterates a set of integers, which is not theirs.           *)

\* Mutant: the last batch is taken only when it is full (floor for ceil).
NextBatchFloor(todo) ==
    IF Cardinality(todo) < BatchBlocks THEN {{}}
    ELSE {B \in SUBSET todo : Cardinality(B) = BatchBlocks}

\* The next blocks_to_check, once the previous batch (if any) is done.
NextBatch(todo) ==
    IF todo = {} THEN {{}}
    ELSE {B \in SUBSET todo :
            \/ Cardinality(B) = BatchBlocks
            \/ B = todo /\ Cardinality(B) < BatchBlocks}

\* The loop takes its next batch, or ends the pass.
TakeBatch(todo) ==
    \E B \in NextBatch(todo) :
        /\ finBatch' = B /\ finUnread' = B
        /\ finTodo' = todo \ B
        /\ finHashes' = {}
        /\ IF B = {} THEN finPc' = "idle" /\ finNum' = 0
           ELSE finPc' = "fetch" /\ UNCHANGED finNum

FinalizerStart ==
    /\ finPc = "idle"
    /\ \E h \in Latest : finNum' = FinalizedNumber(h)
    /\ finPc' = "query"
    /\ UNCHANGED <<finTodo, finBatch, finUnread, finHashes>>
    /\ UNCHANGED <<store, chainVars, faults>>

FinalizerQuery ==
    /\ finPc = "query"
    /\ TakeBatch(PendingBlocks(finNum))
    /\ UNCHANGED <<store, chainVars, faults>>

\* get_block_tx_hash of one block of the batch (tasks of filter_blocks).
FinalizerFetch(b) ==
    /\ finPc = "fetch" /\ b \in finUnread
    /\ finUnread' = finUnread \ {b}
    /\ finHashes' = finHashes \cup BlockTx(b)
    /\ UNCHANGED <<finPc, finNum, finTodo, finBatch, store, chainVars, faults>>

FinalizerMark ==
    /\ finPc = "fetch" /\ finUnread = {}
    /\ ToFinalized(finNum, finHashes)
    /\ finPc' = "discard"
    /\ UNCHANGED <<finNum, finTodo, finBatch, finUnread, finHashes>>
    /\ UNCHANGED <<chainVars, faults>>

FinalizerDiscard ==
    /\ finPc = "discard"
    /\ ToReorgBlockNumber(Min(finBatch), Max(finBatch))
    /\ TakeBatch(finTodo)
    /\ UNCHANGED <<chainVars, faults>>

\* An exception in the loop, or a crash: the next pass starts afresh.
FinalizerAbort ==
    /\ Fault("finalizer")
    /\ finPc # "idle"
    /\ finPc' = "idle" /\ finNum' = 0
    /\ finTodo' = {} /\ finBatch' = {} /\ finUnread' = {} /\ finHashes' = {}
    /\ UNCHANGED <<store, chainVars>>

FinalizerWork ==
    \/ FinalizerStart \/ FinalizerQuery
    \/ \E b \in finUnread : FinalizerFetch(b)
    \/ FinalizerMark \/ FinalizerDiscard
=============================================================================
