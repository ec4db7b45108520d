---------------------------- MODULE BtcDeposits ----------------------------
(***************************************************************************)
(* Deposits of Bitcoin: a transaction has several outputs, and each output *)
(* to a user is a deposit.  The unique index of btc_deposit tells outputs  *)
(* apart; insert_deposit_if_not_exists, upsert_deposit and the SA's list   *)
(* of hashes know transactions only, and the list has a hash once for each *)
(* deposit that was found.                                                 *)
(*                                                                         *)
(* The module follows one block, finalized when it is scanned (on a chain  *)
(* that reorganises the processes are those of DepositPipeline), through   *)
(* the observer, the finalizer with its populate_deposits_utxos middleware *)
(* and the SA.  Concurrent coroutines of a gather are steps of their own.  *)
(***************************************************************************)
EXTENDS Integers, FiniteSets

CONSTANTS
    Output,     \* the outputs of the block to addresses of users
    Tx,         \* their transactions
    TxOf,       \* transaction of each output
    BatchSize,  \* SA_TRANSACTIONS_BATCH_SIZE
    MaxFaults   \* bound: crashes and failing calls

ASSUME BtcAssumption ==
    /\ TxOf \in [Output -> Tx]
    /\ IsFiniteSet(Output)
    /\ BatchSize \in Nat \ {0} /\ MaxFaults \in Nat

Deposited == {"pending", "finalized", "verified", "reorg"}
NoRecord == "none"

\* extract_transfer_from_block: every output of every transaction.
BlockOutputs == Output

VARIABLES
    status,     \* btc_deposit: status of the record of each output
    utxo,       \* btc_utxo: outputs with a document
    posted,     \* in how many messages Zex was sent each output, 2 for more
    doubled,    \* history: transactions sent more than once in one message
    faults,     \* faults so far
    scanned,    \* the observer's cursor is past the block
    obsFinds,   \* outputs whose find_one has yet to run
    obsInserts, \* outputs whose find_one found nothing
    finPc,      \* "idle", "populate" or "discard"
    finTodo,    \* outputs whose UTXO is yet to insert
    late,       \* history: inserted between the finalizer's read and its mark
    overtaken,  \* history: transactions with an output inserted after Zex was
                \* told of it
    saPc,       \* "idle", "sign", "record", "raised" or "clean"
    saBatch,    \* the deposits found; txs_hash lists the hash of each
    saUpserts,  \* how many upserts of each output have yet to run
    unfinished  \* history: transactions sent in a pass that ended before its
                \* clean, or had an upsert refused

observerVars == <<scanned, obsFinds, obsInserts>>
finalizerVars == <<finPc, finTodo>>
saVars == <<saPc, saBatch, saUpserts, unfinished>>
sentVars == <<posted, doubled>>
historyVars == <<late, overtaken>>
vars == <<status, utxo, sentVars, faults, historyVars,
          observerVars, finalizerVars, saVars>>

NoUpserts == [o \in Output |-> 0]

TypeOK ==
    /\ status \in [Output -> Deposited \cup {NoRecord}]
    /\ utxo \in SUBSET Output /\ late \in SUBSET Output
    /\ posted \in [Output -> 0..2]
    /\ doubled \in SUBSET Tx /\ overtaken \in SUBSET Tx
    /\ unfinished \in SUBSET Tx
    /\ faults \in 0..MaxFaults
    /\ scanned \in BOOLEAN
    /\ obsFinds \in SUBSET Output /\ obsInserts \in SUBSET Output
    /\ finPc \in {"idle", "populate", "discard"}
    /\ finTodo \in SUBSET Output /\ (finPc # "populate" => finTodo = {})
    /\ saPc \in {"idle", "sign", "record", "raised", "clean"}
    /\ saBatch \in SUBSET Output
    /\ saUpserts \in [Output -> Nat]
    /\ saPc \notin {"record", "raised"} => saUpserts = NoUpserts
    /\ scanned => obsFinds = {} /\ obsInserts = {}

Init ==
    /\ status = [o \in Output |-> NoRecord]
    /\ utxo = {} /\ late = {} /\ overtaken = {}
    /\ posted = [o \in Output |-> 0] /\ doubled = {}
    /\ faults = 0
    /\ scanned = FALSE /\ obsFinds = BlockOutputs /\ obsInserts = {}
    /\ finPc = "idle" /\ finTodo = {}
    /\ saPc = "idle" /\ saBatch = {} /\ saUpserts = NoUpserts
    /\ unfinished = {}

\* Mutant: the query lost its status.
WithStatusAny(s) == {o \in Output : status[o] # NoRecord}

WithStatus(s) == {o \in Output : status[o] = s}
Recorded == {o \in Output : status[o] # NoRecord}

\* get_transfer_by_tx_hash: one transfer per output.
OutputsOf(T) == {o \in Output : TxOf[o] \in T}

Fault == faults < MaxFaults /\ faults' = faults + 1

-----------------------------------------------------------------------------
(* The observer: insert_deposits_if_not_exists of the outputs of the block.*)

\* find_one: any record of the transaction.
Found(o) == \E p \in Recorded : TxOf[p] = TxOf[o]

InsertFind(o) ==
    /\ o \in obsFinds
    /\ obsFinds' = obsFinds \ {o}
    /\ obsInserts' = IF Found(o) THEN obsInserts ELSE obsInserts \cup {o}
    /\ UNCHANGED <<status, utxo, sentVars, faults, historyVars, scanned>>
    /\ UNCHANGED <<finalizerVars, saVars>>

InsertOne(o) ==
    /\ o \in obsInserts /\ status[o] = NoRecord
    /\ status' = [status EXCEPT ![o] = "pending"]
    /\ obsInserts' = obsInserts \ {o}
    /\ late' = IF finPc = "populate" THEN late \cup {o} ELSE late
    /\ overtaken' = IF posted[o] > 0 THEN overtaken \cup {TxOf[o]}
                    ELSE overtaken
    /\ UNCHANGED <<utxo, sentVars, faults, scanned, obsFinds>>
    /\ UNCHANGED <<finalizerVars, saVars>>

\* Mutant: the gather is not awaited.
SaveCursorEarly ==
    /\ ~scanned
    /\ scanned' = TRUE
    /\ UNCHANGED <<status, utxo, sentVars, faults, historyVars>>
    /\ UNCHANGED <<obsFinds, obsInserts, finalizerVars, saVars>>

SaveCursor ==
    /\ ~scanned /\ obsFinds = {} /\ obsInserts = {}
    /\ scanned' = TRUE
    /\ UNCHANGED <<status, utxo, sentVars, faults, historyVars>>
    /\ UNCHANGED <<obsFinds, obsInserts, finalizerVars, saVars>>

ObserverRestarts ==
    /\ obsFinds' = BlockOutputs /\ obsInserts' = {}
    /\ UNCHANGED <<status, utxo, sentVars, historyVars, scanned>>
    /\ UNCHANGED <<finalizerVars, saVars>>

\* The unique index refuses the insert: nothing catches it.
InsertDuplicate(o) ==
    /\ o \in obsInserts /\ status[o] # NoRecord
    /\ ObserverRestarts
    /\ UNCHANGED faults

ObserverCrash == ~scanned /\ Fault /\ ObserverRestarts

-----------------------------------------------------------------------------
(* The finalizer.  All transactions of the block are in its results.       *)

\* find_deposit_by_status
FinalizerRead ==
    /\ finPc = "idle" /\ WithStatus("pending") # {}
    /\ finPc' = "populate"
    /\ finTodo' = WithStatus("pending")
    /\ UNCHANGED <<status, utxo, sentVars, faults, historyVars>>
    /\ UNCHANGED <<observerVars, saVars>>

\* insert_utxo_if_not_exists, by hash and index
InsertUtxo(o) == utxo' = utxo \cup {o}

\* populate_deposits_utxos: a UTXO for each deposit.
Populate(o) ==
    /\ o \in finTodo
    /\ InsertUtxo(o)
    /\ finTodo' = finTodo \ {o}
    /\ UNCHANGED <<status, sentVars, faults, historyVars, finPc>>
    /\ UNCHANGED <<observerVars, saVars>>

SetStatus(S, old, new) ==
    status' = [o \in Output |->
                 IF o \in S /\ status[o] = old THEN new ELSE status[o]]

\* Mutant: the middleware is not awaited.
FinalizerMarkEarly ==
    /\ finPc = "populate"
    /\ SetStatus(Output, "pending", "finalized")
    /\ finPc' = "discard" /\ finTodo' = {}
    /\ UNCHANGED <<utxo, sentVars, faults, historyVars>>
    /\ UNCHANGED <<observerVars, saVars>>

\* to_finalized
FinalizerMark ==
    /\ finPc = "populate" /\ finTodo = {}
    /\ SetStatus(Output, "pending", "finalized")
    /\ finPc' = "discard"
    /\ UNCHANGED <<utxo, sentVars, faults, historyVars, finTodo>>
    /\ UNCHANGED <<observerVars, saVars>>

\* to_reorg_block_number
FinalizerDiscard ==
    /\ finPc = "discard"
    /\ SetStatus(Output, "pending", "reorg")
    /\ finPc' = "idle"
    /\ UNCHANGED <<utxo, sentVars, faults, historyVars, finTodo>>
    /\ UNCHANGED <<observerVars, saVars>>

\* A call raises or the process dies; the next pass starts over.
FinalizerFails ==
    /\ finPc # "idle" /\ Fault
    /\ finPc' = "idle" /\ finTodo' = {}
    /\ UNCHANGED <<status, utxo, sentVars, historyVars>>
    /\ UNCHANGED <<observerVars, saVars>>

-----------------------------------------------------------------------------
(* The SA.                                                                 *)

\* The first finalized deposits; all have the same block.
SaFind ==
    /\ saPc = "idle"
    /\ \E S \in SUBSET WithStatus("finalized") :
         /\ S # {}
         /\ \/ Cardinality(S) = BatchSize
            \/ S = WithStatus("finalized") /\ Cardinality(S) < BatchSize
         /\ saBatch' = S
    /\ saPc' = "sign"
    /\ UNCHANGED <<status, utxo, sentVars, faults, historyVars>>
    /\ UNCHANGED <<saUpserts, unfinished, observerVars, finalizerVars>>

\* The hashes in txs_hash, and how often each is in it.
saTx == {TxOf[o] : o \in saBatch}
Copies(t) == Cardinality({o \in saBatch : TxOf[o] = t})

\* Mutant: Zex gets the recorded deposits only.
PostRecorded ==
    /\ posted' = [o \in Output |->
                    IF TxOf[o] \in saTx /\ posted[o] < 2 /\ status[o] # NoRecord
                    THEN posted[o] + 1 ELSE posted[o]]
    /\ doubled' = doubled \cup {t \in saTx : Copies(t) > 1}

\* Zex gets the deposits the validators extract from the transactions: all
\* outputs to users, recorded or not, as often as the list has the hash.
Post ==
    /\ posted' = [o \in Output |->
                    IF TxOf[o] \in saTx /\ posted[o] < 2 THEN posted[o] + 1
                    ELSE posted[o]]
    /\ doubled' = doubled \cup {t \in saTx : Copies(t) > 1}

\* Each deposit of the message is upserted, one in it twice is so twice.
SaPost ==
    /\ saPc = "sign"
    /\ Post
    /\ saPc' = "record" /\ saUpserts' = [o \in Output |-> Copies(TxOf[o])]
    /\ UNCHANGED <<status, utxo, faults, historyVars>>
    /\ UNCHANGED <<saBatch, unfinished, observerVars, finalizerVars>>

SaPassEnds ==
    /\ saPc' = "idle" /\ saBatch' = {} /\ saUpserts' = NoUpserts
    /\ UNCHANGED <<utxo, historyVars, observerVars, finalizerVars>>

\* No signature, or no answer of Zex, perhaps after it took the deposits.
SaFails ==
    /\ saPc = "sign" /\ Fault
    /\ \/ Post /\ unfinished' = unfinished \cup saTx
       \/ UNCHANGED <<sentVars, unfinished>>
    /\ SaPassEnds
    /\ UNCHANGED status

\* Whether record p is one the upsert of o may update: MongoDB takes any of
\* those its filter matches, and the filter is the transaction.
Matches(o, p) == status[p] # NoRecord /\ TxOf[p] = TxOf[o]

\* One of the upserts of o that have yet to run.
TakeUpsert(o) ==
    /\ saUpserts[o] > 0
    /\ saUpserts' = [saUpserts EXCEPT ![o] = @ - 1]

\* Mutant: o replaces the records of its transaction.
SaUpsertReplace(o) ==
    /\ TakeUpsert(o)
    /\ status' = [p \in Output |->
                    IF p = o THEN "verified"
                    ELSE IF Matches(o, p) THEN NoRecord ELSE status[p]]
    /\ UNCHANGED <<utxo, sentVars, faults, historyVars, saPc>>
    /\ UNCHANGED <<saBatch, unfinished, observerVars, finalizerVars>>

\* upsert_deposit(o): a record that matches becomes that of o; without one,
\* o is inserted.
SaUpsert(o) ==
    /\ TakeUpsert(o)
    /\ \/ /\ \A p \in Output : ~Matches(o, p)
          /\ status' = [status EXCEPT ![o] = "verified"]
       \/ \E p \in Output :
            /\ Matches(o, p)
            /\ p = o \/ status[o] = NoRecord
            /\ status' = [status EXCEPT ![p] = NoRecord, ![o] = "verified"]
    /\ UNCHANGED <<utxo, sentVars, faults, historyVars, saPc>>
    /\ UNCHANGED <<saBatch, unfinished, observerVars, finalizerVars>>

\* The record matched is another's and o has its own: the unique index
\* refuses the update and nothing catches it.
SaDuplicate(o) ==
    /\ TakeUpsert(o) /\ status[o] # NoRecord
    /\ \E p \in Output \ {o} : Matches(o, p)
    /\ saPc' = "raised"
    /\ unfinished' = unfinished \cup saTx
    /\ UNCHANGED <<status, utxo, sentVars, faults, historyVars>>
    /\ UNCHANGED <<saBatch, observerVars, finalizerVars>>

\* The other upserts of the gather go on until the process has ended.
SaEnds ==
    /\ saPc = "raised"
    /\ SaPassEnds
    /\ UNCHANGED <<status, sentVars, faults, unfinished>>

SaRecorded ==
    /\ saPc = "record" /\ saUpserts = NoUpserts
    /\ saPc' = "clean"
    /\ UNCHANGED <<status, utxo, sentVars, faults, historyVars>>
    /\ UNCHANGED <<saBatch, saUpserts, unfinished, observerVars, finalizerVars>>

\* to_reorg_with_tx_hash
SaClean ==
    /\ saPc = "clean"
    /\ SetStatus(OutputsOf(saTx), "finalized", "reorg")
    /\ SaPassEnds
    /\ UNCHANGED <<sentVars, faults, unfinished>>

SaCrash ==
    /\ saPc \in {"record", "clean"} /\ Fault
    /\ unfinished' = unfinished \cup saTx
    /\ SaPassEnds
    /\ UNCHANGED <<status, sentVars>>

-----------------------------------------------------------------------------
Observer ==
    \/ \E o \in obsFinds : InsertFind(o)
    \/ \E o \in obsInserts : InsertOne(o) \/ InsertDuplicate(o)
    \/ SaveCursor

Finalizer ==
    \/ FinalizerRead \/ FinalizerMark \/ FinalizerDiscard
    \/ \E o \in finTodo : Populate(o)

Sa ==
    \/ SaFind \/ SaPost \/ SaRecorded \/ SaClean \/ SaEnds
    \/ \E o \in Output : SaUpsert(o) \/ SaDuplicate(o)

Next ==
    \/ Observer \/ Finalizer \/ Sa
    \/ ObserverCrash \/ FinalizerFails \/ SaFails \/ SaCrash

Spec == Init /\ [][Next]_vars

\* The containers run and are restarted.
FairSpec ==
    Spec /\ WF_vars(Observer) /\ WF_vars(Finalizer) /\ WF_vars(Sa)

-----------------------------------------------------------------------------
Siblings(o) == {p \in Output \ {o} : TxOf[p] = TxOf[o]}

\* An output without a record once the block is scanned shares its
\* transaction with one that has a record: crashes in the middle of the
\* inserts lose no transaction, though find_one asks for the hash only.
MissingHasSibling ==
    scanned => \A o \in Output \ Recorded : Siblings(o) \cap Recorded # {}

\* A finalized deposit has its UTXO, wherever the finalizer died, unless the
\* observer inserted it between the finalizer's find and its update.
FinalizedHasUtxo == \A o \in WithStatus("finalized") : o \in utxo \cup late

\* Zex is sent a deposit in a second message only if the pass that sent its
\* transaction ended before its clean or had an upsert refused, or the
\* observer inserted an output of the transaction after Zex was told of it.
RepostIsExplained ==
    \A o \in Output :
        posted[o] > 1 => TxOf[o] \in unfinished \cup overtaken

\* Zex is sent a transaction twice in one message only if two of its outputs
\* have records, and upserts that match any of them leave it two.
DoubledHasTwoRecords ==
    \A t \in doubled :
        \E o \in Recorded : TxOf[o] = t /\ Siblings(o) \cap Recorded # {}

\* With a finalized deposit all outputs of its transaction are sent to Zex,
\* those the observer or an upsert lost too.
FinalizedIsPosted ==
    \A o \in Output :
        status[o] = "finalized" ~> \A p \in OutputsOf({TxOf[o]}) : posted[p] > 0

-----------------------------------------------------------------------------
(* The records live the life BtcLifecycle promises. *)
Told == {o \in Output : posted[o] > 0}

Lifecycle == INSTANCE BtcLifecycle WITH told <- Told
Refinement == Lifecycle!LifecycleSpec
=============================================================================
