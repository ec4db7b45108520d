----------------------------- MODULE BtcProofs -----------------------------
(***************************************************************************)
(* Proofs about BtcDeposits, for every block, batch size and number of     *)
(* faults: no transaction is lost by the inserts, finalized deposits have  *)
(* their UTXO, Zex is sent a transaction again for a cause only, twice in  *)
(* one message only if two of its outputs have records, and the processes  *)
(* implement BtcLifecycle.                                                 *)
(***************************************************************************)
EXTENDS BtcDeposits, FiniteSetTheorems, TLAPS

\* Each output is still to look for, to insert, or its transaction has a
\* record; an upsert may move a record, but only within its transaction.
ScanInv ==
    \A o \in Output :
        o \in obsFinds \cup obsInserts \/ \E p \in Recorded : TxOf[p] = TxOf[o]

\* What the finalizer read and has not populated is in finTodo; a pending
\* deposit it did not read is late.
UtxoInv ==
    /\ FinalizedHasUtxo
    /\ finPc = "populate" =>
         \A o \in WithStatus("pending") : o \in finTodo \cup utxo \cup late

IInv == TypeOK /\ ScanInv /\ UtxoInv

LEMMA InitInv == Init => IInv
<1> SUFFICES ASSUME Init PROVE IInv
  OBVIOUS
<1>1. TypeOK
  <2>1. /\ status \in [Output -> Deposited \cup {NoRecord}]
        /\ posted \in [Output -> 0..2] /\ saUpserts \in [Output -> Nat]
    BY DEF Init, NoUpserts
  <2>2. faults \in 0..MaxFaults
    BY BtcAssumption DEF Init
  <2> QED BY <2>1, <2>2 DEF Init, TypeOK, BlockOutputs
<1>2. ScanInv
  BY DEF Init, ScanInv, BlockOutputs
<1>3. UtxoInv
  BY DEF Init, UtxoInv, FinalizedHasUtxo, WithStatus, NoRecord
<1> QED BY <1>1, <1>2, <1>3 DEF IInv

\* A change of status within a transaction keeps the transactions recorded.
RecordsStay ==
    \A p \in Recorded : \E q \in Recorded' : TxOf[q] = TxOf[p]

LEMMA ScanInvKept ==
    ASSUME ScanInv, RecordsStay,
           \A o \in (obsFinds \cup obsInserts) \ (obsFinds \cup obsInserts)' :
               \E p \in Recorded' : TxOf[p] = TxOf[o]
    PROVE  ScanInv'
<1> SUFFICES ASSUME NEW o \in Output, o \notin (obsFinds \cup obsInserts)'
             PROVE  \E p \in Recorded' : TxOf[p] = TxOf[o]
  BY DEF ScanInv
<1>1. CASE o \in obsFinds \cup obsInserts
  BY <1>1
<1>2. CASE o \notin obsFinds \cup obsInserts
  <2>1. PICK p \in Recorded : TxOf[p] = TxOf[o]
    BY <1>2 DEF ScanInv
  <2>2. PICK q \in Recorded' : TxOf[q] = TxOf[p]
    BY <2>1 DEF RecordsStay
  <2> QED BY <2>1, <2>2
<1> QED BY <1>1, <1>2

LEMMA ObserverStep ==
    ASSUME IInv, Observer \/ ObserverCrash
    PROVE  IInv'
<1> USE BtcAssumption
    DEF IInv, TypeOK, UtxoInv, FinalizedHasUtxo, WithStatus, NoRecord,
        Deposited, saVars, BlockOutputs, finalizerVars, sentVars, historyVars,
        NoUpserts
<1>1. ASSUME NEW o \in obsFinds, InsertFind(o) PROVE IInv'
  <2>1. TypeOK' /\ UtxoInv'
    BY <1>1 DEF InsertFind
  <2>2. RecordsStay
    BY <1>1 DEF InsertFind, RecordsStay, Recorded
  <2>3. ScanInv'
    BY <1>1, <2>2, ScanInvKept DEF InsertFind, Found, Recorded
  <2> QED BY <2>1, <2>3
<1>2. ASSUME NEW o \in obsInserts, InsertOne(o) PROVE IInv'
  <2>1. TypeOK' /\ UtxoInv'
    BY <1>2 DEF InsertOne
  <2>2. RecordsStay
    BY <1>2 DEF InsertOne, RecordsStay, Recorded
  <2>3. ScanInv'
    BY <1>2, <2>2, ScanInvKept DEF InsertOne, Recorded
  <2> QED BY <2>1, <2>3
<1>3. ASSUME NEW o \in obsInserts, InsertDuplicate(o) PROVE IInv'
  BY <1>3 DEF InsertDuplicate, ObserverRestarts, ScanInv
<1>4. CASE SaveCursor
  BY <1>4 DEF SaveCursor, ScanInv, Recorded
<1>5. CASE ObserverCrash
  BY <1>5 DEF ObserverCrash, ObserverRestarts, Fault, ScanInv
<1> QED BY <1>1, <1>2, <1>3, <1>4, <1>5 DEF Observer

LEMMA FinalizerStep ==
    ASSUME IInv, Finalizer \/ FinalizerFails
    PROVE  IInv'
<1> USE BtcAssumption
    DEF IInv, TypeOK, UtxoInv, FinalizedHasUtxo, WithStatus, NoRecord,
        Deposited, saVars, observerVars, ScanInv, Recorded, SetStatus,
        sentVars, historyVars, NoUpserts
<1>1. CASE FinalizerRead
  BY <1>1 DEF FinalizerRead
<1>2. ASSUME NEW o \in finTodo, Populate(o) PROVE IInv'
  BY <1>2 DEF Populate, InsertUtxo
<1>3. CASE FinalizerMark
  BY <1>3 DEF FinalizerMark
<1>4. CASE FinalizerDiscard
  BY <1>4 DEF FinalizerDiscard
<1>5. CASE FinalizerFails
  BY <1>5 DEF FinalizerFails, Fault
<1> QED BY <1>1, <1>2, <1>3, <1>4, <1>5 DEF Finalizer

\* A hash is listed a number of times, once or more if it is in txs_hash,
\* and more than once for two deposits only.
LEMMA CopiesOfBatch ==
    ASSUME saBatch \in SUBSET Output, NEW t
    PROVE  /\ Copies(t) \in Nat
           /\ Copies(t) > 0 <=> t \in saTx
           /\ Copies(t) > 1 =>
                \E o \in saBatch, p \in saBatch :
                    o # p /\ TxOf[o] = t /\ TxOf[p] = t
<1> DEFINE S == {o \in saBatch : TxOf[o] = t}
<1>1. IsFiniteSet(S)
  BY BtcAssumption, FS_Subset
<1>2. Cardinality(S) \in Nat /\ (Cardinality(S) = 0 <=> S = {})
  BY <1>1, FS_CardinalityType, FS_EmptySet
<1>3. S # {} <=> t \in saTx
  BY DEF saTx
<1>4. ASSUME Cardinality(S) > 1
      PROVE  \E o \in S, p \in S : o # p
  <2>1. PICK o \in S : TRUE
    BY <1>2, <1>4
  <2> HIDE DEF S
  <2>2. S # {o}
    BY <1>4, FS_Singleton
  <2> QED BY <2>1, <2>2
<1>5. Copies(t) = Cardinality(S)
  BY DEF Copies
<1> QED BY <1>2, <1>3, <1>4, <1>5

\* What an upsert does to the number of upserts to run.
LEMMA UpsertTaken ==
    ASSUME IInv, NEW o \in Output, TakeUpsert(o)
    PROVE  /\ saUpserts' \in [Output -> Nat]
           /\ saUpserts[o] > 0 /\ saPc \in {"record", "raised"}
           /\ \A p \in Output \ {o} : saUpserts'[p] = saUpserts[p]
           /\ \A p \in Output : saUpserts'[p] > 0 => saUpserts[p] > 0
  BY DEF IInv, TypeOK, TakeUpsert, NoUpserts

LEMMA SaStep ==
    ASSUME IInv, Sa \/ SaFails \/ SaCrash
    PROVE  IInv'
<1> USE BtcAssumption
    DEF IInv, TypeOK, UtxoInv, FinalizedHasUtxo, WithStatus, NoRecord,
        Deposited, finalizerVars, observerVars, sentVars, historyVars, SaPassEnds
<1>a. saTx \in SUBSET Tx
  BY DEF saTx
<1>b. ASSUME Post
      PROVE  posted' \in [Output -> 0..2] /\ doubled' \in SUBSET Tx
  BY <1>a, <1>b DEF Post
<1>c. NoUpserts \in [Output -> Nat] /\ NoUpserts' = NoUpserts
  BY DEF NoUpserts
<1>1. CASE SaFind
  BY <1>1, <1>c DEF SaFind, ScanInv, Recorded
<1>2. CASE SaPost
  <2>1. saUpserts' \in [Output -> Nat]
    BY <1>2, CopiesOfBatch DEF SaPost
  <2> QED BY <1>2, <1>b, <2>1 DEF SaPost, ScanInv, Recorded
<1>3. ASSUME NEW o \in Output, SaUpsert(o) PROVE IInv'
  <2>1. /\ saUpserts' \in [Output -> Nat]
        /\ saPc' \notin {"record", "raised"} => saUpserts' = NoUpserts'
    BY <1>3, UpsertTaken DEF SaUpsert
  <2>2. CASE /\ \A p \in Output : ~Matches(o, p)
             /\ status' = [status EXCEPT ![o] = "verified"]
    <3>1. TypeOK' /\ UtxoInv'
      BY <1>3, <2>1, <2>2 DEF SaUpsert
    <3>2. RecordsStay
      BY <2>1, <2>2 DEF RecordsStay, Recorded
    <3> QED BY <1>3, <3>1, <3>2, ScanInvKept DEF SaUpsert
  <2>3. ASSUME NEW p \in Output, Matches(o, p),
               status' = [status EXCEPT ![p] = NoRecord, ![o] = "verified"]
        PROVE  IInv'
    <3>1. TypeOK' /\ UtxoInv'
      BY <1>3, <2>1, <2>3 DEF SaUpsert
    <3>2. o \in Recorded' /\ \A q \in Recorded : q # p => q \in Recorded'
      BY <2>1, <2>3 DEF Recorded
    <3>3. RecordsStay
      BY <2>1, <2>3, <3>2 DEF RecordsStay, Matches
    <3> QED BY <1>3, <3>1, <3>3, ScanInvKept DEF SaUpsert
  <2> QED BY <1>3, <2>2, <2>3 DEF SaUpsert
<1>4. ASSUME NEW o \in Output, SaDuplicate(o) PROVE IInv'
  <2>1. saUpserts' \in [Output -> Nat]
    BY <1>4, UpsertTaken DEF SaDuplicate
  <2> QED BY <1>4, <1>a, <2>1 DEF SaDuplicate, ScanInv, Recorded
<1>5. CASE SaEnds
  BY <1>5, <1>c DEF SaEnds, ScanInv, Recorded
<1>6. CASE SaRecorded
  BY <1>6, <1>c DEF SaRecorded, ScanInv, Recorded
<1>7. CASE SaClean
  BY <1>7, <1>c DEF SaClean, SetStatus, ScanInv, Recorded
<1>8. CASE SaFails
  BY <1>8, <1>a, <1>b, <1>c DEF SaFails, Fault, ScanInv, Recorded
<1>9. CASE SaCrash
  BY <1>9, <1>a, <1>c DEF SaCrash, Fault, ScanInv, Recorded
<1> QED BY <1>1, <1>2, <1>3, <1>4, <1>5, <1>6, <1>7, <1>8, <1>9 DEF Sa

LEMMA Inductive == IInv /\ [Next]_vars => IInv'
<1> SUFFICES ASSUME IInv, [Next]_vars PROVE IInv'
  OBVIOUS
<1>1. CASE UNCHANGED vars
  BY <1>1 DEF vars, observerVars, finalizerVars, saVars, sentVars, historyVars,
      NoUpserts, IInv, TypeOK, ScanInv, UtxoInv, FinalizedHasUtxo, WithStatus, Recorded
<1> QED BY <1>1, ObserverStep, FinalizerStep, SaStep DEF Next

LEMMA Invariance == Spec => []IInv
  BY InitInv, Inductive, PTL DEF Spec

\* The records, UTXOs and passes are type-correct.
THEOREM TypeCorrect == Spec => []TypeOK
<1>1. IInv => TypeOK
  BY DEF IInv
<1> QED BY <1>1, Invariance, PTL

\* No crash in the middle of the inserts loses a transaction: an output
\* without a record shares its transaction with one that has a record.
THEOREM NoTransactionMissing == Spec => []MissingHasSibling
<1>1. IInv => MissingHasSibling
  BY DEF IInv, TypeOK, ScanInv, MissingHasSibling, Siblings, Recorded
<1> QED BY <1>1, Invariance, PTL

\* A finalized deposit has its UTXO, or was inserted behind the finalizer's
\* read.
THEOREM FinalizedIsSpendable == Spec => []FinalizedHasUtxo
<1>1. IInv => FinalizedHasUtxo
  BY DEF IInv, UtxoInv
<1> QED BY <1>1, Invariance, PTL

-----------------------------------------------------------------------------
(* What the SA has in hand.                                                *)

\* What is signed is finalized.  What was posted and is not written back is
\* of the pass, its transactions are recorded, and once an upsert was refused
\* they count as unfinished.
LifeInv ==
    /\ saPc = "sign" => saBatch \subseteq WithStatus("finalized")
    /\ saPc \in {"record", "raised", "clean"} =>
         \A o \in OutputsOf(saTx) :
             posted[o] > 0 /\ \E p \in Recorded : TxOf[p] = TxOf[o]
    /\ \A o \in Output : saUpserts[o] > 0 => o \in OutputsOf(saTx)
    /\ saPc = "raised" => saTx \subseteq unfinished

LEMMA LifeInvInit == Init => LifeInv
  BY DEF Init, LifeInv, OutputsOf, NoUpserts

\* What a step does to the records of a transaction with two of them.
PairsStay ==
    \A o \in Recorded, p \in Recorded : o # p /\ TxOf[o] = TxOf[p] =>
        \E q \in Recorded', s \in Recorded' :
            q # s /\ TxOf[q] = TxOf[o] /\ TxOf[s] = TxOf[o]

\* A transaction with a record keeps one, and with two it keeps two.
LEMMA RecordsStayOfStep ==
    ASSUME IInv, [Next]_vars
    PROVE  RecordsStay /\ PairsStay
<1>a. status \in [Output -> Deposited \cup {NoRecord}]
  BY DEF IInv, TypeOK
<1>1. ASSUME \A o \in Recorded : o \in Recorded' PROVE RecordsStay /\ PairsStay
  BY <1>1 DEF RecordsStay, PairsStay
<1>2. ASSUME NEW o \in obsInserts, InsertOne(o) PROVE RecordsStay /\ PairsStay
  BY <1>1, <1>2, <1>a DEF InsertOne, Recorded, NoRecord
<1>3. CASE FinalizerMark \/ FinalizerDiscard \/ SaClean
  BY <1>1, <1>3 DEF FinalizerMark, FinalizerDiscard, SaClean, SetStatus, Recorded,
                    NoRecord
<1>4. ASSUME NEW o \in Output, SaUpsert(o) PROVE RecordsStay /\ PairsStay
  <2>1. ASSUME status' = [status EXCEPT ![o] = "verified"]
        PROVE  RecordsStay /\ PairsStay
    BY <1>1, <1>a, <2>1 DEF Recorded, NoRecord
  <2>2. ASSUME NEW p \in Output, Matches(o, p), p = o \/ status[o] = NoRecord,
               status' = [status EXCEPT ![p] = NoRecord, ![o] = "verified"]
        PROVE  RecordsStay /\ PairsStay
    <3>1. o \in Recorded' /\ \A q \in Recorded : q # p => q \in Recorded'
      BY <1>a, <2>2 DEF Recorded, NoRecord
    <3>2. TxOf[p] = TxOf[o] /\ (p = o \/ o \notin Recorded)
      BY <2>2 DEF Matches, Recorded
    <3> QED BY <3>1, <3>2 DEF RecordsStay, PairsStay
  <2> QED BY <1>4, <2>1, <2>2 DEF SaUpsert
<1>5. CASE UNCHANGED status
  BY <1>1, <1>5 DEF Recorded
<1>6. \/ UNCHANGED status
      \/ \E o \in obsInserts : InsertOne(o)
      \/ FinalizerMark \/ FinalizerDiscard \/ SaClean
      \/ \E o \in Output : SaUpsert(o)
  BY DEF Next, Observer, Finalizer, Sa, vars, InsertFind, InsertDuplicate,
     ObserverRestarts, SaveCursor, ObserverCrash, FinalizerRead, Populate,
     FinalizerFails, SaFind, SaPost, SaFails, SaDuplicate, SaEnds, SaRecorded, SaCrash
<1> QED BY <1>2, <1>3, <1>4, <1>5, <1>6

\* Observer and finalizer leave what is finalized.
LEMMA OthersLeave ==
    ASSUME IInv, Observer \/ ObserverCrash \/ Finalizer \/ FinalizerFails
    PROVE  /\ UNCHANGED <<sentVars, saVars>>
           /\ \A o \in Output : status[o] = "finalized" => status'[o] = "finalized"
<1>1. UNCHANGED <<sentVars, saVars>>
  BY DEF Observer, ObserverCrash, Finalizer, FinalizerFails, InsertFind, InsertOne,
         InsertDuplicate, SaveCursor, ObserverRestarts, FinalizerRead, Populate,
         FinalizerMark, FinalizerDiscard
<1>2. \A o \in Output : status[o] = "finalized" => status'[o] = "finalized"
  <2>1. ASSUME NEW p \in obsInserts, InsertOne(p)
        PROVE  \A o \in Output : status[o] = "finalized" => status'[o] = "finalized"
    BY <2>1 DEF InsertOne, NoRecord, IInv, TypeOK
  <2>2. CASE FinalizerMark \/ FinalizerDiscard
    BY <2>2 DEF FinalizerMark, FinalizerDiscard, SetStatus
  <2>3. CASE /\ ~\E p \in obsInserts : InsertOne(p)
             /\ ~(FinalizerMark \/ FinalizerDiscard)
    BY <2>3
    DEF Observer, ObserverCrash, Finalizer, FinalizerFails, InsertFind,
        InsertDuplicate, SaveCursor, ObserverRestarts, FinalizerRead, Populate
  <2> QED BY <2>1, <2>2, <2>3
<1> QED BY <1>1, <1>2

LEMMA OthersKeepLife ==
    ASSUME IInv, LifeInv, RecordsStay,
           Observer \/ ObserverCrash \/ Finalizer \/ FinalizerFails
    PROVE  LifeInv'
<1>1. UNCHANGED <<posted, saPc, saBatch, saUpserts, unfinished>>
  BY OthersLeave DEF sentVars, saVars
<1>2. saTx' = saTx /\ OutputsOf(saTx)' = OutputsOf(saTx)
  BY <1>1 DEF saTx, OutputsOf
<1>3. saPc = "sign" => saBatch \subseteq WithStatus("finalized")'
  BY OthersLeave DEF LifeInv, WithStatus
<1> QED BY <1>1, <1>2, <1>3 DEF LifeInv, RecordsStay

LEMMA SaKeepsLife ==
    ASSUME IInv, LifeInv, RecordsStay, Sa \/ SaFails \/ SaCrash
    PROVE  LifeInv'
<1>a. /\ \A o \in Output : posted[o] \in 0..2
      /\ saBatch \in SUBSET Output
      /\ saPc \notin {"record", "raised"} => saUpserts = NoUpserts
  BY DEF IInv, TypeOK
<1>b. ASSUME saBatch' = saBatch PROVE OutputsOf(saTx)' = OutputsOf(saTx) /\ saTx' = saTx
  BY <1>b DEF OutputsOf, saTx
<1>1. CASE SaFind
  BY <1>1, <1>a DEF SaFind, LifeInv, NoUpserts, WithStatus
<1>2. CASE SaPost
  <2>1. /\ saPc = "sign" /\ saPc' = "record" /\ saBatch' = saBatch /\ status' = status
        /\ saUpserts' = [o \in Output |-> Copies(TxOf[o])] /\ Post
    BY <1>2 DEF SaPost
  <2>2. \A o \in OutputsOf(saTx) : posted'[o] > 0
    BY <1>a, <2>1 DEF Post, OutputsOf
  <2>3. \A o \in OutputsOf(saTx) : \E p \in Recorded : TxOf[p] = TxOf[o]
    BY <2>1 DEF LifeInv, OutputsOf, Recorded, NoRecord, saTx, WithStatus
  <2>4. Recorded' = Recorded
    BY <2>1 DEF Recorded
  <2>5. \A o \in Output : saUpserts'[o] > 0 => o \in OutputsOf(saTx)
    BY <1>a, <2>1, CopiesOfBatch DEF OutputsOf
  <2> QED BY <1>b, <2>1, <2>2, <2>3, <2>4, <2>5 DEF LifeInv
<1>3. ASSUME NEW o \in Output, SaUpsert(o) PROVE LifeInv'
  <2>1. /\ saPc \in {"record", "raised"}
        /\ UNCHANGED <<saPc, saBatch, posted, unfinished>>
        /\ \A p \in Output : saUpserts'[p] > 0 => saUpserts[p] > 0
    BY <1>3, UpsertTaken DEF SaUpsert, sentVars
  <2> QED BY <1>b, <2>1 DEF LifeInv, RecordsStay
<1>4. ASSUME NEW o \in Output, SaDuplicate(o) PROVE LifeInv'
  <2>1. /\ saPc \in {"record", "raised"} /\ saPc' = "raised"
        /\ UNCHANGED <<saBatch, posted>> /\ saTx \subseteq unfinished'
        /\ \A p \in Output : saUpserts'[p] > 0 => saUpserts[p] > 0
    BY <1>4, UpsertTaken DEF SaDuplicate, sentVars
  <2> QED BY <1>b, <2>1 DEF LifeInv, RecordsStay
<1>5. ASSUME SaPassEnds PROVE LifeInv'
  BY <1>5 DEF SaPassEnds, LifeInv, NoUpserts
<1>6. CASE SaRecorded
  <2>1. /\ saPc = "record" /\ saPc' = "clean"
        /\ UNCHANGED <<saBatch, posted, saUpserts, status>>
    BY <1>6 DEF SaRecorded, sentVars
  <2>2. Recorded' = Recorded
    BY <2>1 DEF Recorded
  <2> QED BY <1>b, <2>1, <2>2 DEF LifeInv
<1> QED BY <1>1, <1>2, <1>3, <1>4, <1>5, <1>6
        DEF Sa, SaFails, SaCrash, SaClean, SaEnds

LEMMA LifeInvStep ==
    ASSUME IInv, LifeInv, [Next]_vars
    PROVE  LifeInv'
<1>1. CASE UNCHANGED vars
  BY <1>1 DEF vars, saVars, sentVars, LifeInv, OutputsOf, Recorded, saTx, WithStatus
<1> QED BY <1>1, RecordsStayOfStep, OthersKeepLife, SaKeepsLife DEF Next

LEMMA LifeInvariance == Spec => [](IInv /\ LifeInv)
  BY InitInv, Inductive, LifeInvInit, LifeInvStep, PTL DEF Spec

-----------------------------------------------------------------------------
(* What is sent again, and what is sent twice in one message.              *)

Excused(t) == t \in unfinished \cup overtaken

\* The outputs of a transaction are sent together.  As long as every pass that
\* sent it came to its end: it is not posted yet while it is signed, and once
\* posted its outputs are to be upserted, or no longer to be sent.
PostInv ==
    /\ \A o \in Output, p \in Output :
         TxOf[o] = TxOf[p] => posted[o] = posted[p]
    /\ \A o \in Output : ~Excused(TxOf[o]) =>
         /\ posted[o] <= 1
         /\ posted[o] = 1 =>
              status[o] \notin {"pending", "finalized"} \/ saUpserts[o] > 0
         /\ saPc = "sign" /\ TxOf[o] \in saTx => posted[o] = 0

DoubledInv == DoubledHasTwoRecords

LEMMA PostInit == Init => PostInv /\ DoubledInv
  BY DEF Init, PostInv, DoubledInv, DoubledHasTwoRecords

\* What the observer and the finalizer do to a transaction Zex was told of.
LEMMA OthersKeepPost ==
    ASSUME IInv, PostInv, Observer \/ ObserverCrash \/ Finalizer \/ FinalizerFails
    PROVE  PostInv'
<1>1. UNCHANGED <<posted, saPc, saBatch, saUpserts, unfinished>> /\ saTx' = saTx
  BY OthersLeave DEF sentVars, saVars, saTx
<1>2. \A t : Excused(t) => Excused(t)'
  BY <1>1 DEF Excused, Observer, ObserverCrash, Finalizer, FinalizerFails, InsertFind,
     InsertOne, InsertDuplicate, SaveCursor, ObserverRestarts, FinalizerRead,
     Populate, FinalizerMark, FinalizerDiscard, historyVars
<1>3. \A o \in Output : posted[o] = 1 /\ status[o] \notin {"pending", "finalized"} =>
        Excused(TxOf[o])' \/ status'[o] \notin {"pending", "finalized"}
  <2>1. ASSUME NEW p \in obsInserts, InsertOne(p)
        PROVE  \A o \in Output : posted[o] = 1 => Excused(TxOf[o])' \/ status'[o] = status[o]
    BY <2>1 DEF InsertOne, IInv, TypeOK, Excused
  <2>2. CASE FinalizerMark \/ FinalizerDiscard
    BY <2>2 DEF FinalizerMark, FinalizerDiscard, SetStatus
  <2>3. CASE /\ ~\E p \in obsInserts : InsertOne(p)
             /\ ~(FinalizerMark \/ FinalizerDiscard)
    BY <2>3
    DEF Observer, ObserverCrash, Finalizer, FinalizerFails, InsertFind,
        InsertDuplicate, SaveCursor, ObserverRestarts, FinalizerRead, Populate
  <2> QED BY <2>1, <2>2, <2>3
<1> QED BY <1>1, <1>2, <1>3 DEF PostInv

LEMMA SaKeepsPost ==
    ASSUME IInv, LifeInv, PostInv, Sa \/ SaFails \/ SaCrash
    PROVE  PostInv'
<1>a. /\ status \in [Output -> Deposited \cup {NoRecord}]
      /\ \A o \in Output : posted[o] \in 0..2
      /\ saBatch \in SUBSET Output /\ saUpserts \in [Output -> Nat]
      /\ saPc \notin {"record", "raised"} => saUpserts = NoUpserts
  BY DEF IInv, TypeOK
<1>b. ASSUME saBatch' = saBatch PROVE saTx' = saTx
  BY <1>b DEF saTx
<1>c. ASSUME Post
      PROVE  /\ \A o \in Output, p \in Output :
                  TxOf[o] = TxOf[p] => posted'[o] = posted'[p]
             /\ \A o \in Output : TxOf[o] \notin saTx => posted'[o] = posted[o]
             /\ \A o \in Output : TxOf[o] \in saTx /\ posted[o] = 0 => posted'[o] = 1
  BY <1>c, <1>a DEF Post, PostInv
<1>1. CASE SaFind
  <2>1. /\ saBatch' \in SUBSET WithStatus("finalized") /\ saPc = "idle"
        /\ UNCHANGED <<status, posted, saUpserts, unfinished, overtaken>>
    BY <1>1 DEF SaFind, sentVars, historyVars
  <2>2. ASSUME NEW o \in Output, ~Excused(TxOf[o]), TxOf[o] \in saTx'
        PROVE  posted[o] = 0
    <3>1. PICK p \in saBatch' : TxOf[p] = TxOf[o]
      BY <2>2 DEF saTx
    <3>2. p \in Output /\ status[p] = "finalized"
      BY <2>1, <3>1 DEF WithStatus
    <3>3. posted[p] <= 1 /\ posted[p] # 1
      BY <1>a, <2>1, <2>2, <3>1, <3>2 DEF PostInv, NoUpserts
    <3> QED BY <1>a, <2>2, <3>1, <3>2, <3>3 DEF PostInv
  <2> QED BY <2>1, <2>2 DEF PostInv, Excused
<1>2. CASE SaPost
  <2>1. /\ saPc = "sign" /\ saPc' = "record" /\ Post
        /\ saUpserts' = [o \in Output |-> Copies(TxOf[o])]
        /\ UNCHANGED <<saBatch, status, unfinished, overtaken>>
    BY <1>2 DEF SaPost, historyVars
  <2>2. \A o \in Output : TxOf[o] \in saTx => saUpserts'[o] > 0
    BY <1>a, <2>1, CopiesOfBatch
  <2>3. ASSUME NEW o \in Output, ~Excused(TxOf[o])
        PROVE  /\ posted'[o] <= 1
               /\ posted'[o] = 1 =>
                    status[o] \notin {"pending", "finalized"} \/ saUpserts'[o] > 0
    <3>1. CASE TxOf[o] \in saTx
      BY <1>a, <1>c, <2>1, <2>2, <2>3, <3>1 DEF PostInv
    <3>2. CASE TxOf[o] \notin saTx
      BY <1>a, <1>c, <2>1, <2>3, <3>2 DEF PostInv, NoUpserts
    <3> QED BY <3>1, <3>2
  <2> QED BY <1>c, <2>1, <2>3 DEF PostInv, Excused
<1>3. ASSUME NEW o \in Output, SaUpsert(o) PROVE PostInv'
  <2>1. /\ saPc \in {"record", "raised"}
        /\ UNCHANGED <<saPc, saBatch, posted, unfinished, overtaken>>
        /\ \A p \in Output \ {o} : saUpserts'[p] = saUpserts[p]
    BY <1>3, UpsertTaken DEF SaUpsert, sentVars, historyVars
  <2>2. /\ status'[o] = "verified"
        /\ \A p \in Output \ {o} : status'[p] \in {status[p], NoRecord}
    BY <1>3, <1>a DEF SaUpsert
  <2> QED BY <2>1, <2>2 DEF PostInv, Excused, NoRecord
<1>4. ASSUME NEW o \in Output, SaDuplicate(o) PROVE PostInv'
  <2>1. /\ saPc' = "raised" /\ unfinished' = unfinished \cup saTx
        /\ UNCHANGED <<saBatch, posted, overtaken, status>>
        /\ \A p \in Output \ {o} : saUpserts'[p] = saUpserts[p]
    BY <1>4, UpsertTaken DEF SaDuplicate, sentVars, historyVars
  <2>2. TxOf[o] \in saTx
    BY <1>4, UpsertTaken DEF SaDuplicate, LifeInv, OutputsOf
  <2> QED BY <2>1, <2>2 DEF PostInv, Excused
<1>5. CASE SaEnds
  <2>1. /\ saPc = "raised" /\ saPc' = "idle"
        /\ UNCHANGED <<posted, overtaken, unfinished, status>>
    BY <1>5 DEF SaEnds, SaPassEnds, sentVars, historyVars
  <2>2. \A o \in Output : saUpserts[o] > 0 => Excused(TxOf[o])
    BY <2>1 DEF LifeInv, OutputsOf, Excused
  <2> QED BY <2>1, <2>2 DEF PostInv, Excused
<1>6. CASE SaRecorded
  BY <1>6, <1>b DEF SaRecorded, PostInv, Excused, sentVars, historyVars
<1>7. CASE SaClean
  <2>1. /\ saPc = "clean" /\ saPc' = "idle"
        /\ UNCHANGED <<posted, overtaken, unfinished>>
        /\ \A o \in Output : status'[o] \in {status[o], "reorg"}
    BY <1>7 DEF SaClean, SetStatus, SaPassEnds, sentVars, historyVars
  <2> QED BY <1>a, <2>1 DEF PostInv, Excused, NoUpserts
<1>8. CASE SaFails
  <2>1. /\ saPc = "sign" /\ saPc' = "idle" /\ UNCHANGED <<overtaken, status>>
        /\ unfinished \subseteq unfinished'
        /\ \/ Post /\ unfinished' = unfinished \cup saTx
           \/ posted' = posted
    BY <1>8 DEF SaFails, SaPassEnds, sentVars, historyVars
  <2> QED BY <1>a, <1>c, <2>1 DEF PostInv, Excused, NoUpserts
<1>9. CASE SaCrash
  <2>1. /\ saPc' = "idle" /\ unfinished' = unfinished \cup saTx
        /\ UNCHANGED <<posted, overtaken, status>>
    BY <1>9 DEF SaCrash, SaPassEnds, sentVars, historyVars
  <2>2. \A o \in Output : saUpserts[o] > 0 => TxOf[o] \in saTx
    BY DEF LifeInv, OutputsOf
  <2> QED BY <2>1, <2>2 DEF PostInv, Excused
<1> QED BY <1>1, <1>2, <1>3, <1>4, <1>5, <1>6, <1>7, <1>8, <1>9 DEF Sa

\* A transaction is sent twice by a batch with two of its outputs, and no step
\* leaves it fewer records.
LEMMA DoubledStep ==
    ASSUME IInv, LifeInv, DoubledInv, [Next]_vars
    PROVE  DoubledInv'
<1>a. PairsStay
  BY RecordsStayOfStep
<1>b. TypeOK /\ saBatch \in SUBSET Output
  BY DEF IInv, TypeOK
<1>1. ASSUME NEW t \in doubled
      PROVE  \E o \in Recorded', p \in Recorded' : o # p /\ TxOf[o] = t /\ TxOf[p] = t
  BY <1>1, <1>a DEF DoubledInv, DoubledHasTwoRecords, Siblings, PairsStay
<1>2. ASSUME saPc = "sign", Post, status' = status, NEW t \in doubled' \ doubled
      PROVE  \E o \in Recorded', p \in Recorded' : o # p /\ TxOf[o] = t /\ TxOf[p] = t
  <2>1. Copies(t) > 1
    BY <1>2 DEF Post
  <2>2. PICK o \in saBatch, p \in saBatch : o # p /\ TxOf[o] = t /\ TxOf[p] = t
    BY <1>b, <2>1, CopiesOfBatch
  <2>3. saBatch \subseteq Recorded'
    BY <1>2 DEF LifeInv, WithStatus, Recorded, NoRecord
  <2> QED BY <2>2, <2>3
<1>3. \/ doubled' = doubled
      \/ saPc = "sign" /\ Post /\ status' = status
  BY OthersLeave DEF Next, Sa, SaFind, SaPost, SaFails, SaUpsert, SaDuplicate, SaEnds,
     SaRecorded, SaClean, SaCrash, sentVars, vars
<1>4. \A t \in doubled' :
        \E o \in Recorded', p \in Recorded' : o # p /\ TxOf[o] = t /\ TxOf[p] = t
  BY <1>1, <1>2, <1>3
<1> QED BY <1>4 DEF DoubledInv, DoubledHasTwoRecords, Siblings, Recorded

LEMMA PostInvariance == Spec => [](PostInv /\ DoubledInv)
<1>1. PostInv /\ UNCHANGED vars => PostInv'
  BY DEF PostInv, Excused, vars, saVars, sentVars, historyVars, saTx
<1>2. IInv /\ LifeInv /\ PostInv /\ [Next]_vars => PostInv'
  BY <1>1, OthersKeepPost, SaKeepsPost DEF Next
<1> QED BY <1>2, PostInit, DoubledStep, LifeInvariance, PTL DEF Spec

\* Zex is sent a deposit in a second message only after a pass that sent its
\* transaction and did not come to its end, with its upserts and the clean, or
\* after an output of the transaction was inserted behind the post
\* (upsert_deposits before the next find_deposit_by_status).
THEOREM RepostsAreExplained == Spec => []RepostIsExplained
<1>1. IInv /\ PostInv => RepostIsExplained
  BY DEF IInv, TypeOK, PostInv, RepostIsExplained, Excused
<1> QED BY <1>1, Invariance, PostInvariance, PTL

\* Zex is sent a transaction twice in one message only if two of its outputs
\* have records, and keeps them (txs_hash of the SA, the flattened transfers
\* of the validators).
THEOREM DoublingIsExplained == Spec => []DoubledHasTwoRecords
<1>1. DoubledInv => DoubledHasTwoRecords
  BY DEF DoubledInv
<1> QED BY <1>1, PostInvariance, PTL

-----------------------------------------------------------------------------
(* BtcDeposits implements BtcLifecycle.                                    *)

LEMMA RefineInit == Init => Lifecycle!LifecycleInit
<1> SUFFICES ASSUME Init PROVE Lifecycle!LifecycleInit
  OBVIOUS
<1>1. Told = {}
  BY DEF Init, Told
<1> QED BY <1>1 DEF Init, Lifecycle!LifecycleInit, NoRecord

\* A step that changes neither a record nor what Zex was told is none of the
\* lifecycle.
LEMMA RefineSilent ==
    ASSUME status' = status, posted' = posted
    PROVE  UNCHANGED Lifecycle!lifecycleVars
  BY DEF Lifecycle!lifecycleVars, Told

\* The finalizer's updates.
LEMMA RefineUpdate ==
    ASSUME FinalizerMark \/ FinalizerDiscard
    PROVE  Lifecycle!LifecycleNext
<1> DEFINE S == WithStatus("pending")
<1>1. S \in SUBSET Output /\ \A o \in S : status[o] = "pending"
  BY DEF WithStatus
<1>2. Told' = Told
  BY DEF FinalizerMark, FinalizerDiscard, Told, sentVars
<1>3. CASE FinalizerMark
  <2>1. status' = [o \in Output |-> IF o \in S THEN "finalized" ELSE status[o]]
    BY <1>3 DEF FinalizerMark, SetStatus, WithStatus
  <2>2. Lifecycle!Finalize(S)
    BY <1>1, <1>2, <2>1 DEF Lifecycle!Finalize, Lifecycle!Move
  <2> HIDE DEF S
  <2> QED BY <1>1, <2>2 DEF Lifecycle!LifecycleNext
<1>4. CASE FinalizerDiscard
  <2>1. status' = [o \in Output |-> IF o \in S THEN "reorg" ELSE status[o]]
    BY <1>4 DEF FinalizerDiscard, SetStatus, WithStatus
  <2>2. Lifecycle!Discard(S)
    BY <1>1, <1>2, <2>1 DEF Lifecycle!Discard, Lifecycle!Move
  <2> HIDE DEF S
  <2> QED BY <1>1, <2>2 DEF Lifecycle!LifecycleNext
<1> QED BY <1>3, <1>4

\* Zex is told, whether its answer arrives or not.
LEMMA RefinePost ==
    ASSUME IInv, LifeInv, saPc = "sign", Post, status' = status
    PROVE  Lifecycle!LifecycleNext
<1> DEFINE S == OutputsOf(saTx)
<1>1. S \in SUBSET Output
  BY DEF OutputsOf
<1>2. Told' = Told \cup S
  <2>1. posted \in [Output -> 0..2]
    BY DEF IInv, TypeOK
  <2>2. \A o \in Output : posted'[o] > 0 <=> posted[o] > 0 \/ o \in S
    BY <2>1 DEF Post, OutputsOf
  <2> QED BY <2>2, <1>1 DEF Told
<1>3. ASSUME NEW o \in S
      PROVE  /\ Lifecycle!SameTx(o) \subseteq S
             /\ \E p \in Lifecycle!SameTx(o) : status[p] = "finalized"
  BY <1>3 DEF OutputsOf, Lifecycle!SameTx, LifeInv, saTx, WithStatus
<1>4. Lifecycle!Tell(S)
  BY <1>2, <1>3 DEF Lifecycle!Tell
<1> HIDE DEF S
<1> QED BY <1>1, <1>4 DEF Lifecycle!LifecycleNext

\* An output Zex was told of is verified.
LEMMA RefineUpsert ==
    ASSUME IInv, LifeInv, NEW o \in Output, SaUpsert(o)
    PROVE  Lifecycle!LifecycleNext
<1>1. /\ saPc \in {"record", "raised"} /\ o \in OutputsOf(saTx)
      /\ status \in [Output -> Deposited \cup {NoRecord}]
  BY UpsertTaken DEF SaUpsert, IInv, TypeOK, LifeInv
<1>2. posted[o] > 0 /\ \E p \in Recorded : TxOf[p] = TxOf[o]
  BY <1>1 DEF LifeInv
<1>3. \E p \in Output : Matches(o, p)
  BY <1>2 DEF Matches, Recorded
<1>4. PICK p \in Output :
        /\ Matches(o, p) /\ (p = o \/ status[o] = NoRecord)
        /\ status' = [status EXCEPT ![p] = NoRecord, ![o] = "verified"]
  BY <1>3 DEF SaUpsert
<1>5. Told' = Told
  BY DEF SaUpsert, Told, sentVars
<1>6. Lifecycle!Verify(o, p)
  BY <1>1, <1>2, <1>4, <1>5
  DEF Lifecycle!Verify, Lifecycle!SameTx, Told, Matches, NoRecord
<1> QED BY <1>1, <1>6 DEF Lifecycle!LifecycleNext

\* What the SA cleans Zex was told of.
LEMMA RefineClean ==
    ASSUME IInv, LifeInv, SaClean
    PROVE  Lifecycle!LifecycleNext
<1> DEFINE S == {o \in OutputsOf(saTx) : status[o] = "finalized"}
<1>1. S \in SUBSET Output /\ S \subseteq Told
  BY DEF SaClean, OutputsOf, LifeInv, Told
<1>2. status' = [o \in Output |-> IF o \in S THEN "reorg" ELSE status[o]]
  BY DEF SaClean, SetStatus
<1>3. Told' = Told
  BY DEF SaClean, Told, sentVars
<1>4. Lifecycle!Drop(S)
  BY <1>1, <1>2, <1>3 DEF Lifecycle!Drop, Lifecycle!Move
<1> HIDE DEF S
<1> QED BY <1>1, <1>4 DEF Lifecycle!LifecycleNext

LEMMA RefineStep ==
    ASSUME IInv, LifeInv, [Next]_vars
    PROVE  [Lifecycle!LifecycleNext]_(Lifecycle!lifecycleVars)
<1>1. CASE status' = status /\ posted' = posted
  BY <1>1, RefineSilent
<1>2. ASSUME NEW o \in obsInserts, InsertOne(o)
      PROVE  Lifecycle!LifecycleNext
  <2>1. o \in Output /\ status \in [Output -> Deposited \cup {NoRecord}]
    BY DEF IInv, TypeOK
  <2>2. status' = [p \in Output |-> IF p \in {o} THEN "pending" ELSE status[p]]
    BY <1>2, <2>1 DEF InsertOne
  <2>3. Told' = Told
    BY <1>2 DEF InsertOne, Told, sentVars
  <2>4. Lifecycle!Record(o)
    BY <1>2, <2>2, <2>3 DEF InsertOne, Lifecycle!Record, Lifecycle!Move, NoRecord
  <2> QED BY <2>1, <2>4 DEF Lifecycle!LifecycleNext
<1>3. CASE FinalizerMark \/ FinalizerDiscard
  BY <1>3, RefineUpdate
<1>4. CASE SaPost \/ SaFails
  <2>1. saPc = "sign" /\ status' = status /\ (Post \/ posted' = posted)
    BY <1>4 DEF SaPost, SaFails, sentVars
  <2> QED BY <2>1, RefinePost, RefineSilent
<1>5. ASSUME NEW o \in Output, SaUpsert(o) PROVE Lifecycle!LifecycleNext
  BY <1>5, RefineUpsert
<1>6. CASE SaClean
  BY <1>6, RefineClean
<1>7. \/ status' = status /\ posted' = posted
      \/ \E o \in obsInserts : InsertOne(o)
      \/ FinalizerMark \/ FinalizerDiscard \/ SaPost \/ SaFails \/ SaClean
      \/ \E o \in Output : SaUpsert(o)
  BY DEF Next, Observer, Finalizer, Sa, vars, InsertFind, InsertDuplicate,
     ObserverRestarts, SaveCursor, ObserverCrash, FinalizerRead, Populate,
     FinalizerFails, SaFind, SaDuplicate, SaEnds, SaRecorded, SaCrash, sentVars
<1> QED BY <1>1, <1>2, <1>3, <1>4, <1>5, <1>6, <1>7

\* The records live the life BtcLifecycle promises, for every block, batch
\* size and number of faults: Zex is told of whole transactions with a
\* finalized output, only what it was told of is verified or dropped, and a
\* record goes only when another of its transaction takes its place
\* (upsert_deposit, to_reorg_with_tx_hash).
THEOREM LifecycleImplemented == Spec => Refinement
  BY LifeInvariance, RefineInit, RefineStep, PTL
  DEF Spec, Refinement, Lifecycle!LifecycleSpec
=============================================================================
