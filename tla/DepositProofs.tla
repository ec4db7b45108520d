---------------------------- MODULE DepositProofs ----------------------------
(***************************************************************************)
(* Proofs about the deposit pipeline, for every value of the constants:    *)
(* types, the saved cursor, what Zex was told of (SafetyInv is inductive   *)
(* if ReorgDepth <= Conf), that the pipeline implements DepositLifecycle,  *)
(* and by which causes alone a deposit is lost.                            *)
(***************************************************************************)
EXTENDS DepositInvariant, DepositLosses, FiniteSetTheorems, TLAPS

-----------------------------------------------------------------------------
(* Type correctness, component by component. *)

\* Growing the chain and replacing its last blocks keep the chain's types.
LEMMA ChainStepType ==
    ASSUME ChainTypeOK, Mine \/ Reorg
    PROVE  ChainTypeOK'
<1>1. CASE Mine
  BY <1>1, ChainAssumption DEF ChainTypeOK, Mine
<1>2. CASE Reorg
  <2>1. PICK w \in [Unsettled -> {0} \cup {b \in 1..head : b > Settled}] :
          where' = [t \in Tx |-> IF t \in Unsettled THEN w[t] ELSE where[t]]
    BY <1>2 DEF Reorg
  <2>2. where' \in [Tx -> Nat] /\ \A t \in Tx : where'[t] <= head
    BY <2>1 DEF ChainTypeOK
  <2>3. reverted' \in SUBSET Fragile
    BY <1>2 DEF Reorg, ChainTypeOK
  <2> QED
    BY <1>2, <2>2, <2>3 DEF Reorg, ChainTypeOK
<1> QED
  BY <1>1, <1>2

\* A fault only counts up the faults of one process.
LEMMA FaultType ==
    ASSUME NEW p \in Process, Fault(p), faults \in [Process -> Nat]
    PROVE  /\ faults' \in [Process -> Nat]
           /\ faults'[p] = faults[p] + 1
           /\ \A q \in Process \ {p} : faults'[q] = faults[q]
  BY DEF Fault

\* The operations on the collection keep its type.
LEMMA UpsertType ==
    ASSUME StoreTypeOK, NEW t \in Tx, NEW b \in Nat, NEW s \in DepositStatus,
           Upsert(t, b, s)
    PROVE  StoreTypeOK'
  BY DEF StoreTypeOK, Upsert

LEMMA SetStatusType ==
    ASSUME StoreTypeOK, NEW S, NEW old, NEW new \in DepositStatus,
           SetStatus(S, old, new)
    PROVE  StoreTypeOK'
  BY DEF StoreTypeOK, SetStatus

\* The observer's steps.
LEMMA ObserverStepType ==
    ASSUME TypeOK, Observer
    PROVE  TypeOK'
<1> USE DEF TypeOK
<1>a. UNCHANGED <<chainVars>> /\ UNCHANGED <<finalizerVars, saVars>>
  BY DEF Observer, ObserverWork, ObserverFault, ObserverStart, BeginScan,
         ObserverReadBlock, ObserverAccept, ObserverInsert, ObserverSave,
         ObserverScanFails, ObserverCrash
<1>b. FinalizerTypeOK' /\ SaTypeOK'
  BY <1>a DEF FinalizerTypeOK, SaTypeOK, finalizerVars, saVars
<1>c. ASSUME UNCHANGED faults PROVE ChainTypeOK'
  BY <1>a, <1>c DEF ChainTypeOK, chainVars
<1>d. ASSUME Fault("observer") PROVE ChainTypeOK'
  BY <1>a, <1>d, FaultType DEF ChainTypeOK, chainVars, Process
<1>e. ASSUME UNCHANGED store PROVE StoreTypeOK'
  BY <1>e DEF StoreTypeOK, store
<1>1. CASE ObserverStart
  <2>1. PICK latest \in Latest :
          /\ ScanBase(latest) < MinOf(latest, ScanBase(latest) + BatchBlocks)
          /\ BeginScan(ScanBase(latest),
                       MinOf(latest, ScanBase(latest) + BatchBlocks))
    BY <1>1 DEF ObserverStart
  <2>2. latest \in Nat /\ latest >= 1
    BY DEF Latest, ChainTypeOK
  <2>3. ScanBase(latest) \in Nat
    BY <2>2 DEF ScanBase, ObserverTypeOK, NoBlock
  <2>4. MinOf(latest, ScanBase(latest) + BatchBlocks) \in Nat
    BY <2>2, <2>3, ObserverAssumption DEF MinOf
  <2>5. ObserverTypeOK'
    BY <2>1, <2>3, <2>4
       DEF BeginScan, RefreshBook, cursor, ObserverTypeOK, NoBlock
  <2> QED
    BY <2>1, <2>5, <1>b, <1>c, <1>e DEF BeginScan
<1>2. ASSUME NEW b \in obsTodo, ObserverReadBlock(b) PROVE TypeOK'
  <2>1. ObserverTypeOK'
    BY <1>2 DEF ObserverReadBlock, ObserverTypeOK, BlockTx, cursor, NoBlock
  <2> QED
    BY <1>2, <2>1, <1>b, <1>c, <1>e DEF ObserverReadBlock
<1>3. ASSUME NEW p \in obsSeen, ObserverAccept(p) PROVE TypeOK'
  <2>1. ObserverTypeOK'
    BY <1>3 DEF ObserverAccept, ObserverTypeOK, cursor, NoBlock
  <2> QED
    BY <1>3, <2>1, <1>b, <1>c, <1>e DEF ObserverAccept
<1>4. ASSUME NEW p \in obsFound, ObserverInsert(p) PROVE TypeOK'
  <2>1. p[1] \in Tx /\ p[2] \in Nat
    BY DEF ObserverTypeOK
  <2>2. StoreTypeOK'
    <3>1. AcceptedStatus(p[1], "pending") \in DepositStatus
      BY DEF AcceptedStatus, DepositStatus
    <3> QED
      BY <1>4, <1>e, <2>1, <3>1, UpsertType DEF ObserverInsert, InsertIfNotExists
  <2>3. ObserverTypeOK'
    BY <1>4 DEF ObserverInsert, ObserverTypeOK, cursor, NoBlock
  <2> QED
    BY <1>4, <2>2, <2>3, <1>b, <1>c DEF ObserverInsert
<1>5. CASE ObserverSave
  <2>1. ObserverTypeOK'
    BY <1>5 DEF ObserverSave, SaveCursor, ObserverTypeOK, NoBlock
  <2> QED
    BY <1>5, <2>1, <1>b, <1>c, <1>e DEF ObserverSave
<1>6. CASE ObserverScanFails
  <2>1. ObserverTypeOK'
    BY <1>6 DEF ObserverScanFails, ObserverTypeOK, cursor, NoBlock
  <2> QED
    BY <1>6, <2>1, <1>b, <1>d, <1>e DEF ObserverScanFails
<1>7. CASE ObserverCrash
  <2>1. ObserverTypeOK'
    BY <1>7 DEF ObserverCrash, ObserverTypeOK, cursor, NoBlock
  <2> QED
    BY <1>7, <2>1, <1>b, <1>d, <1>e DEF ObserverCrash
<1> QED
  BY <1>1, <1>2, <1>3, <1>4, <1>5, <1>6, <1>7
     DEF Observer, ObserverWork, ObserverFault

\* The chain's steps.
LEMMA ChainTypeStep ==
    ASSUME TypeOK, Chain
    PROVE  TypeOK'
<1>1. ChainTypeOK'
  BY ChainStepType DEF TypeOK, Chain
<1>2. UNCHANGED <<store, observerVars, finalizerVars, saVars>>
  BY DEF Chain
<1>3. StoreTypeOK' /\ ObserverTypeOK'
  BY <1>2 DEF TypeOK, StoreTypeOK, ObserverTypeOK, store, observerVars, scan
<1>4. FinalizerTypeOK' /\ SaTypeOK'
  BY <1>2 DEF TypeOK, FinalizerTypeOK, SaTypeOK, finalizerVars, saVars
<1> QED
  BY <1>1, <1>3, <1>4 DEF TypeOK

\* A pass of the finalizer works on batches of block numbers.
LEMMA TakeBatchType ==
    ASSUME NEW todo \in SUBSET Nat, TakeBatch(todo)
    PROVE  /\ finBatch' \in SUBSET todo /\ finTodo' \in SUBSET todo
           /\ finUnread' = finBatch' /\ finHashes' = {}
           /\ finPc' \in {"idle", "fetch"}
           /\ finPc' = "fetch" <=> finBatch' # {}
           /\ finNum' \in {0, finNum}
  BY DEF TakeBatch, NextBatch

\* The finalizer's steps.
LEMMA FinalizerStepType ==
    ASSUME TypeOK, Finalizer
    PROVE  TypeOK'
<1> USE DEF TypeOK
<1>a. UNCHANGED <<observerVars, saVars>> /\ UNCHANGED chainVars
  BY DEF Finalizer, FinalizerWork, FinalizerAbort, FinalizerStart,
         FinalizerQuery, FinalizerFetch, FinalizerMark, FinalizerDiscard
<1>b. ObserverTypeOK' /\ SaTypeOK'
  BY <1>a DEF ObserverTypeOK, SaTypeOK, observerVars, scan, saVars
<1>c. ASSUME UNCHANGED faults PROVE ChainTypeOK'
  BY <1>a, <1>c DEF ChainTypeOK, chainVars
<1>e. ASSUME UNCHANGED store PROVE StoreTypeOK'
  BY <1>e DEF StoreTypeOK, store
<1>1. CASE FinalizerStart
  <2>1. FinalizerTypeOK'
    BY <1>1, ChainAssumption
       DEF FinalizerStart, FinalizerTypeOK, FinalizedNumber, Latest, ChainTypeOK
  <2> QED
    BY <1>1, <2>1, <1>b, <1>c, <1>e DEF FinalizerStart
<1>2. CASE FinalizerQuery
  <2>1. PendingBlocks(finNum) \in SUBSET Nat
    BY DEF PendingBlocks, WithStatus, StoreTypeOK
  <2>2. FinalizerTypeOK'
    BY <1>2, <2>1, TakeBatchType DEF FinalizerQuery, FinalizerTypeOK
  <2> QED
    BY <1>2, <2>2, <1>b, <1>c, <1>e DEF FinalizerQuery
<1>3. ASSUME NEW b \in finUnread, FinalizerFetch(b) PROVE TypeOK'
  <2>1. FinalizerTypeOK'
    BY <1>3 DEF FinalizerFetch, FinalizerTypeOK, BlockTx
  <2> QED
    BY <1>3, <2>1, <1>b, <1>c, <1>e DEF FinalizerFetch
<1>4. CASE FinalizerMark
  <2>1. StoreTypeOK'
    BY <1>4, SetStatusType DEF FinalizerMark, ToFinalized, DepositStatus
  <2>2. FinalizerTypeOK'
    BY <1>4 DEF FinalizerMark, FinalizerTypeOK
  <2> QED
    BY <1>4, <2>1, <2>2, <1>b, <1>c DEF FinalizerMark
<1>5. CASE FinalizerDiscard
  <2>1. StoreTypeOK'
    BY <1>5, SetStatusType DEF FinalizerDiscard, ToReorgBlockNumber, DepositStatus
  <2>2. FinalizerTypeOK'
    <3>1. finTodo \in SUBSET Nat /\ finNum \in Int /\ TakeBatch(finTodo)
      BY <1>5 DEF FinalizerDiscard, FinalizerTypeOK
    <3>2. /\ finBatch' \in SUBSET finTodo /\ finTodo' \in SUBSET finTodo
          /\ finUnread' = finBatch' /\ finHashes' = {}
          /\ finPc' \in {"idle", "fetch"}
          /\ finPc' = "fetch" <=> finBatch' # {}
          /\ finNum' \in {0, finNum}
      BY <3>1, TakeBatchType
    <3> QED BY <3>1, <3>2 DEF FinalizerTypeOK
  <2> QED
    BY <1>5, <2>1, <2>2, <1>b, <1>c DEF FinalizerDiscard
<1>6. CASE FinalizerAbort
  <2>1. FinalizerTypeOK'
    BY <1>6 DEF FinalizerAbort, FinalizerTypeOK
  <2>2. ChainTypeOK'
    BY <1>6, <1>a, FaultType DEF FinalizerAbort, ChainTypeOK, chainVars, Process
  <2> QED
    BY <1>6, <2>1, <2>2, <1>b, <1>e DEF FinalizerAbort
<1> QED
  BY <1>1, <1>2, <1>3, <1>4, <1>5, <1>6 DEF Finalizer, FinalizerWork

\* The SA's steps.
LEMMA SaStepType ==
    ASSUME TypeOK, Sa
    PROVE  TypeOK'
<1> USE DEF TypeOK
<1>a. UNCHANGED <<cursor, obsLast, scan, finalizerVars>> /\ UNCHANGED chainVars
  BY DEF Sa, SaWork, SaFault, SaFind, SaSign, SaRefused, SaDeliver,
         SaDeliverUnacked, SaRecord, SaClean, SaAbort
<1>b. FinalizerTypeOK'
  BY <1>a DEF FinalizerTypeOK, finalizerVars
<1>c. ASSUME UNCHANGED faults PROVE ChainTypeOK'
  BY <1>a, <1>c DEF ChainTypeOK, chainVars
<1>d. ASSUME Fault("sa") PROVE ChainTypeOK'
  BY <1>a, <1>d, FaultType DEF ChainTypeOK, chainVars, Process
<1>e. ASSUME UNCHANGED store PROVE StoreTypeOK'
  BY <1>e DEF StoreTypeOK, store
<1>f. ASSUME UNCHANGED book \/ RefreshBook PROVE ObserverTypeOK'
  BY <1>a, <1>f DEF ObserverTypeOK, RefreshBook, cursor, scan
<1>1. CASE SaFind
  <2>1. SaTypeOK'
    BY <1>1 DEF SaFind, SaTypeOK, FirstByBlock, WithStatus, StoreTypeOK
  <2> QED
    BY <1>1, <2>1, <1>b, <1>c, <1>e, <1>f DEF SaFind
<1>2. CASE SaSign
  <2>1. SaTypeOK'
    BY <1>2 DEF SaSign, SaTypeOK, ChainTypeOK
  <2> QED
    BY <1>2, <2>1, <1>b, <1>c, <1>e, <1>f DEF SaSign
<1>3. CASE SaRefused
  <2>1. SaTypeOK'
    BY <1>3 DEF SaRefused, SaTypeOK
  <2> QED
    BY <1>3, <2>1, <1>b, <1>c, <1>e, <1>f DEF SaRefused
<1>4. ASSUME Post, SaTypeOK PROVE sends' \in [Tx -> Nat]
  BY <1>4 DEF Post, SaTypeOK
<1>5. CASE SaDeliver
  <2>1. SaTypeOK'
    BY <1>4, <1>5 DEF SaDeliver, SaTypeOK
  <2> QED
    BY <1>5, <2>1, <1>b, <1>c, <1>e, <1>f DEF SaDeliver
<1>6. CASE SaDeliverUnacked
  <2>1. SaTypeOK'
    BY <1>4, <1>6 DEF SaDeliverUnacked, SaTypeOK
  <2> QED
    BY <1>6, <2>1, <1>b, <1>d, <1>e, <1>f DEF SaDeliverUnacked
<1>7. ASSUME NEW p \in saSigned, SaRecord(p) PROVE TypeOK'
  <2>1. p[1] \in Tx /\ p[2] \in Nat
    BY DEF SaTypeOK
  <2>2. AcceptedStatus(p[1], "verified") \in DepositStatus
    BY DEF AcceptedStatus, DepositStatus
  <2>3. StoreTypeOK'
    BY <1>7, <2>1, <2>2, UpsertType DEF SaRecord
  <2>4. SaTypeOK'
    BY <1>7 DEF SaRecord, SaTypeOK
  <2> QED
    BY <1>7, <2>3, <2>4, <1>b, <1>c, <1>f DEF SaRecord
<1>8. CASE SaClean
  <2>1. StoreTypeOK'
    BY <1>8, SetStatusType DEF SaClean, ToReorgWithTxHash, DepositStatus
  <2>2. SaTypeOK'
    BY <1>8 DEF SaClean, SaTypeOK
  <2> QED
    BY <1>8, <2>1, <2>2, <1>b, <1>c, <1>f DEF SaClean
<1>9. CASE SaAbort
  <2>1. SaTypeOK'
    BY <1>9 DEF SaAbort, SaTypeOK
  <2> QED
    BY <1>9, <2>1, <1>b, <1>d, <1>e, <1>f DEF SaAbort
<1> QED
  BY <1>1, <1>2, <1>3, <1>5, <1>6, <1>7, <1>8, <1>9 DEF Sa, SaWork, SaFault

LEMMA InitType == Init => TypeOK
  BY DEF Init, ChainInit, StoreInit, ObserverInit, FinalizerInit, SaInit,
         TypeOK, ChainTypeOK, StoreTypeOK, ObserverTypeOK, FinalizerTypeOK,
         SaTypeOK, Process, NoBlock

LEMMA StutterType == TypeOK /\ UNCHANGED vars => TypeOK'
  BY DEF vars, chainVars, store, observerVars, scan, finalizerVars, saVars,
         TypeOK, ChainTypeOK, StoreTypeOK, ObserverTypeOK, FinalizerTypeOK,
         SaTypeOK

\* Every step of the pipeline keeps the types, and the local variables of the
\* loops are empty between passes.
LEMMA NextType == TypeOK /\ [Next]_vars => TypeOK'
  BY ChainTypeStep, ObserverStepType, FinalizerStepType, SaStepType, StutterType
     DEF Next

\* The pipeline is type-correct.
THEOREM TypeCorrect == Spec => []TypeOK
<1>1. Init => TypeOK
  BY InitType
<1>2. TypeOK /\ [Next]_vars => TypeOK'
  BY NextType
<1> QED
  BY <1>1, <1>2, PTL DEF Spec

-----------------------------------------------------------------------------
\* The pass under way ends above the saved cursor, or the process goes on from
\* the cursor or above.
CursorInv ==
    IF obsTo = NoBlock THEN obsLast >= lastObserved ELSE obsTo >= lastObserved

LEMMA CursorStep ==
    ASSUME TypeOK, CursorInv, [Next]_vars
    PROVE  CursorInv' /\ lastObserved' >= lastObserved
<1>a. /\ NoBlock \in Int /\ NoBlock < 0
      /\ lastObserved \in Int /\ obsLast \in Int /\ obsTo \in Int
      /\ lastObserved >= NoBlock
  BY DEF TypeOK, ObserverTypeOK, NoBlock
<1>1. CASE UNCHANGED <<lastObserved, obsLast, obsTo>>
  BY <1>1, <1>a DEF CursorInv
<1>2. CASE ObserverStart
  <2>1. PICK latest \in Latest :
          /\ ScanBase(latest) < MinOf(latest, ScanBase(latest) + BatchBlocks)
          /\ BeginScan(ScanBase(latest),
                       MinOf(latest, ScanBase(latest) + BatchBlocks))
    BY <1>2 DEF ObserverStart
  <2> DEFINE to == MinOf(latest, ScanBase(latest) + BatchBlocks)
  <2>2. latest \in Nat /\ latest >= 1
    BY DEF Latest, TypeOK, ChainTypeOK
  <2>3. obsLast >= lastObserved
    BY <1>2 DEF ObserverStart, CursorInv
  <2>4. ScanBase(latest) \in Int /\ ScanBase(latest) >= lastObserved /\ ScanBase(latest) >= 0
    <3>1. CASE obsLast \in {NoBlock, 0}
      BY <1>a, <2>2, <2>3, <3>1 DEF ScanBase
    <3>2. CASE obsLast \notin {NoBlock, 0}
      BY <1>a, <2>3, <3>2 DEF ScanBase, NoBlock, TypeOK, ObserverTypeOK
    <3> QED BY <3>1, <3>2
  <2>5. to \in Int /\ to >= lastObserved /\ to # NoBlock
    BY <1>a, <2>1, <2>2, <2>4, ObserverAssumption DEF MinOf
  <2>6. obsTo' = to /\ lastObserved' = lastObserved
    BY <2>1 DEF BeginScan, cursor
  <2> QED
    BY <1>a, <2>5, <2>6 DEF CursorInv, NoBlock
<1>3. CASE ObserverSave
  BY <1>3, <1>a DEF ObserverSave, SaveCursor, CursorInv, NoBlock
<1>4. CASE ObserverCrash
  BY <1>4, <1>a DEF ObserverCrash, CursorInv, cursor, NoBlock
<1> QED
  BY <1>1, <1>2, <1>3, <1>4
  DEF Next, vars, Chain, Finalizer, Sa, Observer, ObserverWork, ObserverFault,
      ObserverReadBlock, ObserverAccept, ObserverInsert, ObserverScanFails,
      cursor, observerVars, scan

\* The saved cursor never goes back, however old the heads the nodes answer
\* with (the tests of observe_deposit before a scan).
THEOREM CursorNeverGoesBack == Spec => CursorMonotone
<1>1. Init => CursorInv
  BY DEF Init, ObserverInit, CursorInv, NoBlock
<1>2. TypeOK /\ CursorInv /\ [Next]_vars => CursorInv'
  BY CursorStep
<1>3. TypeOK /\ CursorInv /\ [Next]_vars => [lastObserved' >= lastObserved]_vars
  BY CursorStep
<1> QED
  BY <1>1, <1>2, <1>3, TypeCorrect, PTL DEF Spec, CursorMonotone

-----------------------------------------------------------------------------
(* The chain. *)

\* A final transfer stays in its block, with its outcome, and stays final.
LEMMA FinalStable ==
    ASSUME ReorgDepth <= Conf, ChainTypeOK, Mine \/ Reorg,
           NEW t \in Tx, Final(t)
    PROVE  Final(t)' /\ where'[t] = where[t] /\ (t \in reverted' <=> t \in reverted)
<1> USE ChainAssumption
<1>0. where[t] \in Nat /\ head \in Nat /\ where[t] # 0 /\ where[t] <= head - Conf
  BY DEF ChainTypeOK, Final
<1>1. CASE Mine
  <2>1. where'[t] = where[t] /\ head' = head + 1
    BY <1>0, <1>1 DEF Mine
  <2>2. t \in reverted' <=> t \in reverted
    BY <1>0, <1>1 DEF Mine
  <2> QED
    BY <1>0, <2>1, <2>2 DEF Final
<1>2. CASE Reorg
  <2>1. t \notin Unsettled
    BY <1>0 DEF Unsettled, Settled
  <2>2. where'[t] = where[t] /\ head' = head
    BY <1>2, <2>1 DEF Reorg
  <2>3. t \in reverted' <=> t \in reverted
    BY <1>2, <2>1 DEF Reorg
  <2> QED
    BY <1>0, <2>2, <2>3 DEF Final
<1> QED
  BY <1>1, <1>2

\* What a node calls finalized is at most the chain's own finalized number.
LEMMA FinalizedNumberBound ==
    ASSUME ChainTypeOK, NEW h \in Latest
    PROVE  FinalizedNumber(h) \in Int /\ FinalizedNumber(h) <= head - Conf
  BY ChainAssumption DEF ChainTypeOK, Latest, FinalizedNumber

\* The chain's steps keep the invariant: only final transfers are in it.
LEMMA ChainSafety ==
    ASSUME ReorgDepth <= Conf, TypeOK, SafetyInv, Chain
    PROVE  SafetyInv'
<1> USE DEF SafetyInv
<1>0. ChainTypeOK /\ (Mine \/ Reorg)
  BY DEF TypeOK, Chain
<1>1. \A t \in Tx :
        Final(t) => /\ Final(t)' /\ where'[t] = where[t]
                    /\ t \in reverted' <=> t \in reverted
  BY <1>0, FinalStable
<1>2. head \in Nat /\ (head' = head \/ head' = head + 1) /\ faults' = faults
  BY <1>0 DEF Mine, Reorg, ChainTypeOK
<1>3. UNCHANGED <<store, observerVars, finalizerVars, saVars>>
  BY DEF Chain
<1>4. FinalizerInv'
  <2>1. UNCHANGED <<finPc, finNum, finTodo, finBatch, finHashes>>
    BY <1>3 DEF finalizerVars
  <2>a. finNum \in Int /\ Conf \in Nat
    BY ChainAssumption DEF TypeOK, FinalizerTypeOK
  <2>b. finPc # "idle" => finNum <= head - Conf
    BY DEF FinalizerInv
  <2>2. (finPc # "idle" => finNum <= head - Conf)'
    BY <1>2, <2>1, <2>a, <2>b
  <2>3. finHashes \in SUBSET Tx /\ \A t \in finHashes : Final(t)
    BY DEF FinalizerInv, TypeOK, FinalizerTypeOK
  <2>4. (\A t \in finHashes : Final(t))'
    BY <1>1, <2>1, <2>3 DEF Final
  <2> QED
    BY <2>1, <2>2, <2>4 DEF FinalizerInv
<1>5. RecordInv'
  BY <1>1, <1>3 DEF RecordInv, Final, store
<1>6. SaInv'
  <2>1. \A p \in saSigned : p[1] \in Tx
    BY DEF TypeOK, SaTypeOK
  <2>2. \A p \in saSigned : Final(p[1])
    BY <2>1 DEF SaInv, RecordInv
  <2> QED
    BY <1>1, <1>3, <2>1, <2>2 DEF SaInv, Final, store, saVars
<1>7. CreditInv'
  <2>1. UNCHANGED <<status, saPc, saSigned, sends>>
    BY <1>3 DEF store, saVars
  <2> QED
    BY <1>1, <1>2, <2>1 DEF CreditInv, Final, AwaitsRecord
<1> QED
  BY <1>4, <1>5, <1>6, <1>7

-----------------------------------------------------------------------------
(* The observer only ever writes the record of a transfer that has none.   *)

\* What an observer's step may change of the state SafetyInv speaks of.
LEMMA ObserverEffect ==
    ASSUME TypeOK, Observer
    PROVE  /\ UNCHANGED <<chainVars, finalizerVars, saVars>>
           /\ faults'["sa"] = faults["sa"]
           /\ \A t \in Tx :
                status'[t] # status[t] =>
                    /\ status[t] = NoRecord
                    /\ status'[t] = AcceptedStatus(t, "pending")
<1>1. UNCHANGED <<chainVars, finalizerVars, saVars>>
  BY DEF Observer, ObserverWork, ObserverFault, ObserverStart, BeginScan,
         ObserverReadBlock, ObserverAccept, ObserverInsert, ObserverSave,
         ObserverScanFails, ObserverCrash
<1>2. UNCHANGED faults \/ Fault("observer")
  BY DEF Observer, ObserverWork, ObserverFault, ObserverStart, BeginScan,
         ObserverReadBlock, ObserverAccept, ObserverInsert, ObserverSave,
         ObserverScanFails, ObserverCrash
<1>3. faults'["sa"] = faults["sa"]
  BY <1>2, FaultType DEF TypeOK, ChainTypeOK, Process
<1>4. UNCHANGED status \/ \E p \in obsFound : ObserverInsert(p)
  BY DEF Observer, ObserverWork, ObserverFault, ObserverStart, BeginScan,
         ObserverReadBlock, ObserverAccept, ObserverSave,
         ObserverScanFails, ObserverCrash, store
<1>5. ASSUME NEW p \in obsFound, ObserverInsert(p), NEW t \in Tx,
             status'[t] # status[t]
      PROVE  status[t] = NoRecord /\ status'[t] = AcceptedStatus(t, "pending")
  <2>1. p[1] \in Tx /\ status \in [Tx -> DepositStatus \cup {NoRecord}]
    BY DEF TypeOK, ObserverTypeOK, StoreTypeOK
  <2> QED
    BY <1>5, <2>1 DEF ObserverInsert, InsertIfNotExists, Upsert, store
<1> QED
  BY <1>1, <1>3, <1>4, <1>5

LEMMA ObserverSafety ==
    ASSUME TypeOK, SafetyInv, Observer
    PROVE  SafetyInv'
<1> USE DEF SafetyInv
<1>1. /\ UNCHANGED <<chainVars, finalizerVars, saVars>>
      /\ faults'["sa"] = faults["sa"]
      /\ \A t \in Tx :
           status'[t] # status[t] =>
               /\ status[t] = NoRecord
               /\ status'[t] = AcceptedStatus(t, "pending")
  BY ObserverEffect
<1>2. \A t \in Tx : status[t] \in {"finalized", "verified", "successful"} =>
                        status'[t] = status[t]
  BY <1>1 DEF NoRecord
<1>3. FinalizerInv'
  BY <1>1 DEF FinalizerInv, Final, finalizerVars, chainVars
<1>4. RecordInv'
  BY <1>1 DEF RecordInv, Final, chainVars, AcceptedStatus, NoRecord
<1>5. SaInv'
  <2>1. saBatch \in SUBSET Tx /\ \A p \in saSigned : p[1] \in Tx
    BY DEF TypeOK, SaTypeOK
  <2> QED
    BY <1>1, <1>2, <2>1 DEF SaInv, saVars, chainVars
<1>6. CreditInv'
  BY <1>1, <1>2 DEF CreditInv, Final, AwaitsRecord, saVars, chainVars
<1> QED
  BY <1>3, <1>4, <1>5, <1>6

-----------------------------------------------------------------------------
(* The finalizer moves PENDING records only, and to FINALIZED only those   *)
(* whose hash it met in a final block.                                     *)

\* A pass ends only when no batch is left.
LEMMA TakeBatchInv ==
    ASSUME NEW todo \in SUBSET Nat, TakeBatch(todo)
    PROVE  /\ finBatch' \in SUBSET todo /\ finTodo' \in SUBSET todo
           /\ finHashes' = {}
           /\ finPc' \in {"idle", "fetch"}
           /\ finPc' = "idle" => finTodo' = {} /\ finBatch' = {}
           /\ finPc' = "fetch" => finNum' = finNum
<1>1. Cardinality({}) # BatchBlocks
  BY FS_EmptySet, ObserverAssumption
<1>2. PICK B \in NextBatch(todo) :
        /\ finBatch' = B /\ finTodo' = todo \ B
        /\ finHashes' = {}
        /\ IF B = {} THEN finPc' = "idle" /\ finNum' = 0
           ELSE finPc' = "fetch" /\ UNCHANGED finNum
  BY DEF TakeBatch
<1>3. B = {} => todo = {}
  BY <1>1, <1>2 DEF NextBatch
<1> QED
  BY <1>2, <1>3 DEF NextBatch

LEMMA FinalizerSafety ==
    ASSUME TypeOK, SafetyInv, Finalizer
    PROVE  SafetyInv'
<1> USE DEF SafetyInv
<1>a. UNCHANGED <<chainVars, observerVars, saVars>>
  BY DEF Finalizer, FinalizerWork, FinalizerAbort, FinalizerStart,
         FinalizerQuery, FinalizerFetch, FinalizerMark, FinalizerDiscard
<1>b. faults'["sa"] = faults["sa"]
  BY FaultType
     DEF Finalizer, FinalizerWork, FinalizerAbort, FinalizerStart,
         FinalizerQuery, FinalizerFetch, FinalizerMark, FinalizerDiscard,
         TypeOK, ChainTypeOK, Process
<1>c. ASSUME \A t \in Tx :
               status'[t] # status[t] =>
                   /\ status[t] = "pending"
                   /\ \/ status'[t] = "reorg"
                      \/ status'[t] = "finalized" /\ Final(t)
      PROVE  RecordInv' /\ SaInv' /\ CreditInv'
  <2>1. saBatch \in SUBSET Tx /\ \A p \in saSigned : p[1] \in Tx
    BY DEF TypeOK, SaTypeOK
  <2>2. RecordInv'
    BY <1>a, <1>c DEF RecordInv, Final, chainVars, NoRecord
  <2>3. SaInv'
    BY <1>a, <1>c, <2>1 DEF SaInv, saVars, chainVars
  <2>4. CreditInv'
    BY <1>a, <1>b, <1>c DEF CreditInv, Final, AwaitsRecord, saVars, chainVars
  <2> QED
    BY <2>2, <2>3, <2>4
<1>d. ASSUME UNCHANGED store PROVE RecordInv' /\ SaInv' /\ CreditInv'
  BY <1>c, <1>d DEF store
<1>1. CASE FinalizerStart
  <2>1. FinalizerInv'
    <3>1. PICK h \in Latest : finNum' = FinalizedNumber(h)
      BY <1>1 DEF FinalizerStart
    <3>2. finNum' <= head - Conf
      BY <3>1, FinalizedNumberBound DEF TypeOK
    <3>3. finTodo = {} /\ finBatch = {}
      BY <1>1 DEF FinalizerStart, FinalizerInv, TypeOK, FinalizerTypeOK
    <3> QED
      BY <1>1, <1>a, <3>2, <3>3
         DEF FinalizerStart, FinalizerInv, Final, chainVars
  <2> QED
    BY <1>1, <1>d, <2>1 DEF FinalizerStart
<1>2. CASE FinalizerQuery
  <2>1. PendingBlocks(finNum) \in SUBSET Nat
    BY DEF PendingBlocks, WithStatus, TypeOK, StoreTypeOK
  <2>2. \A b \in PendingBlocks(finNum) : b <= finNum
    BY DEF PendingBlocks
  <2>3. FinalizerInv'
    BY <1>2, <1>a, <2>1, <2>2, TakeBatchInv
       DEF FinalizerQuery, FinalizerInv, Final, chainVars
  <2> QED
    BY <1>2, <1>d, <2>3 DEF FinalizerQuery
<1>3. ASSUME NEW b \in finUnread, FinalizerFetch(b) PROVE SafetyInv'
  <2>a. b \in Nat /\ finNum \in Int /\ head \in Nat /\ Conf \in Nat
    BY ChainAssumption DEF TypeOK, FinalizerTypeOK, ChainTypeOK
  <2>b. b <= finNum /\ finNum <= head - Conf
    BY <1>3 DEF FinalizerFetch, FinalizerInv, TypeOK, FinalizerTypeOK
  <2>1. b <= head - Conf
    BY <2>a, <2>b
  <2>2. \A t \in BlockTx(b) : Final(t)
    BY <2>1 DEF BlockTx, Final
  <2>3. FinalizerInv'
    BY <1>3, <1>a, <2>2 DEF FinalizerFetch, FinalizerInv, Final, chainVars
  <2> QED
    BY <1>3, <1>d, <2>3 DEF FinalizerFetch
<1>4. CASE FinalizerMark
  <2>1. \A t \in Tx :
          status'[t] # status[t] =>
              status[t] = "pending" /\ status'[t] = "finalized" /\ Final(t)
    BY <1>4 DEF FinalizerMark, ToFinalized, SetStatus, FinalizerInv
  <2>2. FinalizerInv'
    BY <1>4, <1>a DEF FinalizerMark, FinalizerInv, Final, chainVars
  <2> QED
    BY <1>c, <2>1, <2>2
<1>5. CASE FinalizerDiscard
  <2>1. \A t \in Tx :
          status'[t] # status[t] =>
              status[t] = "pending" /\ status'[t] = "reorg"
    BY <1>5 DEF FinalizerDiscard, ToReorgBlockNumber, SetStatus
  <2>2. FinalizerInv'
    <3>1. finTodo \in SUBSET Nat
      BY DEF TypeOK, FinalizerTypeOK
    <3> QED
      BY <1>5, <1>a, <3>1, TakeBatchInv
         DEF FinalizerDiscard, FinalizerInv, Final, chainVars
  <2> QED
    BY <1>c, <2>1, <2>2
<1>6. CASE FinalizerAbort
  <2>1. FinalizerInv'
    BY <1>6, <1>a DEF FinalizerAbort, FinalizerInv, Final, chainVars
  <2> QED
    BY <1>6, <1>d, <2>1 DEF FinalizerAbort
<1> QED
  BY <1>1, <1>2, <1>3, <1>4, <1>5, <1>6 DEF Finalizer, FinalizerWork

-----------------------------------------------------------------------------
(* The SA posts and records what it signed of a FINALIZED batch.           *)

\* A post counts each signed transfer once, and no other.
LEMMA PostEffect ==
    ASSUME SaTypeOK, Post, NEW t \in Tx
    PROVE  /\ (\E p \in saSigned : p[1] = t) => sends'[t] = sends[t] + 1
           /\ ~(\E p \in saSigned : p[1] = t) => sends'[t] = sends[t]
           /\ sends[t] \in Nat
  BY DEF SaTypeOK, Post

\* What is signed is final, executed, of allowed value, and not yet posted
\* but for faults.
LEMMA SignedIsGood ==
    ASSUME TypeOK, SafetyInv, NEW p \in saSigned
    PROVE  /\ p[1] \in Tx /\ p[2] \in Nat /\ p[1] \in saBatch
           /\ status[p[1]] = "finalized"
           /\ Final(p[1]) /\ p[1] \notin reverted /\ p[1] \notin Oversized
           /\ saPc # "record" => sends[p[1]] <= faults["sa"]
<1>1. p[1] \in Tx /\ p[2] \in Nat
  BY DEF TypeOK, SaTypeOK
<1>2. p[1] \in saBatch /\ status[p[1]] = "finalized" /\ p[1] \notin reverted
  BY DEF SafetyInv, SaInv
<1>3. Final(p[1]) /\ p[1] \notin Oversized
  BY <1>1, <1>2 DEF SafetyInv, RecordInv, NoRecord
<1>4. saPc # "record" => sends[p[1]] <= faults["sa"]
  BY <1>1, <1>2 DEF SafetyInv, CreditInv, AwaitsRecord
<1> QED
  BY <1>1, <1>2, <1>3, <1>4

LEMMA SaSafety ==
    ASSUME TypeOK, SafetyInv, Sa
    PROVE  SafetyInv'
<1> USE DEF SafetyInv
<1>a. UNCHANGED <<chainVars, cursor, obsLast, scan, finalizerVars>>
  BY DEF Sa, SaWork, SaFault, SaFind, SaSign, SaRefused, SaDeliver,
         SaDeliverUnacked, SaRecord, SaClean, SaAbort
<1>b. FinalizerInv'
  BY <1>a DEF FinalizerInv, Final, finalizerVars, chainVars
<1>c. ASSUME UNCHANGED store PROVE RecordInv'
  BY <1>a, <1>c DEF RecordInv, Final, store, chainVars
<1>t. /\ saBatch \in SUBSET Tx /\ sends \in [Tx -> Nat] /\ faults["sa"] \in Nat
      /\ saSigned \in SUBSET (Tx \X Nat)
  BY DEF TypeOK, SaTypeOK, ChainTypeOK, Process
<1>f. ASSUME Fault("sa") PROVE faults'["sa"] = faults["sa"] + 1
  BY <1>f, FaultType DEF TypeOK, ChainTypeOK, Process
<1>1. CASE SaFind
  <2>1. saSigned' = {} /\ saBatch' \in SUBSET WithStatus("finalized")
    BY <1>1 DEF SaFind, FirstByBlock, TypeOK, SaTypeOK
  <2>2. SaInv'
    BY <1>1, <2>1 DEF SaFind, SaInv, WithStatus, store
  <2>3. CreditInv'
    BY <1>1, <1>a DEF SaFind, CreditInv, AwaitsRecord, Final, store, chainVars
  <2> QED
    BY <1>1, <1>b, <1>c, <2>2, <2>3 DEF SaFind
<1>2. CASE SaSign
  <2>1. \A p \in saSigned' :
          p[1] \in saBatch /\ p[2] = where[p[1]] /\ p[1] \notin reverted
    BY <1>2 DEF SaSign, TransactionSuccessful
  <2>2. SaInv'
    BY <1>2, <1>a, <2>1 DEF SaSign, SaInv, store, chainVars
  <2>3. CreditInv'
    BY <1>2, <1>a DEF SaSign, CreditInv, AwaitsRecord, Final, store, chainVars
  <2> QED
    BY <1>2, <1>b, <1>c, <2>2, <2>3 DEF SaSign
<1>3. CASE SaRefused
  <2>1. saSigned = {}
    BY <1>3 DEF SaRefused, TypeOK, SaTypeOK
  <2>2. SaInv'
    BY <1>3, <2>1 DEF SaRefused, SaInv, store
  <2>3. CreditInv'
    BY <1>3, <1>a DEF SaRefused, CreditInv, AwaitsRecord, Final, store, chainVars
  <2> QED
    BY <1>3, <1>b, <1>c, <2>2, <2>3 DEF SaRefused
<1>4. ASSUME saPc = "send", Post
      PROVE  \A t \in Tx :
               /\ sends'[t] > 0 =>
                    Final(t) /\ t \notin reverted /\ t \notin Oversized
               /\ sends'[t] <= 1 + faults["sa"]
               /\ \/ status[t] \in {"verified", "successful"}
                  \/ \E p \in saSigned : p[1] = t
                  \/ sends'[t] <= faults["sa"]
  <2> TAKE t \in Tx
  <2>1. CASE \E p \in saSigned : p[1] = t
    <3>1. Final(t) /\ t \notin reverted /\ t \notin Oversized
      BY <2>1, SignedIsGood
    <3>2. sends[t] <= faults["sa"]
      BY <1>4, <2>1, SignedIsGood
    <3>3. sends'[t] = sends[t] + 1 /\ sends[t] \in Nat
      BY <1>4, <2>1, PostEffect DEF TypeOK
    <3> QED
      BY <1>t, <2>1, <3>1, <3>2, <3>3
  <2>2. CASE ~(\E p \in saSigned : p[1] = t)
    <3>1. sends'[t] = sends[t]
      BY <1>4, <2>2, PostEffect DEF TypeOK
    <3> QED
      BY <1>4, <2>2, <3>1 DEF CreditInv, AwaitsRecord
  <2> QED
    BY <2>1, <2>2
<1>5. CASE SaDeliver
  <2>1. SaInv'
    BY <1>5, <1>a DEF SaDeliver, SaInv, store, chainVars
  <2>2. CreditInv'
    BY <1>4, <1>5, <1>a
       DEF SaDeliver, CreditInv, AwaitsRecord, Final, store, chainVars
  <2> QED
    BY <1>5, <1>b, <1>c, <2>1, <2>2 DEF SaDeliver
<1>6. CASE SaDeliverUnacked
  <2>1. SaInv'
    BY <1>6 DEF SaDeliverUnacked, SaInv
  <2>2. sends' \in [Tx -> Nat]
    BY <1>6 DEF SaDeliverUnacked, Post, TypeOK, SaTypeOK
  <2>3. faults'["sa"] = faults["sa"] + 1
    BY <1>6, <1>f DEF SaDeliverUnacked
  <2>4. \A t \in Tx : sends'[t] <= faults'["sa"]
    BY <1>4, <1>6, <1>t, <2>2, <2>3 DEF SaDeliverUnacked
  <2>5. \A t \in Tx : sends'[t] <= 1 + faults'["sa"]
    BY <1>t, <2>2, <2>3, <2>4
  <2>6. CreditInv'
    BY <1>4, <1>6, <1>a, <2>4, <2>5
       DEF SaDeliverUnacked, CreditInv, Final, store, chainVars
  <2> QED
    BY <1>6, <1>b, <1>c, <2>1, <2>6 DEF SaDeliverUnacked
<1>7. ASSUME NEW p \in saSigned, SaRecord(p) PROVE SafetyInv'
  <2>1. /\ p[1] \in Tx /\ Final(p[1]) /\ p[1] \notin Oversized
        /\ status[p[1]] = "finalized"
    BY SignedIsGood
  <2>2. status' = [status EXCEPT ![p[1]] = "verified"]
    BY <1>7, <2>1 DEF SaRecord, Upsert, AcceptedStatus
  <2>3. status \in [Tx -> DepositStatus \cup {NoRecord}]
    BY DEF TypeOK, StoreTypeOK
  <2>4. RecordInv'
    BY <1>a, <2>1, <2>2, <2>3 DEF RecordInv, Final, chainVars
  <2>5. SaInv'
    <3>1. \A q \in saSigned : q[1] \in Tx
      BY <1>t
    <3>2. \A q \in saSigned : q # p => q[1] # p[1]
      <4>1. SUFFICES ASSUME NEW q \in saSigned, q[1] = p[1] PROVE q = p
        OBVIOUS
      <4>2. q[2] = p[2]
        BY <4>1 DEF SaInv
      <4> QED
        BY <1>t, <4>1, <4>2
    <3> QED
      BY <1>7, <1>a, <2>2, <2>3, <3>1, <3>2 DEF SaRecord, SaInv, chainVars
  <2>6. CreditInv'
    BY <1>7, <1>a, <2>1, <2>2, <2>3
       DEF SaRecord, CreditInv, AwaitsRecord, Final, chainVars
  <2> QED
    BY <1>b, <2>4, <2>5, <2>6
<1>8. CASE SaClean
  <2>1. \A t \in Tx :
          status'[t] # status[t] =>
              status[t] = "finalized" /\ status'[t] = "reorg"
    BY <1>8 DEF SaClean, ToReorgWithTxHash, SetStatus
  <2>2. RecordInv'
    BY <1>a, <2>1 DEF RecordInv, Final, chainVars, NoRecord
  <2>3. SaInv'
    BY <1>8 DEF SaClean, SaInv
  <2>4. CreditInv'
    BY <1>8, <1>a, <2>1 DEF SaClean, CreditInv, AwaitsRecord, Final, chainVars
  <2> QED
    BY <1>b, <2>2, <2>3, <2>4
<1>9. CASE SaAbort
  <2>1. SaInv'
    BY <1>9 DEF SaAbort, SaInv
  <2>2. faults'["sa"] = faults["sa"] + 1
    BY <1>9, <1>f DEF SaAbort
  <2>3. \A t \in Tx : /\ sends[t] <= faults'["sa"]
                      /\ sends[t] <= 1 + faults'["sa"]
    BY <1>t, <2>2 DEF CreditInv
  <2>4. CreditInv'
    BY <1>9, <1>a, <2>3 DEF SaAbort, CreditInv, Final, store, chainVars
  <2> QED
    BY <1>9, <1>b, <1>c, <2>1, <2>4 DEF SaAbort
<1> QED
  BY <1>1, <1>2, <1>3, <1>5, <1>6, <1>7, <1>8, <1>9 DEF Sa, SaWork, SaFault

-----------------------------------------------------------------------------
(* The invariant and what follows from it. *)

LEMMA InitSafety == Init => SafetyInv
  BY DEF Init, ChainInit, StoreInit, FinalizerInit, SaInit, SafetyInv,
         FinalizerInv, RecordInv, SaInv, CreditInv, AwaitsRecord, NoRecord,
         Process

LEMMA NextSafety ==
    ASSUME ReorgDepth <= Conf, TypeOK, SafetyInv, [Next]_vars
    PROVE  SafetyInv'
<1>1. CASE UNCHANGED vars
  BY <1>1 DEF vars, chainVars, store, finalizerVars, saVars, SafetyInv,
         FinalizerInv, RecordInv, SaInv, CreditInv, AwaitsRecord, Final
<1> QED
  BY <1>1, ChainSafety, ObserverSafety, FinalizerSafety, SaSafety DEF Next

\* The invariant holds of every run whose final blocks are settled.
THEOREM SafetyInvariant ==
    ASSUME ReorgDepth <= Conf
    PROVE  Spec => []SafetyInv
<1>1. Init => SafetyInv
  BY InitSafety
<1>2. TypeOK /\ SafetyInv /\ [Next]_vars => SafetyInv'
  BY NextSafety
<1> QED
  BY <1>1, <1>2, TypeCorrect, PTL DEF Spec

\* Whatever Zex was told of is in the chain for ever (validators' checks and
\* finalizer together).
THEOREM CreditIsBacked ==
    ASSUME ReorgDepth <= Conf
    PROVE  Spec => []CreditBacked
<1>1. TypeOK /\ SafetyInv => CreditBacked
  <2> SUFFICES ASSUME TypeOK, SafetyInv, NEW t \in Credited
               PROVE  /\ where[t] # 0 /\ where[t] <= Settled
                      /\ t \notin reverted /\ t \notin Oversized
    BY DEF CreditBacked
  <2>1. Final(t) /\ t \notin reverted /\ t \notin Oversized
    BY DEF Credited, SafetyInv, CreditInv
  <2>2. where[t] \in Nat /\ head \in Nat
    BY DEF Credited, TypeOK, ChainTypeOK
  <2> QED
    BY <2>1, <2>2, ChainAssumption DEF Final, Settled
<1> QED
  BY <1>1, TypeCorrect, SafetyInvariant, PTL

\* Records are promoted for transfers of settled blocks only (to_finalized).
THEOREM FinalizedIsSettled ==
    ASSUME ReorgDepth <= Conf
    PROVE  Spec => []FinalizedSettled
<1>1. TypeOK /\ SafetyInv => FinalizedSettled
  BY ChainAssumption
     DEF FinalizedSettled, SafetyInv, RecordInv, Final, Settled, TypeOK,
         ChainTypeOK
<1> QED
  BY <1>1, TypeCorrect, SafetyInvariant, PTL

\* Every post of a transfer but one is paid for by a fault of the SA.
THEOREM ResendsNeedFaults ==
    ASSUME ReorgDepth <= Conf
    PROVE  Spec => []ResendNeedsFault
<1>1. SafetyInv => ResendNeedsFault
  BY DEF SafetyInv, CreditInv, ResendNeedsFault
<1> QED
  BY <1>1, SafetyInvariant, PTL

\* A transfer whose outcome is recorded is not posted again.
THEOREM RecordedIsNeverResent ==
    ASSUME ReorgDepth <= Conf
    PROVE  Spec => NeverResentOnceRecorded
<1>1. ASSUME TypeOK, SafetyInv, [Next]_vars, NEW t \in Tx,
             status[t] \in {"verified", "successful", "rejected"}
      PROVE  sends'[t] = sends[t]
  <2>1. CASE Post
    <3>1. \A p \in saSigned : p[1] # t
      BY <1>1, SignedIsGood
    <3> QED
      BY <1>1, <2>1, <3>1, PostEffect DEF TypeOK
  <2>2. CASE ~Post
    BY <1>1, <2>2
       DEF Next, vars, Chain, Observer, Finalizer, saVars, Sa, SaWork, SaFault,
           SaFind, SaSign, SaRefused, SaDeliver, SaDeliverUnacked, SaRecord,
           SaClean, SaAbort
  <2> QED
    BY <2>1, <2>2
<1>2. TypeOK /\ SafetyInv /\ [Next]_vars =>
        [\A t \in Tx :
           status[t] \in {"verified", "successful", "rejected"} =>
               sends'[t] = sends[t]]_vars
  BY <1>1
<1> QED
  BY <1>2, TypeCorrect, SafetyInvariant, PTL DEF Spec, NeverResentOnceRecorded

-----------------------------------------------------------------------------
(* The records live the life of DepositLifecycle.  This needs no more than *)
(* LifeInv, which holds however deep the chain reorganises.                *)

LifeInv ==
    /\ \A t \in Tx : t \in Oversized => status[t] \in {NoRecord, "rejected"}
    /\ saPc \in {"sign", "send"} => \A t \in saBatch : status[t] = "finalized"
    /\ \A p \in saSigned :
         /\ status[p[1]] = "finalized"
         /\ saPc = "record" => sends[p[1]] > 0
    /\ \A p, q \in saSigned : p[1] = q[1] => p = q

\* The finalizer's updates are of PENDING records.
LEMMA FinalizerEffect ==
    ASSUME TypeOK, Finalizer
    PROVE  /\ UNCHANGED saVars
           /\ \/ UNCHANGED status
              \/ \E S \in SUBSET Tx : SetStatus(S, "pending", "finalized")
              \/ \E S \in SUBSET Tx : SetStatus(S, "pending", "reorg")
<1>1. UNCHANGED saVars
  BY DEF Finalizer
<1>2. CASE FinalizerMark
  <2>1. finHashes \in SUBSET Tx
    BY DEF TypeOK, FinalizerTypeOK
  <2> QED
    BY <1>1, <1>2, <2>1 DEF FinalizerMark, ToFinalized
<1>3. CASE FinalizerDiscard
  BY <1>1, <1>3 DEF FinalizerDiscard, ToReorgBlockNumber
<1>4. CASE ~FinalizerMark /\ ~FinalizerDiscard
  BY <1>1, <1>4
  DEF Finalizer, FinalizerWork, FinalizerAbort, FinalizerStart, FinalizerQuery,
      FinalizerFetch, store
<1> QED
  BY <1>2, <1>3, <1>4

LEMMA OthersKeepLife ==
    ASSUME TypeOK, LifeInv, Chain \/ Observer \/ Finalizer
    PROVE  LifeInv'
<1>1. UNCHANGED saVars
  BY ObserverEffect DEF Chain, Finalizer
<1>2. \A t \in Tx :
        status'[t] # status[t] =>
            \/ status[t] = NoRecord /\ status'[t] = AcceptedStatus(t, "pending")
            \/ status[t] = "pending"
  <2>1. CASE Chain
    BY <2>1 DEF Chain, store
  <2>2. CASE Observer
    BY <2>2, ObserverEffect
  <2>3. CASE Finalizer
    BY <2>3, FinalizerEffect DEF SetStatus
  <2> QED BY <2>1, <2>2, <2>3
<1>3. saBatch \in SUBSET Tx /\ \A p \in saSigned : p[1] \in Tx
  BY DEF TypeOK, SaTypeOK
<1>4. (\A t \in Tx : t \in Oversized => status[t] \in {NoRecord, "rejected"})'
  BY <1>2 DEF LifeInv, AcceptedStatus, NoRecord
<1>5. \A t \in Tx : status[t] = "finalized" => status'[t] = "finalized"
  BY <1>2 DEF NoRecord
<1> QED
  BY <1>1, <1>3, <1>4, <1>5 DEF LifeInv, saVars

LEMMA SaKeepsLife ==
    ASSUME TypeOK, LifeInv, Sa
    PROVE  LifeInv'
<1>a. /\ saBatch \in SUBSET Tx /\ saSigned \in SUBSET (Tx \X Nat)
      /\ status \in [Tx -> DepositStatus \cup {NoRecord}]
      /\ saPc \in {"idle", "sign"} => saSigned = {}
  BY DEF TypeOK, SaTypeOK, StoreTypeOK
<1>b. \A p \in saSigned : p[1] \in Tx
  BY <1>a
<1>1. CASE SaFind
  <2>1. saBatch' \in SUBSET WithStatus("finalized") /\ saSigned' = {}
    BY <1>1, <1>a DEF SaFind, FirstByBlock
  <2>2. \A t \in saBatch' : status[t] = "finalized"
    BY <2>1 DEF WithStatus
  <2>3. status' = status
    BY <1>1 DEF SaFind, store
  <2> QED
    BY <2>1, <2>2, <2>3 DEF LifeInv
<1>2. CASE SaSign
  <2>1. saPc = "sign" /\ saPc' = "send" /\ status' = status /\ saBatch' = saBatch
    BY <1>2 DEF SaSign, store
  <2>2. \A p \in saSigned' : p[1] \in saBatch /\ p = <<p[1], where[p[1]]>>
    BY <1>2 DEF SaSign
  <2> QED
    BY <2>1, <2>2 DEF LifeInv
<1>3. CASE SaRefused
  BY <1>3, <1>a DEF SaRefused, LifeInv, store
<1>4. CASE SaDeliver
  <2>1. \A p \in saSigned : sends'[p[1]] > 0
    <3> SUFFICES ASSUME NEW p \in saSigned PROVE sends'[p[1]] > 0
      OBVIOUS
    <3>1. sends'[p[1]] = sends[p[1]] + 1 /\ sends[p[1]] \in Nat
      BY <1>4, <1>b, PostEffect DEF SaDeliver, TypeOK
    <3> QED BY <3>1
  <2> QED
    BY <1>4, <2>1 DEF SaDeliver, LifeInv, store
<1>5. CASE SaDeliverUnacked \/ SaAbort
  BY <1>5 DEF SaDeliverUnacked, SaAbort, LifeInv, store
<1>6. ASSUME NEW p \in saSigned, SaRecord(p) PROVE LifeInv'
  <2>1. p[1] \in Tx /\ p[1] \notin Oversized
    BY <1>b DEF LifeInv, NoRecord
  <2>2. status' = [status EXCEPT ![p[1]] = "verified"]
    BY <1>6, <2>1 DEF SaRecord, Upsert, AcceptedStatus
  <2>3. \A q \in saSigned' : q \in saSigned /\ q[1] # p[1]
    BY <1>6 DEF SaRecord, LifeInv
  <2>4. saPc = "record" /\ saPc' = saPc /\ sends' = sends
    BY <1>6 DEF SaRecord
  <2>5. \A t \in Tx : t # p[1] => status'[t] = status[t]
    BY <1>a, <2>2
  <2>6. (\A t \in Tx : t \in Oversized => status[t] \in {NoRecord, "rejected"})'
    BY <2>1, <2>5 DEF LifeInv
  <2> QED
    BY <1>b, <2>3, <2>4, <2>5, <2>6 DEF LifeInv
<1>7. CASE SaClean
  <2>1. \A t \in Tx : status'[t] # status[t] => status[t] = "finalized"
    BY <1>7 DEF SaClean, ToReorgWithTxHash, SetStatus
  <2> QED
    BY <1>7, <2>1 DEF SaClean, LifeInv, NoRecord
<1> QED
  BY <1>1, <1>2, <1>3, <1>4, <1>5, <1>6, <1>7 DEF Sa, SaWork, SaFault

LEMMA LifeInvariance == Spec => []LifeInv
<1>1. Init => LifeInv
  BY DEF Init, StoreInit, SaInit, LifeInv
<1>2. LifeInv /\ UNCHANGED vars => LifeInv'
  BY DEF LifeInv, vars, store, saVars
<1>3. TypeOK /\ LifeInv /\ [Next]_vars => LifeInv'
  BY <1>2, OthersKeepLife, SaKeepsLife DEF Next
<1> QED
  BY <1>1, <1>3, TypeCorrect, PTL DEF Spec

\* An update of many records moves those that have the old status.
LEMMA SetStatusMoves ==
    ASSUME NEW T, NEW old, NEW new, SetStatus(T, old, new)
    PROVE  \E S \in SUBSET Tx :
             (\A t \in S : status[t] = old) /\ Lifecycle!Move(S, new)
<1> DEFINE S == {t \in Tx : t \in T /\ status[t] = old}
<1>1. status' = [t \in Tx |-> IF t \in S THEN new ELSE status[t]]
  BY DEF SetStatus
<1>2. Lifecycle!Move(S, new)
  BY <1>1 DEF Lifecycle!Move
<1> QED
  BY <1>2

\* An update of one record.
LEMMA UpsertMoves ==
    ASSUME TypeOK, NEW t \in Tx, NEW b, NEW s, Upsert(t, b, s)
    PROVE  Lifecycle!Move({t}, s)
<1>1. status' = [status EXCEPT ![t] = s] /\ status \in [Tx -> DepositStatus \cup {NoRecord}]
  BY DEF Upsert, TypeOK, StoreTypeOK
<1> QED
  BY <1>1 DEF Lifecycle!Move

LEMMA RefineSilent ==
    ASSUME UNCHANGED <<status, sends>>
    PROVE  UNCHANGED Lifecycle!lifecycleVars
  BY DEF Lifecycle!lifecycleVars, Credited

LEMMA RefineInit == Init => Lifecycle!LifecycleInit
  BY DEF Init, StoreInit, SaInit, Lifecycle!LifecycleInit, Lifecycle!NoRecord,
         NoRecord, Credited

LEMMA RefineObserver ==
    ASSUME TypeOK, Observer
    PROVE  Lifecycle!LifecycleNext \/ UNCHANGED Lifecycle!lifecycleVars
<1>1. UNCHANGED sends
  BY DEF Observer, saVars
<1>2. UNCHANGED status \/ \E p \in obsFound : ObserverInsert(p)
  BY DEF Observer, ObserverWork, ObserverFault, ObserverStart, BeginScan,
         ObserverReadBlock, ObserverAccept, ObserverSave,
         ObserverScanFails, ObserverCrash, store
<1>3. ASSUME NEW p \in obsFound, ObserverInsert(p), status[p[1]] = NoRecord
      PROVE  Lifecycle!Record(p[1]) /\ p[1] \in Tx
  <2>1. p[1] \in Tx
    BY DEF TypeOK, ObserverTypeOK
  <2>2. Upsert(p[1], p[2], AcceptedStatus(p[1], "pending"))
    BY <1>3 DEF ObserverInsert, InsertIfNotExists
  <2>3. Lifecycle!Move({p[1]}, AcceptedStatus(p[1], "pending"))
    BY <2>1, <2>2, UpsertMoves
  <2> QED
    BY <1>1, <1>3, <2>1, <2>3
    DEF Lifecycle!Record, Lifecycle!AcceptedStatus, Lifecycle!NoRecord,
        AcceptedStatus, NoRecord, Credited
<1>4. ASSUME NEW p \in obsFound, ObserverInsert(p), status[p[1]] # NoRecord
      PROVE  UNCHANGED status
  BY <1>4 DEF ObserverInsert, InsertIfNotExists, store
<1> QED
  BY <1>1, <1>2, <1>3, <1>4, RefineSilent DEF Lifecycle!LifecycleNext

LEMMA RefineFinalizer ==
    ASSUME TypeOK, Finalizer
    PROVE  Lifecycle!LifecycleNext \/ UNCHANGED Lifecycle!lifecycleVars
<1>1. UNCHANGED sends /\ Credited' = Credited
  BY FinalizerEffect DEF saVars, Credited
<1>2. ASSUME NEW T \in SUBSET Tx, SetStatus(T, "pending", "finalized")
      PROVE  Lifecycle!LifecycleNext
  BY <1>1, <1>2, SetStatusMoves DEF Lifecycle!Finalize, Lifecycle!LifecycleNext
<1>3. ASSUME NEW T \in SUBSET Tx, SetStatus(T, "pending", "reorg")
      PROVE  Lifecycle!LifecycleNext
  BY <1>1, <1>3, SetStatusMoves DEF Lifecycle!Discard, Lifecycle!LifecycleNext
<1> QED
  BY <1>1, <1>2, <1>3, FinalizerEffect, RefineSilent

\* A post credits what is signed.
LEMMA RefinePost ==
    ASSUME TypeOK, LifeInv, Post, UNCHANGED status
    PROVE  Lifecycle!LifecycleNext
<1> DEFINE S == {t \in Tx : \E p \in saSigned : p[1] = t}
<1>1. \A t \in S : status[t] = "finalized"
  BY DEF LifeInv
<1>2. \A t \in Tx : sends'[t] > 0 <=> (sends[t] > 0 \/ t \in S)
  <2> SUFFICES ASSUME NEW t \in Tx
               PROVE  sends'[t] > 0 <=> (sends[t] > 0 \/ t \in S)
    OBVIOUS
  <2>1. sends[t] \in Nat
    BY DEF TypeOK, SaTypeOK
  <2>2. sends'[t] = IF t \in S THEN sends[t] + 1 ELSE sends[t]
    BY DEF Post
  <2> HIDE DEF S
  <2> QED BY <2>1, <2>2
<1>3. Credited' = Credited \cup S
  BY <1>2 DEF Credited
<1>4. Lifecycle!Credit(S)
  BY <1>1, <1>3 DEF Lifecycle!Credit
<1> QED
  BY <1>4 DEF Lifecycle!LifecycleNext

LEMMA RefineSa ==
    ASSUME TypeOK, LifeInv, Sa
    PROVE  Lifecycle!LifecycleNext \/ UNCHANGED Lifecycle!lifecycleVars
<1>1. CASE SaDeliver \/ SaDeliverUnacked
  BY <1>1, RefinePost DEF SaDeliver, SaDeliverUnacked, store
<1>2. ASSUME NEW p \in saSigned, SaRecord(p) PROVE Lifecycle!LifecycleNext
  <2>1. p[1] \in Tx /\ status[p[1]] = "finalized" /\ p[1] \notin Oversized
    BY DEF TypeOK, SaTypeOK, LifeInv, NoRecord
  <2>2. p[1] \in Credited /\ Credited' = Credited
    BY <1>2, <2>1 DEF SaRecord, LifeInv, Credited
  <2>3. Lifecycle!Move({p[1]}, "verified")
    BY <1>2, <2>1, UpsertMoves DEF SaRecord, AcceptedStatus
  <2>4. Lifecycle!Verify(p[1])
    BY <2>1, <2>2, <2>3 DEF Lifecycle!Verify
  <2> QED
    BY <2>1, <2>4 DEF Lifecycle!LifecycleNext
<1>3. CASE SaClean
  <2>1. SetStatus(saBatch, "finalized", "reorg") /\ Credited' = Credited
    BY <1>3 DEF SaClean, ToReorgWithTxHash, Credited
  <2> QED
    BY <2>1, SetStatusMoves DEF Lifecycle!Drop, Lifecycle!LifecycleNext
<1>4. CASE SaFind \/ SaSign \/ SaRefused \/ SaAbort
  BY <1>4, RefineSilent DEF SaFind, SaSign, SaRefused, SaAbort, store
<1> QED
  BY <1>1, <1>2, <1>3, <1>4 DEF Sa, SaWork, SaFault

LEMMA RefineStep ==
    TypeOK /\ LifeInv /\ [Next]_vars
      => [Lifecycle!LifecycleNext]_(Lifecycle!lifecycleVars)
<1>1. Chain \/ UNCHANGED vars => UNCHANGED <<status, sends>>
  BY DEF Chain, vars, store, saVars
<1> QED
  BY <1>1, RefineSilent, RefineObserver, RefineFinalizer, RefineSa DEF Next

\* Observer, finalizer and SA together implement DepositLifecycle: each step
\* of theirs is a step of the records' promised life, however deep the chain
\* reorganises and whatever fails.
THEOREM LifecycleImplemented == Spec => Refinement
  BY RefineInit, RefineStep, LifeInvariance, TypeCorrect, PTL
  DEF Spec, Refinement, Lifecycle!LifecycleSpec

-----------------------------------------------------------------------------
(* Which deposits are lost (DepositLosses), however deep the chain         *)
(* reorganises: LossInv says of each transfer that nothing excuses what    *)
(* the processes hold of it.                                               *)

excused == moved \cup missed

\* The range of the pass under way begins where the saved one ended.
RangeInv ==
    /\ obsTo <= head /\ lastObserved <= head
    /\ obsTo # NoBlock => 0 <= obsLast /\ obsLast < obsTo
    /\ obsTo = NoBlock /\ lastObserved = NoBlock => obsLast = NoBlock
    /\ lastObserved # NoBlock => obsLast = lastObserved /\ lastObserved >= 1 /\ origin >= 0
    /\ obsTodo \subseteq (obsLast + 1)..obsTo
    /\ obsBook \subseteq book

\* What the observer read is in its range, and still so on the chain.
HandInv ==
    \A p \in obsSeen \cup obsFound :
        /\ p[2] # 0 /\ p[2] <= obsTo
        /\ p \in obsFound => p[1] \in obsBook
        /\ p[1] \notin moved =>
             /\ p[2] = where[p[1]]
             /\ p \in obsFound => p[1] \notin reverted

Executed(t) == where[t] # 0 /\ t \notin reverted

\* No transfer of the range, or below the cursor, was passed by.
ReadInv ==
    \A t \in Tx \ excused :
        Executed(t) =>
            /\ obsTo # NoBlock /\ obsLast < where[t] /\ where[t] <= obsTo =>
                 \/ where[t] \in obsTodo
                 \/ <<t, where[t]>> \in obsSeen \cup obsFound
                 \/ status[t] # NoRecord
            /\ lastObserved # NoBlock /\ origin < where[t] /\ where[t] <= lastObserved =>
                 status[t] # NoRecord

\* A record says what the chain says, and is not and will not be discarded.
KeptInv ==
    \A t \in Tx :
        /\ status[t] # NoRecord => t \in book
        /\ status[t] # NoRecord /\ t \notin moved => Executed(t) /\ blk[t] = where[t]
        /\ status[t] = "reorg" => t \in excused
        /\ Doomed(t) => t \in excused

\* The validators leave nothing of a batch unsigned.
SignedInv ==
    /\ \A t \in saBatch : status[t] \notin {NoRecord, "pending"}
    /\ saPc = "sign" => \A t \in saBatch : blk[t] <= saNumber
    /\ \A p \in saSigned : p[1] \notin moved => p[2] = where[p[1]]
    /\ saPc \in {"send", "record"} =>
         \A t \in saBatch \ moved :
             status[t] = "finalized" => \E p \in saSigned : p[1] = t

LossInv == RangeInv /\ HandInv /\ ReadInv /\ KeptInv /\ SignedInv

LossTypeOK == TypeOK /\ moved \in SUBSET Tx /\ missed \in SUBSET Tx

LEMMA LossFacts ==
    ASSUME LossTypeOK
    PROVE  /\ head \in Nat /\ where \in [Tx -> Nat] /\ \A t \in Tx : where[t] <= head
           /\ lastObserved \in Int /\ origin \in Int /\ obsLast \in Int /\ obsTo \in Int
           /\ lastObserved = NoBlock \/ lastObserved >= 0
           /\ obsTo = NoBlock \/ obsTo >= 0
           /\ obsTodo \subseteq Nat
           /\ obsSeen \subseteq Tx \X Nat /\ obsFound \subseteq Tx \X Nat
           /\ \A p \in obsSeen \cup obsFound : p[1] \in Tx /\ p[2] \in Nat /\ p = <<p[1], p[2]>>
           /\ status \in [Tx -> DepositStatus \cup {NoRecord}] /\ blk \in [Tx -> Nat]
           /\ NoBlock = -1
  BY DEF LossTypeOK, TypeOK, ChainTypeOK, ObserverTypeOK, StoreTypeOK, NoBlock

\* What the histories take in, and that what is in one stays excused.
LEMMA MoveKeeps ==
    ASSUME LossTypeOK, NEW S \in SUBSET Tx, Move(S)
    PROVE  /\ moved' \in SUBSET Tx /\ missed' \in SUBSET Tx
           /\ moved \subseteq moved' /\ excused \subseteq excused' /\ S \subseteq moved'
  BY DEF Move, LossTypeOK, excused

LEMMA MissKeeps ==
    ASSUME LossTypeOK, NEW S \in SUBSET Tx, Miss(S)
    PROVE  /\ moved' \in SUBSET Tx /\ missed' \in SUBSET Tx
           /\ moved' = moved /\ excused \subseteq excused' /\ S \subseteq excused'
  BY DEF Miss, LossTypeOK, excused

\* The chain moves: what it moved of that was read or recorded is excused.
LEMMA ChainKeepsLoss ==
    ASSUME LossTypeOK, LifeInv, LossInv, Chain, Move({t \in Tx : Moved(t)})
    PROVE  LossInv'
<1>a. UNCHANGED <<store, observerVars, finalizerVars, saVars>> /\ head' \in Nat /\ head' >= head
  BY LossFacts DEF Chain, Mine, Reorg
<1>b. /\ moved \subseteq moved' /\ excused \subseteq excused' /\ moved' \subseteq excused'
      /\ \A t \in Tx : Moved(t) => t \in moved'
  BY MoveKeeps DEF excused
<1>c. ASSUME NEW t \in Tx, t \notin moved', status[t] # NoRecord \/ Scanned(where[t])
                                              \/ Scanned(where'[t])
      PROVE  where'[t] = where[t] /\ (t \in reverted <=> t \in reverted')
  BY <1>b, <1>c DEF Moved
<1>1. RangeInv'
  BY <1>a, LossFacts DEF LossInv, RangeInv, observerVars, scan
<1>2. HandInv'
  <2> SUFFICES ASSUME NEW p \in obsSeen \cup obsFound, p[1] \notin moved'
               PROVE  /\ p[2] = where'[p[1]]
                      /\ p \in obsFound => p[1] \notin reverted'
    BY <1>a DEF HandInv, LossInv, observerVars, scan
  <2>1. /\ p[2] = where[p[1]] /\ p[2] # 0 /\ p[2] <= obsTo
        /\ p \in obsFound => p[1] \notin reverted
    BY <1>b DEF LossInv, HandInv
  <2>2. Scanned(where[p[1]]) /\ p[1] \in Tx
    BY <2>1, LossFacts DEF Scanned
  <2> QED BY <1>c, <2>1, <2>2
<1>3. ReadInv'
  <2>a. UNCHANGED <<lastObserved, origin, obsLast, obsTo, obsTodo, obsSeen, obsFound, status>>
    BY <1>a DEF observerVars, scan, store
  <2> SUFFICES ASSUME NEW t \in Tx, t \notin excused', Executed(t)',
                      Scanned(where'[t])
               PROVE  /\ obsTo # NoBlock /\ obsLast < where'[t] /\ where'[t] <= obsTo =>
                           \/ where'[t] \in obsTodo
                           \/ <<t, where'[t]>> \in obsSeen \cup obsFound
                           \/ status[t] # NoRecord
                      /\ lastObserved # NoBlock /\ origin < where'[t]
                           /\ where'[t] <= lastObserved => status[t] # NoRecord
    BY <2>a DEF ReadInv, Executed, Scanned
  <2>1. where'[t] = where[t] /\ Executed(t) /\ t \notin excused
    BY <1>b, <1>c DEF Executed
  <2> QED BY <2>1 DEF LossInv, ReadInv
<1>4. KeptInv'
  <2> SUFFICES ASSUME NEW t \in Tx
               PROVE  /\ status[t] # NoRecord => t \in book
                      /\ status[t] # NoRecord /\ t \notin moved'
                           => Executed(t)' /\ blk[t] = where'[t]
                      /\ status[t] = "reorg" => t \in excused'
                      /\ Doomed(t) => t \in excused'
    BY <1>a DEF KeptInv, Doomed, Promotable, store, observerVars, finalizerVars
  <2> QED BY <1>b, <1>c DEF LossInv, KeptInv, Executed
<1>5. SignedInv'
  <2>a. UNCHANGED <<status, blk, saPc, saBatch, saNumber, saSigned>>
    BY <1>a DEF store, saVars
  <2>1. \A p \in saSigned : p[1] \in Tx /\ status[p[1]] # NoRecord
    BY DEF LifeInv, LossTypeOK, TypeOK, SaTypeOK, NoRecord
  <2>2. \A p \in saSigned : p[1] \notin moved' => p[2] = where'[p[1]]
    BY <1>b, <1>c, <2>1 DEF LossInv, SignedInv
  <2> QED BY <1>b, <2>a, <2>2 DEF LossInv, SignedInv
<1> QED BY <1>1, <1>2, <1>3, <1>4, <1>5 DEF LossInv

\* A scan begins: its whole range is still to be read.
LEMMA StartKeepsLoss ==
    ASSUME LossTypeOK, LossInv, moved' = moved, excused \subseteq excused', ObserverStart
    PROVE  RangeInv' /\ HandInv' /\ ReadInv'
<1> USE DEF LossInv
<1>1. PICK latest \in Latest :
        /\ ScanBase(latest) < MinOf(latest, ScanBase(latest) + BatchBlocks)
        /\ BeginScan(ScanBase(latest), MinOf(latest, ScanBase(latest) + BatchBlocks))
  BY DEF ObserverStart
<1> DEFINE base == ScanBase(latest)
           to == MinOf(latest, base + BatchBlocks)
<1>2. latest \in Nat /\ 1 <= latest /\ latest <= head
  BY LossFacts DEF Latest
<1>3. /\ base \in Int /\ 0 <= base
      /\ lastObserved # NoBlock => base = lastObserved
  <2>1. CASE obsLast \in {NoBlock, 0}
    BY <1>2, <2>1, LossFacts DEF ScanBase, RangeInv
  <2>2. CASE obsLast \notin {NoBlock, 0}
    BY <2>2, LossFacts DEF ScanBase, RangeInv, LossTypeOK, TypeOK, ObserverTypeOK
  <2> QED BY <2>1, <2>2
<1>4. to \in Int /\ base < to /\ to <= head
  BY <1>1, <1>2, <1>3, ObserverAssumption, LossFacts DEF MinOf
<1>5. /\ obsTo = NoBlock /\ obsSeen = {} /\ obsFound = {}
      /\ obsLast' = base /\ obsTo' = to /\ obsTodo' = (base + 1)..to
      /\ UNCHANGED <<lastObserved, origin, obsSeen, obsFound, status, blk, chainVars>>
  BY <1>1 DEF ObserverStart, BeginScan, cursor, store, LossTypeOK, TypeOK, ObserverTypeOK
<1>b. obsBook' \subseteq book'
  BY <1>1 DEF BeginScan
<1> HIDE DEF base, to
<1>6. RangeInv'
  BY <1>b, <1>3, <1>4, <1>5, LossFacts DEF RangeInv, chainVars
<1>7. HandInv'
  BY <1>5 DEF HandInv
<1>8. ASSUME NEW t \in Tx, base < where[t], where[t] <= to
      PROVE  where[t] \in obsTodo'
  BY <1>3, <1>4, <1>5, <1>8, LossFacts
<1>9. ReadInv'
  BY <1>5, <1>8, LossFacts DEF ReadInv, Executed, chainVars
<1> QED BY <1>6, <1>7, <1>9

LEMMA ReadKeepsLoss ==
    ASSUME LossTypeOK, LossInv, moved' = moved, excused \subseteq excused',
           NEW b \in obsTodo, ObserverReadBlock(b)
    PROVE  RangeInv' /\ HandInv' /\ ReadInv'
<1> USE DEF LossInv
<1>1. /\ obsTodo' = obsTodo \ {b} /\ obsSeen' = obsSeen \cup {<<t, b>> : t \in BlockTx(b)}
      /\ UNCHANGED <<lastObserved, origin, book, obsBook, obsLast, obsTo, obsFound, status, chainVars>>
  BY DEF ObserverReadBlock, cursor, store
<1>2. RangeInv'
  BY <1>1 DEF RangeInv, chainVars
<1>3. b # 0 /\ b <= obsTo
  BY LossFacts DEF RangeInv
<1>4. HandInv'
  <2> SUFFICES ASSUME NEW p \in obsSeen' \cup obsFound
               PROVE  /\ p[2] # 0 /\ p[2] <= obsTo
                      /\ p \in obsFound => p[1] \in obsBook
                      /\ p[1] \notin moved =>
                           /\ p[2] = where[p[1]]
                           /\ p \in obsFound => p[1] \notin reverted
    BY <1>1 DEF HandInv, chainVars
  <2>1. CASE p \in obsSeen \cup obsFound
    BY <2>1 DEF HandInv
  <2>2. CASE p \notin obsSeen \cup obsFound
    <3>1. PICK t \in BlockTx(b) : p = <<t, b>>
      BY <1>1, <2>2
    <3> QED BY <1>3, <2>2, <3>1 DEF BlockTx
  <2> QED BY <2>1, <2>2
<1>5. ASSUME NEW t \in Tx, where[t] = b
      PROVE  <<t, where[t]>> \in obsSeen'
  BY <1>1, <1>3, <1>5 DEF BlockTx
<1>6. ReadInv'
  BY <1>1, <1>5 DEF ReadInv, Executed, chainVars
<1> QED BY <1>2, <1>4, <1>6

LEMMA AcceptKeepsLoss ==
    ASSUME LossTypeOK, LossInv, moved' = moved, excused \subseteq excused',
           \A t \in Tx : UnknownRecipient(t) => t \in excused',
           NEW p \in obsSeen, ObserverAccept(p)
    PROVE  RangeInv' /\ HandInv' /\ ReadInv'
<1> USE DEF LossInv
<1>1. /\ obsTodo' = obsTodo /\ obsSeen' = obsSeen \ {p}
      /\ obsFound' = IF p[1] \in obsBook /\ TransactionSuccessful(p[1])
                     THEN obsFound \cup {p} ELSE obsFound
      /\ UNCHANGED <<lastObserved, origin, book, obsBook, obsLast, obsTo, status, chainVars>>
  BY DEF ObserverAccept, cursor, store
<1>2. RangeInv'
  BY <1>1 DEF RangeInv, chainVars
<1>3. HandInv'
  BY <1>1 DEF HandInv, chainVars, TransactionSuccessful
<1>4. ASSUME NEW t \in Tx \ excused', Executed(t), p = <<t, where[t]>>
      PROVE  p \in obsFound'
  <2>1. p[1] = t /\ t \in obsBook
    BY <1>4 DEF UnknownRecipient
  <2> QED BY <1>1, <1>4, <2>1 DEF Executed, TransactionSuccessful
<1>5. ReadInv'
  <2> SUFFICES ASSUME NEW t \in Tx \ excused', Executed(t), obsTo # NoBlock,
                      obsLast < where[t], where[t] <= obsTo
               PROVE  \/ where[t] \in obsTodo
                      \/ <<t, where[t]>> \in obsSeen' \cup obsFound'
                      \/ status[t] # NoRecord
    BY <1>1 DEF ReadInv, Executed, chainVars
  <2>1. \/ where[t] \in obsTodo
        \/ <<t, where[t]>> \in obsSeen \cup obsFound
        \/ status[t] # NoRecord
    BY DEF ReadInv
  <2>2. obsFound \subseteq obsFound'
    BY <1>1
  <2> QED BY <1>1, <1>4, <2>1, <2>2
<1> QED BY <1>2, <1>3, <1>5

LEMMA InsertKeepsLoss ==
    ASSUME LossTypeOK, LossInv, moved' = moved, excused \subseteq excused',
           NEW p \in obsFound, ObserverInsert(p)
    PROVE  /\ RangeInv' /\ HandInv' /\ ReadInv'
           /\ \A t \in Tx :
                /\ status[t] # NoRecord => status'[t] = status[t] /\ blk'[t] = blk[t]
                /\ status[t] = NoRecord /\ status'[t] # NoRecord =>
                     /\ status'[t] # "reorg" /\ status'[t] # "finalized" /\ t \in book
                     /\ t \notin moved => Executed(t) /\ blk'[t] = where[t]
<1> USE DEF LossInv
<1>1. /\ obsFound' = obsFound \ {p}
      /\ InsertIfNotExists(p[1], p[2], AcceptedStatus(p[1], "pending"))
      /\ UNCHANGED <<lastObserved, origin, book, obsBook, obsLast, obsTo, obsTodo, obsSeen, chainVars>>
  BY DEF ObserverInsert, cursor
<1>2. /\ p[1] \in Tx /\ p[2] # 0 /\ p[1] \in book
      /\ p[1] \notin moved => p[2] = where[p[1]] /\ p[1] \notin reverted
  BY LossFacts DEF HandInv, RangeInv
<1>3. /\ status'[p[1]] # NoRecord
      /\ \A t \in Tx : status[t] # NoRecord \/ t # p[1]
                         => status'[t] = status[t] /\ blk'[t] = blk[t]
      /\ status[p[1]] = NoRecord => /\ status'[p[1]] \in {"pending", "rejected"}
                                    /\ blk'[p[1]] = p[2]
  BY <1>1, <1>2, LossFacts DEF InsertIfNotExists, Upsert, AcceptedStatus, store, NoRecord
<1>4. RangeInv' /\ HandInv'
  BY <1>1 DEF RangeInv, HandInv, chainVars
<1>5. ReadInv'
  <2> SUFFICES ASSUME NEW t \in Tx \ excused', Executed(t)
               PROVE  /\ obsTo # NoBlock /\ obsLast < where[t] /\ where[t] <= obsTo =>
                           \/ where[t] \in obsTodo
                           \/ <<t, where[t]>> \in obsSeen \cup (obsFound \ {p})
                           \/ status'[t] # NoRecord
                      /\ lastObserved # NoBlock /\ origin < where[t]
                           /\ where[t] <= lastObserved => status'[t] # NoRecord
    BY <1>1 DEF ReadInv, Executed, chainVars
  <2>1. status[t] # NoRecord => status'[t] # NoRecord
    BY <1>3
  <2>2. p = <<t, where[t]>> => status'[t] # NoRecord
    BY <1>3
  <2> QED BY <2>1, <2>2 DEF ReadInv
<1>6. \A t \in Tx : status[t] = NoRecord /\ status'[t] # NoRecord => t = p[1]
  BY <1>3
<1> QED
  BY <1>2, <1>3, <1>4, <1>5, <1>6 DEF Executed

LEMMA SaveKeepsLoss ==
    ASSUME LossTypeOK, LossInv, moved' = moved, excused \subseteq excused', ObserverSave
    PROVE  RangeInv' /\ HandInv' /\ ReadInv'
<1> USE DEF LossInv
<1>1. /\ obsTo # NoBlock /\ obsTodo = {} /\ obsSeen = {} /\ obsFound = {}
      /\ lastObserved' = obsTo /\ obsLast' = obsTo /\ obsTo' = NoBlock
      /\ origin' = IF lastObserved = NoBlock THEN obsLast ELSE origin
      /\ obsBook' = {}
      /\ UNCHANGED <<obsTodo, obsSeen, obsFound, status, chainVars>>
  BY DEF ObserverSave, SaveCursor, store
<1>2. RangeInv'
  BY <1>1, LossFacts DEF RangeInv, chainVars
<1>3. HandInv'
  BY <1>1 DEF HandInv
<1>4. ASSUME NEW t \in Tx \ excused', Executed(t), origin' < where[t], where[t] <= obsTo
      PROVE  status[t] # NoRecord
  <2>1. where[t] \in Nat
    BY LossFacts
  <2>2. CASE obsLast < where[t]
    BY <1>1, <1>4, <2>2 DEF ReadInv
  <2>3. CASE ~(obsLast < where[t])
    <3>1. lastObserved # NoBlock /\ obsLast = lastObserved
      BY <1>1, <1>4, <2>3 DEF RangeInv
    <3> QED BY <1>1, <1>4, <2>1, <2>3, <3>1, LossFacts DEF ReadInv
  <2> QED BY <2>2, <2>3
<1>5. ReadInv'
  BY <1>1, <1>4 DEF ReadInv, Executed, chainVars
<1> QED BY <1>2, <1>3, <1>5

\* A scan that raises excuses what is in its range; a crash has saved nothing.
LEMMA FaultKeepsLoss ==
    ASSUME LossTypeOK, LossInv, moved' = moved, excused \subseteq excused',
           \/ ObserverScanFails /\ \A t \in Tx : Unread(t) => t \in excused'
           \/ ObserverCrash
    PROVE  RangeInv' /\ HandInv' /\ ReadInv'
<1> USE DEF LossInv
<1>1. /\ obsTodo' = {} /\ obsSeen' = {} /\ obsFound' = {}
      /\ obsBook' \subseteq book'
      /\ UNCHANGED <<lastObserved, origin, status, chainVars>>
      /\ \/ /\ UNCHANGED <<obsLast, obsTo>>
            /\ \A t \in Tx : Unread(t) => t \in excused'
         \/ obsTo' = NoBlock /\ obsLast' = lastObserved
  BY DEF RangeInv, ObserverScanFails, ObserverCrash, cursor, store
<1>2. RangeInv'
  BY <1>1, LossFacts DEF RangeInv, chainVars
<1>3. HandInv'
  BY <1>1 DEF HandInv
<1>4. ASSUME NEW t \in Tx, status[t] = NoRecord, obsLast < where[t], where[t] <= obsTo
      PROVE  Unread(t)
  BY <1>4, LossFacts DEF Unread
<1>5. ReadInv'
  BY <1>1, <1>4 DEF ReadInv, Executed, chainVars
<1> QED BY <1>2, <1>3, <1>5

LEMMA ObserverKeepsLoss ==
    ASSUME LossTypeOK, LifeInv, LossInv, LossObserver
    PROVE  LossInv'
<1>1. PICK S \in SUBSET Tx :
        /\ Miss(S)
        /\ \/ ObserverWork /\ \A t \in Tx : UnknownRecipient(t) \/ Late(t) => t \in S
           \/ ObserverScanFails /\ \A t \in Tx : Unread(t) => t \in S
           \/ ObserverCrash
  <2>1. CASE ObserverWork /\ Miss({t \in Tx : UnknownRecipient(t) \/ Late(t)})
    BY <2>1
  <2>2. CASE ObserverScanFails /\ Miss({t \in Tx : Unread(t)})
    BY <2>2
  <2>3. CASE ObserverCrash /\ Miss({})
    BY <2>3
  <2> QED BY <2>1, <2>2, <2>3 DEF LossObserver
<1>2. moved' = moved /\ excused \subseteq excused' /\ S \subseteq excused'
  BY <1>1, MissKeeps
<1>3. RangeInv' /\ HandInv' /\ ReadInv'
  BY <1>1, <1>2, StartKeepsLoss, ReadKeepsLoss, AcceptKeepsLoss, InsertKeepsLoss,
     SaveKeepsLoss, FaultKeepsLoss DEF ObserverWork
<1>4. /\ UNCHANGED <<chainVars, finalizerVars, saVars>> /\ book \subseteq book'
  <2>1. UNCHANGED <<finalizerVars, saVars>>
    BY DEF LossObserver
  <2>2. UNCHANGED chainVars /\ book \subseteq book'
    BY <1>1 DEF ObserverWork, ObserverStart, BeginScan, RefreshBook, ObserverReadBlock,
                ObserverAccept, ObserverInsert, ObserverSave, ObserverScanFails,
                ObserverCrash, LossTypeOK, TypeOK, ObserverTypeOK
  <2> QED BY <2>1, <2>2
<1>5. \A t \in Tx :
        /\ status[t] # NoRecord => status'[t] = status[t] /\ blk'[t] = blk[t]
        /\ status[t] = NoRecord /\ status'[t] # NoRecord =>
             /\ status'[t] # "reorg" /\ status'[t] # "finalized" /\ t \in book
             /\ t \notin moved => Executed(t) /\ blk'[t] = where[t]
  <2>1. CASE \E p \in obsFound : ObserverInsert(p)
    BY <1>2, <2>1, InsertKeepsLoss
  <2>2. CASE ~\E p \in obsFound : ObserverInsert(p)
    <3>1. UNCHANGED store
      BY <1>1, <2>2 DEF ObserverWork, ObserverStart, BeginScan, ObserverReadBlock,
                ObserverAccept, ObserverSave, ObserverScanFails, ObserverCrash
    <3> QED BY <3>1 DEF store
  <2> QED BY <2>1, <2>2
<1>6. KeptInv'
  <2>1. ASSUME NEW t \in Tx, Doomed(t)' PROVE t \in excused'
    <3>1. CASE status[t] = "pending"
      <4>1. Doomed(t)
        BY <1>4, <1>5, <2>1, <3>1 DEF Doomed, Promotable, finalizerVars, NoRecord
      <4> QED BY <1>2, <4>1 DEF LossInv, KeptInv
    <3>2. CASE status[t] # "pending" /\ ObserverWork
      BY <1>1, <1>2, <2>1, <3>2 DEF Late, ObserverScanFails, ObserverCrash, store, Doomed
    <3>3. CASE status[t] # "pending" /\ ~ObserverWork
      BY <1>1, <2>1, <3>3 DEF ObserverScanFails, ObserverCrash, store, Doomed
    <3> QED BY <3>1, <3>2, <3>3
  <2> QED BY <1>2, <1>4, <1>5, <2>1 DEF LossInv, KeptInv, Executed, chainVars
<1>7. SignedInv'
  <2>1. UNCHANGED <<where, saPc, saBatch, saNumber, saSigned>>
    BY <1>4 DEF chainVars, saVars
  <2>2. /\ \A t \in saBatch : t \in Tx
        /\ saPc = "sign" => \A t \in saBatch : status[t] = "finalized"
    <3>1. saBatch \in SUBSET Tx
      BY DEF LossTypeOK, TypeOK, SaTypeOK
    <3> QED BY <3>1 DEF LifeInv
  <2>3. saPc = "sign" => \A t \in saBatch : blk'[t] <= saNumber
    BY <1>5, <2>2 DEF LossInv, SignedInv, NoRecord
  <2>4. \A t \in saBatch : t \in Tx /\ (status'[t] = "finalized" => status[t] = "finalized")
    BY <1>5 DEF LossTypeOK, TypeOK, SaTypeOK
  <2>5. \A t \in saBatch : status'[t] = status[t]
    BY <1>5, <2>4 DEF LossInv, SignedInv
  <2> QED BY <1>2, <2>1, <2>3, <2>4, <2>5 DEF LossInv, SignedInv
<1> QED BY <1>3, <1>6, <1>7 DEF LossInv

\* What the finalizer discards was doomed before its promotion.
LEMMA FinalizerKeepsLoss ==
    ASSUME LossTypeOK, LossInv, Finalizer, Miss({t \in Tx : Surrounded(t)})
    PROVE  LossInv'
<1>1. /\ moved' = moved /\ excused \subseteq excused'
      /\ \A t \in Tx : Surrounded(t) => t \in excused'
  BY MissKeeps
<1>2. UNCHANGED <<head, where, reverted, observerVars, saVars, blk>>
  BY DEF Finalizer, FinalizerWork, FinalizerAbort, FinalizerStart, FinalizerQuery,
         FinalizerFetch, FinalizerMark, FinalizerDiscard, ToFinalized,
         ToReorgBlockNumber, SetStatus, chainVars, store
<1>3. \A t \in Tx :
        status'[t] # status[t] =>
            /\ status[t] = "pending" /\ status'[t] \in {"finalized", "reorg"}
            /\ status'[t] = "reorg" => Doomed(t)
  <2>1. CASE FinalizerMark
    BY <2>1 DEF FinalizerMark, ToFinalized, SetStatus
  <2>2. CASE FinalizerDiscard
    <3>1. finBatch # {} /\ finPc = "discard"
      BY <2>2 DEF FinalizerDiscard, LossTypeOK, TypeOK, FinalizerTypeOK
    <3> QED BY <2>2, <3>1 DEF FinalizerDiscard, ToReorgBlockNumber, SetStatus, Doomed,
                                    Promotable
  <2>3. CASE ~FinalizerMark /\ ~FinalizerDiscard
    BY <2>3 DEF Finalizer, FinalizerWork, FinalizerAbort, FinalizerStart, FinalizerQuery,
                FinalizerFetch, store
  <2> QED BY <2>1, <2>2, <2>3
<1>4. \A t \in Tx : status'[t] # NoRecord <=> status[t] # NoRecord
  BY <1>3 DEF NoRecord
<1>5. RangeInv' /\ HandInv'
  BY <1>1, <1>2 DEF LossInv, RangeInv, HandInv, observerVars, scan
<1>6. ReadInv'
  BY <1>1, <1>2, <1>4 DEF LossInv, ReadInv, Executed, observerVars, scan
<1>7. ASSUME NEW t \in Tx, Doomed(t)' PROVE t \in excused'
  <2>a. /\ status[t] = "pending" /\ blk'[t] = blk[t]
        /\ t \in moved \/ (Executed(t) /\ blk[t] = where[t])
    BY <1>2, <1>3, <1>7 DEF Doomed, LossInv, KeptInv, NoRecord
  <2>b. ASSUME Doomed(t) PROVE t \in excused'
    BY <1>1, <2>b DEF LossInv, KeptInv
  <2>1. CASE finPc # "fetch" /\ finPc' = "fetch"
    BY <1>1, <1>7, <2>1 DEF Surrounded
  <2>2. ASSUME NEW b \in finUnread, FinalizerFetch(b) PROVE t \in excused'
    <3>1. /\ finPc = "fetch" /\ finPc' = "fetch" /\ finUnread' = finUnread \ {b}
          /\ finHashes' = finHashes \cup BlockTx(b)
          /\ UNCHANGED <<finNum, finBatch>>
      BY <2>2 DEF FinalizerFetch
    <3>2. CASE blk[t] = b /\ t \notin moved
      <4>1. t \in BlockTx(b)
        BY <2>a, <3>2 DEF BlockTx, Executed
      <4>2. t \in finHashes'
        BY <3>1, <4>1
      <4>3. ~(blk[t] <= finNum)
        BY <1>7, <2>a, <3>1, <4>2 DEF Doomed, Promotable
      <4> QED BY <1>7, <2>a, <2>b, <3>1, <4>3 DEF Doomed, Promotable
    <3>3. CASE blk[t] # b
      BY <1>7, <2>a, <2>b, <3>1, <3>3 DEF Doomed, Promotable
    <3> QED BY <1>1, <3>2, <3>3 DEF excused
  <2>3. CASE FinalizerMark
    <3>1. /\ finUnread = {} /\ UNCHANGED <<finBatch, finNum>>
          /\ t \in finHashes /\ blk[t] <= finNum => status'[t] = "finalized"
      BY <2>3, <2>a DEF FinalizerMark, ToFinalized, SetStatus
    <3> QED BY <1>7, <2>a, <2>b, <3>1 DEF Doomed, Promotable
  <2>4. CASE FinalizerAbort \/ finPc' = "idle" \/ finPc' = "query"
    <3>1. finPc' \in {"idle", "query"} => finBatch' = {}
      BY DEF Finalizer, FinalizerWork, FinalizerStart, FinalizerQuery, FinalizerFetch,
             FinalizerMark, FinalizerDiscard, FinalizerAbort, TakeBatch, LossTypeOK,
             TypeOK, FinalizerTypeOK
    <3> QED BY <1>7, <2>4, <3>1 DEF FinalizerAbort, Doomed
  <2> QED
    BY <2>1, <2>2, <2>3, <2>4 DEF Finalizer, FinalizerWork, FinalizerStart,
       FinalizerQuery, FinalizerDiscard, TakeBatch
<1>9. KeptInv'
  BY <1>1, <1>2, <1>3, <1>4, <1>7 DEF LossInv, KeptInv, Executed, observerVars
<1>8. SignedInv'
  <2>1. UNCHANGED <<saPc, saBatch, saNumber, saSigned>> /\ saBatch \in SUBSET Tx
    BY <1>2 DEF saVars, LossTypeOK, TypeOK, SaTypeOK
  <2>2. \A t \in saBatch : status'[t] = status[t]
    BY <1>3, <2>1 DEF LossInv, SignedInv
  <2> QED BY <1>1, <1>2, <2>1, <2>2 DEF LossInv, SignedInv
<1> QED BY <1>5, <1>6, <1>8, <1>9 DEF LossInv

\* The aggregator's batch: what was not moved is signed, and so recorded.
LEMMA SaKeepsSigned ==
    ASSUME LossTypeOK, LifeInv, LossInv, Sa, moved' = moved
    PROVE  /\ SignedInv'
           /\ \A t \in Tx :
                /\ status'[t] # NoRecord <=> status[t] # NoRecord
                /\ status'[t] = "reorg" /\ status[t] # "reorg" => t \in moved
                /\ status'[t] = "pending" => status[t] = "pending"
                /\ blk'[t] # blk[t] =>
                     status[t] # NoRecord /\ (t \notin moved => blk'[t] = where[t])
<1> USE DEF LossInv
<1>a. /\ UNCHANGED <<head, where, reverted>>
      /\ saBatch \in SUBSET Tx /\ saSigned \in SUBSET (Tx \X Nat)
      /\ saPc = "idle" => saBatch = {}
      /\ saPc \in {"idle", "sign"} => saSigned = {}
  <2>1. UNCHANGED chainVars
    BY DEF Sa, SaWork, SaFault, SaFind, SaSign, SaRefused, SaDeliver,
           SaDeliverUnacked, SaRecord, SaClean, SaAbort
  <2> QED BY <2>1 DEF chainVars, LossTypeOK, TypeOK, SaTypeOK
<1>1. CASE SaFind
  <2>1. PICK B \in FirstByBlock(WithStatus("finalized")) : \E last \in B :
          /\ \A t \in B : blk[t] <= blk[last]
          /\ saBatch' = B /\ saNumber' = blk[last]
    BY <1>1 DEF SaFind
  <2>2. \A t \in saBatch' : status[t] = "finalized" /\ blk[t] <= saNumber'
    BY <2>1 DEF FirstByBlock, WithStatus
  <2>3. UNCHANGED <<status, blk, saSigned>> /\ saPc = "idle" /\ saPc' = "sign"
    BY <1>1 DEF SaFind, store
  <2> QED BY <1>a, <2>2, <2>3 DEF SignedInv, NoRecord
<1>2. CASE SaSign
  <2>1. UNCHANGED <<status, blk, saBatch, saNumber>> /\ saPc = "sign" /\ saPc' = "send"
    BY <1>2 DEF SaSign, store
  <2>2. PICK h \in Latest :
          /\ saNumber <= FinalizedNumber(h)
          /\ saSigned' =
               {<<t, where[t]>> : t \in
                  {u \in saBatch : /\ where[u] <= FinalizedNumber(h)
                                   /\ u \in book'
                                   /\ TransactionSuccessful(u)}}
    BY <1>2 DEF SaSign
  <2>3. \A p \in saSigned' : p[2] = where[p[1]]
    BY <2>2
  <2>4. book \subseteq book'
    BY <1>2 DEF SaSign, RefreshBook, LossTypeOK, TypeOK, ObserverTypeOK
  <2>5. ASSUME NEW t \in saBatch \ moved'
        PROVE  \E p \in saSigned' : p[1] = t
    <3>1. /\ t \in Tx /\ status[t] # NoRecord /\ t \in book
          /\ Executed(t) /\ blk[t] = where[t] /\ blk[t] <= saNumber
      BY <1>a, <2>1, <2>5 DEF SignedInv, KeptInv
    <3>2. h \in Int /\ Conf \in Int /\ saNumber \in Int /\ where[t] \in Int
      BY <3>1, LossFacts, ChainAssumption DEF Latest, LossTypeOK, TypeOK, SaTypeOK
    <3>3. where[t] <= FinalizedNumber(h)
      BY <2>2, <3>1, <3>2 DEF FinalizedNumber
    <3>4. <<t, where[t]>> \in saSigned'
      BY <2>2, <2>4, <2>5, <3>1, <3>3 DEF TransactionSuccessful, Executed
    <3> QED BY <3>4
  <2> QED BY <1>a, <2>1, <2>3, <2>5 DEF SignedInv
<1>3. CASE SaDeliver
  BY <1>3, <1>a DEF SaDeliver, SignedInv, store
<1>4. CASE SaRefused \/ SaDeliverUnacked \/ SaAbort
  <2>1. saBatch' = {} /\ saSigned' = {} /\ UNCHANGED <<status, blk>>
    BY <1>4, <1>a DEF SaRefused, SaDeliverUnacked, SaAbort, store
  <2> QED BY <2>1 DEF SignedInv
<1>5. ASSUME NEW p \in saSigned, SaRecord(p)
      PROVE  /\ SignedInv'
             /\ \A t \in Tx :
                  /\ status'[t] # NoRecord <=> status[t] # NoRecord
                  /\ status'[t] = "reorg" /\ status[t] # "reorg" => t \in moved
                  /\ status'[t] = "pending" => status[t] = "pending"
                  /\ blk'[t] # blk[t] =>
                       status[t] # NoRecord /\ (t \notin moved => blk'[t] = where[t])
  <2>1. /\ p[1] \in Tx /\ status[p[1]] = "finalized"
        /\ p[1] \notin moved => p[2] = where[p[1]]
    BY <1>a DEF LifeInv, SignedInv
  <2>2. /\ status' = [status EXCEPT ![p[1]] = AcceptedStatus(p[1], "verified")]
        /\ blk' = [blk EXCEPT ![p[1]] = p[2]]
        /\ saSigned' = saSigned \ {p} /\ saPc = "record"
        /\ UNCHANGED <<saPc, saBatch, saNumber>>
    BY <1>5 DEF SaRecord, Upsert
  <2>3. /\ status'[p[1]] \in {"verified", "rejected"} /\ blk'[p[1]] = p[2]
        /\ \A t \in Tx : t # p[1] => status'[t] = status[t] /\ blk'[t] = blk[t]
    BY <2>1, <2>2, LossFacts DEF AcceptedStatus
  <2>4. \A t \in saBatch : status'[t] \notin {NoRecord, "pending"}
    BY <1>a, <2>3 DEF SignedInv, NoRecord
  <2>5. ASSUME NEW t \in saBatch \ moved', status'[t] = "finalized"
        PROVE  \E q \in saSigned' : q[1] = t
    <3>1. t # p[1] /\ status[t] = "finalized"
      BY <1>a, <2>3, <2>5
    <3>2. PICK q \in saSigned : q[1] = t
      BY <2>2, <2>5, <3>1 DEF SignedInv
    <3> QED BY <2>2, <3>1, <3>2
  <2>6. SignedInv'
    BY <1>a, <2>2, <2>4, <2>5 DEF SignedInv
  <2> QED BY <2>1, <2>3, <2>6 DEF NoRecord
<1>6. CASE SaClean
  <2>1. /\ saSigned = {} /\ saPc = "record" /\ saBatch' = {} /\ saSigned' = {}
        /\ UNCHANGED blk
        /\ \A t \in Tx : status'[t] = IF t \in saBatch /\ status[t] = "finalized"
                                      THEN "reorg" ELSE status[t]
    BY <1>6 DEF SaClean, ToReorgWithTxHash, SetStatus
  <2>2. \A t \in saBatch : status[t] = "finalized" => t \in moved
    BY <2>1 DEF SignedInv
  <2>3. SignedInv'
    BY <1>6, <2>1 DEF SaClean, SignedInv
  <2> QED BY <2>1, <2>2, <2>3 DEF NoRecord
<1> QED
  BY <1>1, <1>2, <1>3, <1>4, <1>5, <1>6 DEF Sa, SaWork, SaFault, SaFind, SaSign, SaDeliver,
     SaRefused, SaDeliverUnacked, SaAbort, store

LEMMA SaKeepsLoss ==
    ASSUME LossTypeOK, LifeInv, LossInv, Sa, Miss({})
    PROVE  LossInv'
<1> USE DEF LossInv
<1>1. moved' = moved /\ excused \subseteq excused'
  BY MissKeeps
<1>2. /\ UNCHANGED <<head, where, reverted, lastObserved, origin, obsLast, scan>>
      /\ book \subseteq book'
  <2>1. UNCHANGED chainVars /\ book \subseteq book'
    BY DEF Sa, SaWork, SaFault, SaFind, SaSign, SaRefused, SaDeliver, SaDeliverUnacked,
           SaRecord, SaClean, SaAbort, RefreshBook, LossTypeOK, TypeOK, ObserverTypeOK
  <2> QED BY <2>1 DEF Sa, cursor, chainVars
<1>3. /\ SignedInv'
      /\ \A t \in Tx :
           /\ status'[t] # NoRecord <=> status[t] # NoRecord
           /\ status'[t] = "reorg" /\ status[t] # "reorg" => t \in moved
           /\ status'[t] = "pending" => status[t] = "pending"
           /\ blk'[t] # blk[t] =>
                status[t] # NoRecord /\ (t \notin moved => blk'[t] = where[t])
  BY <1>1, SaKeepsSigned
<1>4. RangeInv' /\ HandInv'
  BY <1>1, <1>2 DEF RangeInv, HandInv, scan
<1>5. ReadInv'
  BY <1>1, <1>2, <1>3 DEF ReadInv, Executed, scan
<1>6. KeptInv'
  <2>1. UNCHANGED finalizerVars
    BY DEF Sa
  <2>2. ASSUME NEW t \in Tx, Doomed(t)' PROVE t \in excused'
    <3>1. CASE blk'[t] = blk[t]
      BY <1>1, <1>3, <2>1, <2>2, <3>1 DEF Doomed, Promotable, KeptInv, finalizerVars
    <3>2. CASE blk'[t] # blk[t]
      BY <1>1, <1>2, <1>3, <2>2, <3>2 DEF Doomed, KeptInv, NoRecord, excused
    <3> QED BY <3>1, <3>2
  <2> QED BY <1>1, <1>2, <1>3, <2>2 DEF KeptInv, Executed, excused
<1> QED BY <1>3, <1>4, <1>5, <1>6

LEMMA InitLoss == LossInit => LossTypeOK /\ LifeInv /\ LossInv
<1> SUFFICES ASSUME LossInit PROVE LossTypeOK /\ LifeInv /\ LossInv
  OBVIOUS
<1>1. LossTypeOK
  BY InitType DEF LossInit, LossTypeOK
<1>2. LifeInv
  BY DEF LossInit, Init, StoreInit, SaInit, LifeInv
<1>3. RangeInv /\ HandInv /\ ReadInv
  BY DEF LossInit, Init, ChainInit, ObserverInit, RangeInv, HandInv, ReadInv, Executed, NoBlock
<1>4. KeptInv /\ SignedInv
  BY DEF LossInit, Init, StoreInit, FinalizerInit, SaInit, KeptInv, SignedInv, Doomed, NoRecord
<1> QED BY <1>1, <1>2, <1>3, <1>4 DEF LossInv

LEMMA LossStep ==
    ASSUME LossTypeOK, LifeInv, LossInv, [LossNext]_lossVars
    PROVE  LossTypeOK' /\ LifeInv' /\ LossInv'
<1>1. CASE UNCHANGED lossVars
  <2>1. UNCHANGED <<chainVars, store, observerVars, finalizerVars, saVars, vars, moved, missed>>
    BY <1>1 DEF lossVars, vars
  <2>2. TypeOK'
    BY <2>1, StutterType DEF LossTypeOK
  <2>3. LifeInv'
    BY <2>1 DEF LifeInv, store, saVars
  <2>4. RangeInv' /\ HandInv' /\ ReadInv'
    BY <2>1 DEF LossInv, RangeInv, HandInv, ReadInv, Executed, chainVars, store,
                observerVars, scan, excused
  <2>5. KeptInv'
    BY <2>1 DEF LossInv, KeptInv, Executed, Doomed, Promotable, chainVars, store,
                observerVars, finalizerVars, excused
  <2>6. SignedInv'
    BY <2>1 DEF LossInv, SignedInv, chainVars, store, saVars
  <2> QED BY <2>1, <2>2, <2>3, <2>4, <2>5, <2>6 DEF LossTypeOK, LossInv
<1>2. CASE LossNext
  <2>1. Next /\ \E S \in SUBSET Tx : Move(S) \/ Miss(S)
    <3>1. CASE Chain /\ Move({t \in Tx : Moved(t)})
      BY <3>1 DEF Next
    <3>2. CASE LossObserver
      BY <3>2 DEF LossObserver, Next, Observer, ObserverFault
    <3>3. CASE Finalizer /\ Miss({t \in Tx : Surrounded(t)})
      BY <3>3 DEF Next
    <3>4. CASE Sa /\ Miss({})
      BY <3>4 DEF Next
    <3> QED BY <1>2, <3>1, <3>2, <3>3, <3>4 DEF LossNext
  <2>2. LossTypeOK'
    BY <2>1, NextType, MoveKeeps, MissKeeps DEF LossTypeOK
  <2>3. LifeInv'
    BY <2>1, OthersKeepLife, SaKeepsLife DEF Next, LossTypeOK
  <2>4. LossInv'
    BY <1>2, ChainKeepsLoss, ObserverKeepsLoss, FinalizerKeepsLoss, SaKeepsLoss
    DEF LossNext
  <2> QED BY <2>2, <2>3, <2>4
<1> QED BY <1>1, <1>2

LEMMA LossInvariance == LossSpec => [](LossTypeOK /\ LifeInv /\ LossInv)
  BY InitLoss, LossStep, PTL DEF LossSpec

\* A deposit in a settled block below the cursor has no record, or one called
\* reorganised away, only if its block was in a scan that raised, its
\* recipient was unknown while Zex was silent, a reorganisation moved it, or
\* the finalizer came by too early for it (except of observe_deposit, and
\* to_reorg_block_number); crashes, old heads and resends lose nothing.
THEOREM LossesAreExplained == LossSpec => []LossIsExplained
<1>1. LossTypeOK /\ LossInv => LossIsExplained
  <2> SUFFICES ASSUME LossTypeOK, LossInv, NEW t \in Tx, Lost(t), t \notin moved \cup missed
               PROVE  FALSE
    BY DEF LossIsExplained
  <2> USE DEF excused
  <2>1. status[t] # NoRecord => status[t] = "reorg"
    BY DEF Lost
  <2>2. Executed(t) => status[t] # NoRecord
    BY DEF Lost, LossInv, ReadInv
  <2>3. where[t] # 0
    <3>1. origin >= 0 /\ origin \in Int /\ where[t] \in Nat
      BY LossFacts DEF Lost, LossInv, RangeInv
    <3> QED BY <3>1 DEF Lost
  <2> QED BY <2>1, <2>2, <2>3 DEF Lost, Executed, LossInv, KeptInv
<1> QED BY <1>1, LossInvariance, PTL

\* A post is recorded, about to be, or met a fault.
PostedInv ==
    \A t \in Tx :
        sends[t] > 0 =>
            \/ status[t] \in {"verified", "successful", "rejected"}
            \/ AwaitsRecord(t)
            \/ faults["sa"] > 0

LEMMA PostedStep ==
    ASSUME TypeOK, LifeInv, PostedInv, [Next]_vars
    PROVE  PostedInv'
<1> SUFFICES ASSUME NEW t \in Tx, sends'[t] > 0
             PROVE  \/ status'[t] \in {"verified", "successful", "rejected"}
                    \/ AwaitsRecord(t)'
                    \/ faults'["sa"] > 0
  BY DEF PostedInv
<1>a. /\ faults["sa"] \in Nat /\ saSigned \in SUBSET (Tx \X Nat)
      /\ saPc \in {"idle", "sign"} => saSigned = {}
      /\ status \in [Tx -> DepositStatus \cup {NoRecord}]
  BY DEF TypeOK, ChainTypeOK, SaTypeOK, StoreTypeOK, Process
<1>b. sends[t] > 0 =>
          \/ status[t] \in {"verified", "successful", "rejected"}
          \/ AwaitsRecord(t) \/ faults["sa"] > 0
  BY DEF PostedInv
<1>1. CASE Chain \/ Observer \/ Finalizer \/ UNCHANGED vars
  <2>1. UNCHANGED saVars /\ faults'["sa"] = faults["sa"]
    BY <1>1 DEF Chain, Mine, Reorg, Observer, ObserverWork, ObserverFault, ObserverStart,
         BeginScan, ObserverReadBlock, ObserverAccept, ObserverInsert, ObserverSave,
         ObserverScanFails, ObserverCrash, Finalizer, FinalizerWork, FinalizerAbort,
         FinalizerStart, FinalizerQuery, FinalizerFetch, FinalizerMark, FinalizerDiscard,
         Fault, vars, TypeOK, ChainTypeOK, Process
  <2>2. status[t] \in {"verified", "successful", "rejected"} => status'[t] = status[t]
    <3>1. CASE Chain \/ UNCHANGED vars
      BY <3>1 DEF Chain, store, vars
    <3>2. CASE Observer
      BY <3>2, ObserverEffect DEF NoRecord
    <3>3. CASE Finalizer
      BY <3>3, FinalizerEffect DEF SetStatus
    <3> QED BY <1>1, <3>1, <3>2, <3>3
  <2> QED BY <1>b, <2>1, <2>2 DEF saVars, AwaitsRecord
<1>2. CASE SaDeliver
  <2>1. UNCHANGED <<status, saSigned, faults>> /\ saPc' = "record"
    BY <1>2 DEF SaDeliver, store
  <2>2. CASE \E p \in saSigned : p[1] = t
    BY <2>1, <2>2 DEF AwaitsRecord
  <2>3. CASE ~\E p \in saSigned : p[1] = t
    <3>1. sends'[t] = sends[t]
      BY <1>2, <2>3 DEF SaDeliver, Post
    <3> QED BY <1>b, <2>1, <2>3, <3>1 DEF AwaitsRecord
  <2> QED BY <2>2, <2>3
<1>3. CASE SaDeliverUnacked \/ SaAbort
  BY <1>3, <1>a DEF SaDeliverUnacked, SaAbort, Fault, TypeOK, ChainTypeOK, Process
<1>4. ASSUME NEW p \in saSigned, SaRecord(p)
      PROVE  \/ status'[t] \in {"verified", "successful", "rejected"}
             \/ AwaitsRecord(t)' \/ faults'["sa"] > 0
  <2>1. /\ status' = [status EXCEPT ![p[1]] = AcceptedStatus(p[1], "verified")]
        /\ saSigned' = saSigned \ {p} /\ UNCHANGED <<saPc, sends, faults>>
    BY <1>4 DEF SaRecord, Upsert
  <2>2. CASE p[1] = t
    BY <1>a, <2>1, <2>2 DEF AcceptedStatus
  <2>3. CASE p[1] # t
    BY <1>a, <1>b, <2>1, <2>3 DEF AwaitsRecord
  <2> QED BY <2>2, <2>3
<1>5. CASE SaFind \/ SaSign \/ SaRefused \/ SaClean
  <2>1. UNCHANGED <<sends, faults>> /\ ~AwaitsRecord(t)
    BY <1>5, <1>a DEF SaFind, SaSign, SaRefused, SaClean, AwaitsRecord
  <2>2. status[t] \in {"verified", "successful", "rejected"} => status'[t] = status[t]
    BY <1>5 DEF SaFind, SaSign, SaRefused, SaClean, store, ToReorgWithTxHash, SetStatus
  <2> QED BY <1>b, <2>1, <2>2
<1> QED
  BY <1>1, <1>2, <1>3, <1>4, <1>5 DEF Next, Sa, SaWork, SaFault

LEMMA PostedInvariance == LossSpec => []PostedInv
<1>1. LossInit => PostedInv
  BY DEF LossInit, Init, SaInit, PostedInv
<1>2. [LossNext]_lossVars => [Next]_vars
  BY DEF LossNext, LossObserver, Next, Observer, ObserverFault, lossVars
<1>3. LossTypeOK /\ LifeInv /\ PostedInv /\ [LossNext]_lossVars => PostedInv'
  BY <1>2, PostedStep DEF LossTypeOK
<1> QED BY <1>1, <1>3, LossInvariance, PTL DEF LossSpec

\* What Zex was told of was FINALIZED, and loses that only to the SA's cleaning.
CreditedInv ==
    \A t \in Tx :
        sends[t] > 0 =>
            /\ status[t] \notin {NoRecord, "pending"}
            /\ status[t] = "reorg" => t \in moved

LEMMA CreditedStep ==
    ASSUME LossTypeOK, LifeInv, LossInv, CreditedInv, [LossNext]_lossVars
    PROVE  CreditedInv'
<1> SUFFICES ASSUME NEW t \in Tx, sends'[t] > 0
             PROVE  /\ status'[t] \notin {NoRecord, "pending"}
                    /\ status'[t] = "reorg" => t \in moved'
  BY DEF CreditedInv
<1>a. sends[t] > 0 =>
          /\ status[t] \notin {NoRecord, "pending"}
          /\ status[t] = "reorg" => t \in moved
  BY DEF CreditedInv
<1>b. TypeOK /\ LossTypeOK
  BY DEF LossTypeOK
<1>1. CASE UNCHANGED lossVars
  BY <1>1, <1>a DEF lossVars, vars, store, saVars
<1>2. CASE Chain /\ Move({u \in Tx : Moved(u)})
  BY <1>2, <1>a DEF Chain, store, saVars, Move
<1>3. CASE LossObserver
  <2>1. UNCHANGED sends /\ moved' = moved
    BY <1>3, <1>b DEF LossObserver, saVars, Miss
  <2>2. status[t] = NoRecord \/ status'[t] = status[t]
    BY <1>3, <1>b, ObserverEffect DEF LossObserver, Observer, ObserverFault
  <2> QED BY <1>a, <2>1, <2>2
<1>4. CASE Finalizer /\ Miss({u \in Tx : Surrounded(u)})
  <2>1. UNCHANGED sends /\ moved' = moved
    BY <1>4, <1>b, FinalizerEffect DEF saVars, Miss
  <2>2. status[t] = "pending" \/ status'[t] = status[t]
    BY <1>4, <1>b, FinalizerEffect DEF SetStatus
  <2> QED BY <1>a, <2>1, <2>2
<1>5. CASE Sa /\ Miss({})
  <2>1. moved' = moved
    BY <1>5 DEF Miss
  <2>2. /\ status'[t] # NoRecord <=> status[t] # NoRecord
        /\ status'[t] = "reorg" /\ status[t] # "reorg" => t \in moved
        /\ status'[t] = "pending" => status[t] = "pending"
    BY <1>5, <1>b, <2>1, SaKeepsSigned
  <2>3. CASE sends[t] > 0
    BY <1>a, <2>1, <2>2, <2>3
  <2>4. CASE ~(sends[t] > 0)
    <3>1. Post /\ UNCHANGED status
      BY <1>5, <2>4 DEF Sa, SaWork, SaFault, SaFind, SaSign, SaRefused, SaDeliver,
         SaDeliverUnacked, SaRecord, SaClean, SaAbort, store
    <3>2. \E p \in saSigned : p[1] = t
      BY <1>b, <2>4, <3>1, PostEffect DEF TypeOK
    <3> QED BY <3>1, <3>2 DEF LifeInv, NoRecord
  <2> QED BY <2>3, <2>4
<1> QED BY <1>1, <1>2, <1>3, <1>4, <1>5 DEF LossNext

LEMMA CreditedInvariance == LossSpec => []CreditedInv
<1>1. LossInit => CreditedInv
  BY DEF LossInit, Init, SaInit, CreditedInv
<1> QED BY <1>1, CreditedStep, LossInvariance, PTL DEF LossSpec

\* What Zex was told of is called reorganised away only after both a
\* reorganisation that moved it and a fault of the SA: a post that went
\* unanswered, or was answered and not written back (send_deposits).
THEOREM DiscardedCreditsAreExplained == LossSpec => []DiscardedCreditIsExplained
<1>1. LifeInv /\ CreditedInv /\ PostedInv => DiscardedCreditIsExplained
  <2> SUFFICES ASSUME LifeInv, CreditedInv, PostedInv,
                      NEW t \in Tx, sends[t] > 0, status[t] = "reorg"
               PROVE  t \in moved /\ faults["sa"] > 0
    BY DEF DiscardedCreditIsExplained, Credited
  <2>1. t \in moved
    BY DEF CreditedInv
  <2>2. AwaitsRecord(t) \/ faults["sa"] > 0
    BY DEF PostedInv
  <2>3. ~AwaitsRecord(t)
    BY DEF AwaitsRecord, LifeInv
  <2> QED BY <2>1, <2>2, <2>3
<1> QED BY <1>1, LossInvariance, CreditedInvariance, PostedInvariance, PTL
=============================================================================
