--------------------------- MODULE WithdrawProofs ---------------------------
(***************************************************************************)
(* Proofs about WithdrawPipeline, for every number of requests, faults and *)
(* other transactions.  TypeOK /\ WithdrawInv is inductive; the safety     *)
(* properties and the refinement of WithdrawLifecycle follow from it.      *)
(***************************************************************************)
EXTENDS WithdrawPipeline, FiniteSetTheorems, TLAPS

IInv == TypeOK /\ WithdrawInv

LEMMA NonceFacts == Nonce \subseteq Nat /\ NoNonce \notin Nonce /\ NoNonce \in Int
  BY PipelineAssumption DEF Nonce, NoNonce

\* Initially there is nothing to disagree about.
LEMMA InitInv == Init => IInv
  BY NonceFacts, PipelineAssumption
  DEF Init, IInv, TypeOK, WithdrawInv, ObserverInv, QueueInv, VaultInv,
      WithdrawStatus, Nonce, NoNonce

LEMMA StutterInv == IInv /\ UNCHANGED vars => IInv'
  BY DEF IInv, TypeOK, WithdrawInv, ObserverInv, QueueInv, VaultInv,
         vars, zexVars, chainVars, observerVars, saVars

LEMMA EnvironmentInv ==
    ASSUME IInv, ZexRequest \/ MineTx \/ OtherTx
    PROVE  IInv'
<1> USE NonceFacts, PipelineAssumption
    DEF IInv, TypeOK, WithdrawInv, ObserverInv, QueueInv, VaultInv,
        zexVars, chainVars, observerVars, saVars, Told, Fault, WithdrawStatus
<1>1. CASE ZexRequest
  BY <1>1 DEF ZexRequest, Nonce, NoNonce
<1>2. CASE MineTx
  <2>1. ~(mempool = NoNonce) /\ mempool' = NoNonce
    BY <1>2 DEF MineTx
  <2>2. CASE mempool \notin paid /\ paid' = paid \cup {mempool} /\ Told("ok")
    BY <1>2, <2>1, <2>2 DEF MineTx
  <2>3. CASE paid' = paid /\ Told("failed")
    BY <1>2, <2>1, <2>3 DEF MineTx
  <2> QED BY <1>2, <2>2, <2>3 DEF MineTx
<1>3. CASE OtherTx
  BY <1>3 DEF OtherTx
<1> QED BY <1>1, <1>2, <1>3

\* A fetch takes an interval of requests that follows the saved nonce.
LEMMA FetchIsAnInterval ==
    ASSUME TypeOK, WithdrawFetch
    PROVE  \E last \in (lastNonce + 1)..(zexCount - 1) :
               woTodo' = (lastNonce + 1)..last /\ woTo' = last
<1>1. PICK W \in AnswersFrom(lastNonce + 1) :
        woTodo' = W /\ woTo' = lastNonce + Cardinality(W)
  BY DEF WithdrawFetch
<1>2. PICK last \in (lastNonce + 1)..(zexCount - 1) : W = (lastNonce + 1)..last
  BY DEF AnswersFrom, LastRequest
<1>3. lastNonce \in Int /\ zexCount \in Int
  BY NonceFacts, PipelineAssumption DEF TypeOK
<1>4. lastNonce + 1 \in Int /\ last \in Int /\ lastNonce + 1 <= last
  BY <1>3
<1>5. Cardinality(W) = last - (lastNonce + 1) + 1
  BY <1>2, <1>4, FS_Interval
<1> QED BY <1>1, <1>2, <1>3, <1>4, <1>5

LEMMA ObserverStepInv ==
    ASSUME IInv, ObserverWork \/ WithdrawObserverFails
    PROVE  IInv'
<1> USE NonceFacts, PipelineAssumption
    DEF IInv, TypeOK, WithdrawInv, ObserverInv, QueueInv, VaultInv,
        zexVars, chainVars, observerVars, saVars, Fault, WithdrawStatus
<1>1. CASE WithdrawFetch
  <2>1. PICK last \in (lastNonce + 1)..(zexCount - 1) :
          woTodo' = (lastNonce + 1)..last /\ woTo' = last
    BY <1>1, FetchIsAnInterval
  <2> QED BY <1>1, <2>1 DEF WithdrawFetch, Nonce, NoNonce
<1>2. ASSUME NEW n \in woTodo, WithdrawInsert(n) PROVE IInv'
  BY <1>2 DEF WithdrawInsert
<1>3. CASE WithdrawSave
  BY <1>3 DEF WithdrawSave, Nonce, NoNonce
<1>4. CASE WithdrawObserverFails
  BY <1>4 DEF WithdrawObserverFails, Nonce, NoNonce
<1> QED BY <1>1, <1>2, <1>3, <1>4 DEF ObserverWork

LEMMA SaStepInv ==
    ASSUME IInv, (SaWork \/ SaTrouble) /\ UNCHANGED <<zexVars, observerVars>>
    PROVE  IInv'
<1> USE NonceFacts, PipelineAssumption
    DEF IInv, TypeOK, WithdrawInv, ObserverInv, QueueInv, VaultInv,
        zexVars, chainVars, observerVars, saVars, Fault, WithdrawStatus
<1>1. CASE WithdrawFind /\ UNCHANGED <<chainVars, faults, wstatus>>
  BY <1>1 DEF WithdrawFind
<1>2. CASE WithdrawSign /\ UNCHANGED <<chainVars, faults, wstatus>>
  BY <1>2 DEF WithdrawSign
<1>3. CASE WithdrawPassEnds /\ UNCHANGED <<chainVars, faults, wstatus>>
  BY <1>3 DEF WithdrawPassEnds
<1>4. CASE WithdrawSend /\ UNCHANGED <<paid, others, faults, wstatus>>
  BY <1>4 DEF WithdrawSend, Signed
<1>5. CASE WithdrawSucceeds /\ UNCHANGED <<chainVars, faults>>
  BY <1>5 DEF WithdrawSucceeds, Outcome
<1>6. CASE WithdrawReverts /\ UNCHANGED <<chainVars, faults>>
  BY <1>6 DEF WithdrawReverts, Outcome
<1>7. CASE WithdrawTimeout /\ UNCHANGED <<chainVars, wstatus>>
  BY <1>7 DEF WithdrawTimeout, Skips, LoseTrack
<1>8. CASE WithdrawRefused /\ UNCHANGED <<paid, mempool, faults, wstatus>>
  BY <1>8 DEF WithdrawRefused, Signed, Dies, LoseTrack
<1>9. CASE WithdrawDiffers /\ UNCHANGED chainVars
  BY <1>9 DEF WithdrawDiffers, Signed, Outcome
<1>10. CASE WithdrawNotSigned /\ UNCHANGED <<chainVars, wstatus>>
  BY <1>10 DEF WithdrawNotSigned, Skips, LoseTrack
<1>11. CASE WithdrawCrash /\ UNCHANGED <<chainVars, wstatus>>
  BY <1>11 DEF WithdrawCrash, Dies, LoseTrack
<1> QED BY <1>1, <1>2, <1>3, <1>4, <1>5, <1>6, <1>7, <1>8, <1>9, <1>10, <1>11
        DEF SaWork, SaTrouble

LEMMA Inductive == IInv /\ [Next]_vars => IInv'
  BY StutterInv, EnvironmentInv, ObserverStepInv, SaStepInv DEF Next

\* Observer, SA and vault agree between any two awaits, and every variable
\* keeps its type.
THEOREM WithdrawInvariant == Spec => [](TypeOK /\ WithdrawInv)
<1>1. Spec => []IInv
  BY InitInv, Inductive, PTL DEF Spec
<1> QED BY <1>1 DEF IInv

\* Every request up to the nonce the observer saved has its record.
THEOREM NothingSkipped == Spec => []NoWithdrawLost
<1>1. IInv => NoWithdrawLost
  BY NonceFacts
  DEF IInv, WithdrawInv, ObserverInv, TypeOK, NoWithdrawLost, Nonce, NoNonce
<1> QED BY <1>1, WithdrawInvariant, PTL DEF IInv

\* A paid request is called rejected only after the SA gave up on a
\* transaction of it.
THEOREM RejectionIsExplained == Spec => []RejectedPaidWasLost
<1>1. IInv => RejectedPaidWasLost
  BY NonceFacts
  DEF IInv, WithdrawInv, VaultInv, QueueInv, TypeOK, RejectedPaidWasLost
<1> QED BY <1>1, WithdrawInvariant, PTL DEF IInv

-----------------------------------------------------------------------------
(* The refinement: each step of the processes is at most one step of the   *)
(* life of a record.                                                       *)

LEMMA LifecycleNonce == Lifecycle!Nonce = Nonce
  BY DEF Nonce, Lifecycle!Nonce

LEMMA RefineInit == Init => Lifecycle!WithdrawLifecycleInit
  BY LifecycleNonce DEF Init, Lifecycle!WithdrawLifecycleInit, Requested

\* Steps the records and the vault do not take part in.
LEMMA RefineSilent ==
    ASSUME UNCHANGED <<zexCount, wstatus, paid>>
    PROVE  UNCHANGED Lifecycle!withdrawLifecycleVars
  BY DEF Lifecycle!withdrawLifecycleVars, Requested

LEMMA RefineOutcome ==
    ASSUME IInv, NEW s \in {"successful", "rejected"}, wsCur # NoNonce,
           s = "successful" => wsCur \in paid,
           Outcome(s), UNCHANGED <<zexCount, paid>>
    PROVE  Lifecycle!WithdrawLifecycleNext
<1>1. wsCur \in Nonce /\ wstatus[wsCur] = "pending"
  BY DEF IInv, TypeOK, WithdrawInv, QueueInv
<1>2. Lifecycle!End(wsCur)
  BY <1>1 DEF Lifecycle!End, Outcome, Requested
<1> QED BY <1>1, <1>2, LifecycleNonce DEF Lifecycle!WithdrawLifecycleNext

LEMMA RefineStep ==
    IInv /\ [Next]_vars
      => [Lifecycle!WithdrawLifecycleNext]_(Lifecycle!withdrawLifecycleVars)
<1> SUFFICES ASSUME IInv, [Next]_vars
             PROVE  \/ Lifecycle!WithdrawLifecycleNext
                    \/ UNCHANGED Lifecycle!withdrawLifecycleVars
  OBVIOUS
<1> USE DEF zexVars, chainVars, observerVars, saVars
<1>1. CASE ZexRequest
  <2>1. zexCount \in Nonce /\ zexCount \notin Requested
    BY <1>1, PipelineAssumption
    DEF ZexRequest, Nonce, Requested, IInv, TypeOK
  <2>2. Requested' = Requested \cup {zexCount}
    BY <1>1 DEF ZexRequest, Requested, IInv, TypeOK
  <2>3. Lifecycle!Request(zexCount)
    BY <1>1, <2>1, <2>2 DEF ZexRequest, Lifecycle!Request
  <2> QED BY <2>1, <2>3, LifecycleNonce DEF Lifecycle!WithdrawLifecycleNext
<1>2. CASE MineTx
  <2>1. CASE paid' = paid
    BY <1>2, <2>1, RefineSilent DEF MineTx
  <2>2. CASE mempool \notin paid /\ paid' = paid \cup {mempool}
    <3>1. mempool \in Nonce /\ mempool \in Requested
      BY <1>2, NonceFacts
      DEF MineTx, Requested, IInv, TypeOK, WithdrawInv, VaultInv
    <3>2. Lifecycle!Pay(mempool)
      BY <1>2, <2>2, <3>1 DEF MineTx, Lifecycle!Pay, Requested
    <3> QED BY <3>1, <3>2, LifecycleNonce DEF Lifecycle!WithdrawLifecycleNext
  <2> QED BY <1>2, <2>1, <2>2 DEF MineTx
<1>3. CASE OtherTx
  BY <1>3, RefineSilent DEF OtherTx
<1>4. ASSUME NEW n \in woTodo, WithdrawInsert(n)
      PROVE  \/ Lifecycle!WithdrawLifecycleNext
             \/ UNCHANGED Lifecycle!withdrawLifecycleVars
  <2>1. n \in Nonce /\ n \in Requested
    BY NonceFacts DEF Requested, IInv, TypeOK, WithdrawInv, ObserverInv
  <2>2. CASE wstatus[n] = "none"
    <3>1. Lifecycle!RecordRequest(n)
      BY <1>4, <2>1, <2>2 DEF WithdrawInsert, Lifecycle!RecordRequest, Requested
    <3> QED BY <2>1, <3>1, LifecycleNonce DEF Lifecycle!WithdrawLifecycleNext
  <2>3. CASE wstatus[n] # "none"
    BY <1>4, <2>3, RefineSilent DEF WithdrawInsert
  <2> QED BY <2>2, <2>3
<1>5. CASE WithdrawFetch \/ WithdrawSave \/ WithdrawObserverFails
  BY <1>5, RefineSilent DEF WithdrawFetch, WithdrawSave, WithdrawObserverFails
<1>6. CASE (SaWork \/ SaTrouble) /\ UNCHANGED <<zexVars, observerVars>>
  <2>1. CASE UNCHANGED <<paid, wstatus>>
    BY <1>6, <2>1, RefineSilent
  <2>2. CASE WithdrawSucceeds /\ UNCHANGED chainVars
    <3>1. wsCur # NoNonce /\ wsCur \in paid
      BY <2>2, NonceFacts
      DEF WithdrawSucceeds, IInv, TypeOK, WithdrawInv, VaultInv
    <3> QED BY <1>6, <2>2, <3>1, RefineOutcome DEF WithdrawSucceeds
  <2>3. CASE (WithdrawReverts \/ WithdrawDiffers) /\ UNCHANGED chainVars
    <3>1. wsCur # NoNonce
      BY <2>3 DEF WithdrawReverts, WithdrawDiffers, Signed, IInv, TypeOK
    <3> QED BY <1>6, <2>3, <3>1, RefineOutcome
            DEF WithdrawReverts, WithdrawDiffers
  <2> QED BY <1>6, <2>1, <2>2, <2>3 DEF SaWork, SaTrouble
<1>7. CASE UNCHANGED vars
  BY <1>7, RefineSilent DEF vars
<1> QED BY <1>1, <1>2, <1>3, <1>4, <1>5, <1>6, <1>7 DEF Next, ObserverWork

\* The records live the life WithdrawLifecycle promises: recorded once, ended
\* once, successful only if the vault paid.
THEOREM LifecycleImplemented == Spec => Refinement
<1>1. Spec => []IInv
  BY InitInv, Inductive, PTL DEF Spec
<1> QED BY <1>1, RefineInit, RefineStep, PTL
        DEF Spec, Refinement, Lifecycle!WithdrawLifecycleSpec
=============================================================================
