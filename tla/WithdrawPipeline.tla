-------------------------- MODULE WithdrawPipeline --------------------------
(***************************************************************************)
(* The withdraw side of one EVM chain: withdraw/observer.py copies Zex's   *)
(* requests into the withdraw collection, withdraw/sa.py has each signed   *)
(* and sends it to the vault contract.                                     *)
(*                                                                         *)
(* The SA's account sends one transaction per account nonce, and asks for  *)
(* the nonce without the pending ones (get_transaction_count), so at most  *)
(* one of its transactions waits in the mempool.  The vault pays a request *)
(* once (nonceIsUsed).  Another process may send from the same account.    *)
(***************************************************************************)
EXTENDS Integers, FiniteSets

CONSTANTS
    MaxWithdraws,  \* bound: requests Zex makes
    MaxFaults,     \* bound: crashes, failed calls and timeouts
    MaxOther,      \* bound: transactions of others from the SA's account
    Unsigned       \* nonces of the requests the validators never sign

ASSUME PipelineAssumption ==
    /\ MaxWithdraws \in Nat /\ MaxFaults \in Nat /\ MaxOther \in Nat
    /\ Unsigned \subseteq Nat

Nonce == 0..(MaxWithdraws - 1)
NoNonce == -1

VARIABLES
    zexCount,    \* requests Zex has made: nonces 0..zexCount-1
    paid,        \* nonces the vault has used
    mempool,     \* request of the account's waiting transaction, or NoNonce
    others,      \* transactions others sent from the account
    faults,      \* faults met so far
    wstatus,     \* status of each withdraw record
    lastNonce,   \* chain.last_withdraw_nonce
    woTodo,      \* requests fetched by the observer and not inserted yet
    woTo,        \* nonce it will save, NoNonce between passes
    wsPc,        \* SA: "idle", "next", "send" or "wait"
    wsQueue,     \* its withdraws_requests not taken yet
    wsCur,       \* the request it works on
    wsTx,        \* what became of the transaction it waits for
    lost         \* history: requests with a transaction the SA gave up on

zexVars == zexCount
chainVars == <<paid, mempool, others>>
observerVars == <<lastNonce, woTodo, woTo>>
saVars == <<wsPc, wsQueue, wsCur, wsTx, lost>>
vars == <<zexVars, chainVars, faults, wstatus, observerVars, saVars>>

Requested == 0..(zexCount - 1)
WithdrawStatus == {"pending", "successful", "rejected"}

\* Types, and the shape of the loops' variables between passes.
TypeOK ==
    /\ zexCount \in 0..MaxWithdraws
    /\ paid \in SUBSET Nonce /\ mempool \in Nonce \cup {NoNonce}
    /\ others \in Nat /\ faults \in Nat
    /\ wstatus \in [Nonce -> WithdrawStatus \cup {"none"}]
    /\ lastNonce \in Nonce \cup {NoNonce}
    /\ woTodo \in SUBSET Nonce /\ woTo \in Nonce \cup {NoNonce}
    /\ woTo = NoNonce => woTodo = {}
    /\ wsPc \in {"idle", "next", "send", "wait"}
    /\ wsQueue \in SUBSET Nonce /\ wsCur \in Nonce \cup {NoNonce}
    /\ wsPc \in {"send", "wait"} <=> wsCur # NoNonce
    /\ wsTx \in {"none", "waiting", "ok", "failed", "dropped"}
    /\ wsPc = "wait" <=> wsTx # "none"
    /\ lost \in SUBSET Nonce

Init ==
    /\ zexCount = 0 /\ paid = {} /\ mempool = NoNonce
    /\ others = 0 /\ faults = 0
    /\ wstatus = [n \in Nonce |-> "none"] /\ lastNonce = NoNonce
    /\ woTodo = {} /\ woTo = NoNonce
    /\ wsPc = "idle" /\ wsQueue = {} /\ wsCur = NoNonce /\ wsTx = "none"
    /\ lost = {}

Fault == faults < MaxFaults /\ faults' = faults + 1

-----------------------------------------------------------------------------
(* Zex and the chain. *)

ZexRequest ==
    /\ zexCount < MaxWithdraws
    /\ zexCount' = zexCount + 1
    /\ UNCHANGED <<chainVars, faults, wstatus, observerVars, saVars>>

\* The SA learns what became of its transaction, unless it stopped waiting.
Told(outcome) == wsTx' = IF wsTx = "waiting" THEN outcome ELSE wsTx

\* The waiting transaction is mined.  The vault pays a nonce once
\* (InvalidNonce), and the token transfer itself may fail.
MineTx ==
    /\ mempool # NoNonce
    /\ \/ /\ mempool \notin paid
          /\ paid' = paid \cup {mempool}
          /\ Told("ok")
          /\ UNCHANGED faults
       \/ /\ mempool \in paid
          /\ Told("failed")
          /\ UNCHANGED <<paid, faults>>
       \/ /\ Fault
          /\ Told("failed")
          /\ UNCHANGED paid
    /\ mempool' = NoNonce
    /\ UNCHANGED <<zexVars, others, wstatus, observerVars>>
    /\ UNCHANGED <<wsPc, wsQueue, wsCur, lost>>

\* Another sender uses the account: its transaction may take the nonce of a
\* waiting one, which will then never be mined.
OtherTx ==
    /\ others < MaxOther
    /\ others' = others + 1
    /\ \/ UNCHANGED <<mempool, wsTx>>
       \/ mempool # NoNonce /\ mempool' = NoNonce /\ Told("dropped")
    /\ UNCHANGED <<zexVars, paid, faults, wstatus, observerVars>>
    /\ UNCHANGED <<wsPc, wsQueue, wsCur, lost>>

-----------------------------------------------------------------------------
(* withdraw/observer.py *)

\* get_zex_last_withdraw_nonce: -1 when Zex has none.
LastRequest == zexCount - 1

\* get_zex_withdraws: the requests from an offset on, perhaps not all of
\* them; it raises when there is none.
AnswersFrom(offset) == {offset..last : last \in offset..LastRequest}

\* The last nonces are compared and the requests from the next one on are
\* fetched.
WithdrawFetch ==
    /\ woTo = NoNonce
    /\ \E W \in AnswersFrom(lastNonce + 1) :
         /\ woTodo' = W
         /\ woTo' = lastNonce + Cardinality(W)
    /\ UNCHANGED <<zexVars, chainVars, faults, wstatus, lastNonce, saVars>>

\* insert_withdraw_if_not_exists, one of those gathered.
WithdrawInsert(n) ==
    /\ n \in woTodo
    /\ woTodo' = woTodo \ {n}
    /\ wstatus' = IF wstatus[n] = "none"
                  THEN [wstatus EXCEPT ![n] = "pending"] ELSE wstatus
    /\ UNCHANGED <<zexVars, chainVars, faults, lastNonce, woTo, saVars>>

\* Mutant: the inserts are not awaited before the nonce is saved.
WithdrawSaveUnawaited ==
    /\ woTo # NoNonce
    /\ lastNonce' = woTo /\ woTo' = NoNonce
    /\ UNCHANGED <<zexVars, chainVars, faults, wstatus, woTodo, saVars>>

\* upsert_chain_last_withdraw_nonce(last_withdraw_nonce + len(withdraws))
WithdrawSave ==
    /\ woTo # NoNonce /\ woTodo = {}
    /\ lastNonce' = woTo /\ woTo' = NoNonce
    /\ UNCHANGED <<zexVars, chainVars, faults, wstatus, woTodo, saVars>>

\* ZexAPIError, or the process dies: the next pass reads the nonce again.
WithdrawObserverFails ==
    /\ Fault
    /\ woTo # NoNonce
    /\ woTo' = NoNonce /\ woTodo' = {}
    /\ UNCHANGED <<zexVars, chainVars, wstatus, lastNonce, saVars>>

-----------------------------------------------------------------------------
(* withdraw/sa.py.  The requests are taken in nonce order from the list    *)
(* read at the start of the pass.                                          *)

\* Mutant: the bound on the nonce is strict ($gt).
WithdrawFindAbove ==
    /\ wsPc = "idle"
    /\ wsQueue' = {n \in Nonce : n > 0 /\ wstatus[n] = "pending"}
    /\ wsPc' = IF wsQueue' = {} THEN "idle" ELSE "next"
    /\ UNCHANGED <<wsCur, wsTx, lost>>

\* find_withdraws_by_status(PENDING)
WithdrawFind ==
    /\ wsPc = "idle"
    /\ wsQueue' = {n \in Nonce : wstatus[n] = "pending"}
    /\ wsPc' = IF wsQueue' = {} THEN "idle" ELSE "next"
    /\ UNCHANGED <<wsCur, wsTx, lost>>

\* The validators' get_withdraw_request: Zex has the request.
Validated(n) == \E W \in AnswersFrom(n) : n \in W

\* The next request is taken to the validators.
WithdrawSign ==
    /\ wsPc = "next"
    /\ \E n \in wsQueue :
         /\ \A m \in wsQueue : n <= m
         /\ Validated(n)
         /\ wsQueue' = wsQueue \ {n} /\ wsCur' = n
    /\ wsPc' = "send"
    /\ UNCHANGED <<wsTx, lost>>

WithdrawPassEnds ==
    /\ wsPc = "next" /\ wsQueue = {}
    /\ wsPc' = "idle"
    /\ UNCHANGED <<wsQueue, wsCur, wsTx, lost>>

\* The validators' result is SUCCESSFUL.
Signed == wsPc = "send" /\ wsCur \notin Unsigned

\* send_raw_transaction: it waits in the mempool, in the place of one that
\* was left there if it offers more gas.
WithdrawSend ==
    /\ Signed
    /\ wsPc' = "wait" /\ wsTx' = "waiting"
    /\ mempool' = wsCur
    /\ UNCHANGED <<wsQueue, wsCur, lost>>

\* A transaction of wsCur whose end nobody will record.
LoseTrack == lost' = IF wsTx = "none" THEN lost ELSE lost \cup {wsCur}

\* The loop is left: the process died, or met an exception none of the
\* handlers names.
Dies ==
    /\ wsPc' = "idle" /\ wsQueue' = {} /\ wsCur' = NoNonce /\ wsTx' = "none"
    /\ LoseTrack

\* The handlers' ways out of one request: it stays PENDING.
Skips ==
    /\ wsPc' = "next" /\ wsCur' = NoNonce /\ wsTx' = "none"
    /\ LoseTrack
    /\ UNCHANGED wsQueue

\* The account nonce is taken: the node refuses (underpriced, nonce too low)
\* with a ValueError, which ends the process.
WithdrawRefused ==
    /\ Signed
    /\ \/ mempool # NoNonce /\ UNCHANGED others
       \/ others < MaxOther /\ others' = others + 1
    /\ Dies

\* Validators fail, their result is not SUCCESSFUL, or Zex does not answer:
\* now and then, or each time for this request.
WithdrawNotSigned ==
    /\ wsPc = "send"
    /\ (wsCur \in Unsigned /\ UNCHANGED faults) \/ Fault
    /\ Skips

\* wait_for_transaction_receipt gives up: always if the transaction was
\* replaced, and by TimeExhausted while it still waits.
WithdrawTimeout ==
    /\ \/ wsTx = "dropped" /\ UNCHANGED faults
       \/ wsTx = "waiting" /\ Fault
    /\ Skips

\* Record the outcome and go on with the next request.
Outcome(s) ==
    /\ wstatus' = [wstatus EXCEPT ![wsCur] = s]
    /\ wsPc' = "next" /\ wsCur' = NoNonce /\ wsTx' = "none"
    /\ UNCHANGED <<wsQueue, lost>>

\* Mutant: the status of the receipt is not looked at.
WithdrawSucceedsUnchecked ==
    /\ wsPc = "wait" /\ wsTx \in {"ok", "failed"}
    /\ Outcome("successful")

WithdrawSucceeds ==
    /\ wsPc = "wait" /\ wsTx = "ok"
    /\ Outcome("successful")

\* Mutant: every receipt raises TxError.
WithdrawRevertsUnchecked ==
    /\ wsPc = "wait" /\ wsTx \in {"ok", "failed"}
    /\ Outcome("rejected")

\* TxError
WithdrawReverts ==
    /\ wsPc = "wait" /\ wsTx = "failed"
    /\ Outcome("rejected")

\* WithdrawDifferentHashError: Zex answered the validators something else.
WithdrawDiffers ==
    /\ Signed /\ Fault
    /\ Outcome("rejected")

WithdrawCrash ==
    /\ wsPc # "idle" /\ Fault
    /\ Dies

SaWork ==
    \/ /\ WithdrawFind \/ WithdrawSign \/ WithdrawPassEnds
       /\ UNCHANGED <<chainVars, faults, wstatus>>
    \/ WithdrawSend /\ UNCHANGED <<paid, others, faults, wstatus>>
    \/ (WithdrawSucceeds \/ WithdrawReverts) /\ UNCHANGED <<chainVars, faults>>
    \/ /\ \/ wsTx = "dropped" /\ WithdrawTimeout
          \/ wsCur \in Unsigned /\ WithdrawNotSigned
       /\ UNCHANGED <<chainVars, wstatus>>

SaTrouble ==
    \/ WithdrawRefused /\ UNCHANGED <<paid, mempool, faults, wstatus>>
    \/ WithdrawDiffers /\ UNCHANGED chainVars
    \/ /\ WithdrawNotSigned \/ WithdrawTimeout \/ WithdrawCrash
       /\ UNCHANGED <<chainVars, wstatus>>

ObserverWork ==
    WithdrawFetch \/ (\E n \in woTodo : WithdrawInsert(n)) \/ WithdrawSave

Next ==
    \/ ZexRequest \/ MineTx \/ OtherTx
    \/ ObserverWork \/ WithdrawObserverFails
    \/ (SaWork \/ SaTrouble) /\ UNCHANGED <<zexVars, observerVars>>

Spec == Init /\ [][Next]_vars

\* The account's transactions are mined and both containers keep running
\* (restart: always); a node that refuses a transaction is not fair to it.
FairSpec ==
    /\ Spec
    /\ WF_vars(MineTx) /\ WF_vars(ObserverWork)
    /\ WF_vars(SaWork /\ UNCHANGED <<zexVars, observerVars>>)

-----------------------------------------------------------------------------
\* Whatever dies between the awaits, every request up to the saved nonce has
\* its record: none is skipped (observer's insert before upsert of the nonce).
NoWithdrawLost ==
    \A n \in Nonce : n <= lastNonce => wstatus[n] # "none"

\* A request is called rejected though the vault paid it only if the SA gave
\* up on a transaction of it, by a crash or a timeout (send_withdraw).
RejectedPaidWasLost ==
    \A n \in Nonce : wstatus[n] = "rejected" /\ n \in paid => n \in lost

\* Every request of Zex that the validators sign ends, successful or rejected,
\* and none waits for ever behind one they never sign (the loop over
\* withdraws_requests goes on after each of its handlers).
WithdrawEnds ==
    \A n \in Nonce \ Unsigned :
        n \in Requested ~> wstatus[n] \in {"successful", "rejected"}

(* The inductive invariant behind the safety properties. *)

\* What has a record, or is about to get one, was requested.
ObserverInv ==
    /\ \A n \in Nonce : wstatus[n] # "none" => n < zexCount
    /\ woTo < zexCount /\ \A n \in woTodo : n < zexCount
    /\ \A n \in Nonce : n <= lastNonce => wstatus[n] # "none"
    /\ \A n \in Nonce : n <= woTo => wstatus[n] # "none" \/ n \in woTodo

\* What the SA holds is PENDING.
QueueInv ==
    /\ \A n \in wsQueue : wstatus[n] = "pending" /\ n # wsCur
    /\ wsCur # NoNonce => wstatus[wsCur] = "pending"

\* A transaction in the mempool is the one the SA waits for, or it gave up on
\* it; a paid request is recorded as such, or about to be, or given up on.
VaultInv ==
    /\ mempool # NoNonce => mempool < zexCount
    /\ wsTx = "waiting" => mempool = wsCur
    /\ wsTx = "ok" => wsCur \in paid
    /\ mempool # NoNonce /\ wsTx # "waiting" => mempool \in lost
    /\ \A n \in paid : wstatus[n] = "successful" \/ n \in lost
                        \/ (wsTx = "ok" /\ wsCur = n)
    /\ \A n \in Nonce : wstatus[n] = "successful" => n \in paid

(* The state between any two awaits: observer, SA and vault agree.         *)
WithdrawInv == ObserverInv /\ QueueInv /\ VaultInv

-----------------------------------------------------------------------------
\* The records live the life WithdrawLifecycle promises.
Lifecycle == INSTANCE WithdrawLifecycle WITH requested <- Requested
Refinement == Lifecycle!WithdrawLifecycleSpec
=============================================================================
