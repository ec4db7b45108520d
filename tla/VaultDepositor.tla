--------------------------- MODULE VaultDepositor ---------------------------
(***************************************************************************)
(* deposit/vault_depositor.py: collect VERIFIED deposits from the users'   *)
(* addresses into the vault.  A deposit whose address has no contract gets *)
(* a deploy transaction in this pass and its transfer in a later one.      *)
(*                                                                         *)
(* The account's transactions take consecutive nonces from the pending     *)
(* count read at the start of the pass and are sent concurrently; the node *)
(* takes one transaction per nonce and mines them in order.  When a send   *)
(* fails, gather raises and the other sends go on in the background, while *)
(* the loop starts a new pass: those are the strays.                       *)
(***************************************************************************)
EXTENDS Integers, Sequences, FiniteSetsExt

CONSTANTS
    Deposits,   \* number of deposits: 1..Deposits, in block order
    Address,    \* the users' addresses
    To,         \* address of each deposit
    Value,      \* value of each deposit, all of one token
    BatchSize,  \* WITHDRAW_BATCH_SIZE
    FaultKinds, \* what may go wrong: "call", "receipt", "transfer", "crash"
    MaxFaults,  \* bound: how many of those
    MaxTxs      \* bound: no pass starts with so many transactions sent

Deposit == 1..Deposits

ASSUME VaultAssumption ==
    /\ Deposits \in Nat /\ BatchSize \in Nat \ {0} /\ MaxFaults \in Nat
    /\ MaxTxs \in Nat
    /\ To \in [Deposit -> Address] /\ Value \in [Deposit -> Nat \ {0}]

VARIABLES
    status,    \* status of each record; "none" before the SA verified it
    deployed,  \* addresses with a contract
    held,      \* what each address holds
    pool,      \* the account's transactions waiting in the node
    mined,     \* its mined ones, in order of nonce, with their results
    faults,    \* faults met so far
    vdPc,      \* "idle", "send" or "record"
    vdBatch,   \* deposits of the pass
    vdTodo,    \* those whose code is not looked at yet
    vdNonce,   \* nonce of the next transaction
    vdSends,   \* transactions made and not accepted yet
    vdWaits,   \* transactions accepted whose receipt is waited for
    vdDone,    \* deposits to be recorded as successful
    strays     \* sends of earlier passes still under way

chainVars == <<deployed, held, pool, mined>>
passVars == <<vdPc, vdBatch, vdTodo, vdNonce, vdSends, vdWaits, vdDone>>
vars == <<status, chainVars, faults, passVars, strays>>

TxType == {"contract_deploy", "token_transfer"}
Transaction == [nonce : Nat, type : TxType, of : Deposit]
Result == {"ok", "empty", "failed"}

\* Types, and the shape of the pass between its parts.
TypeOK ==
    /\ status \in [Deposit -> {"none", "verified", "successful"}]
    /\ deployed \in SUBSET Address /\ held \in [Address -> Nat]
    /\ pool \in SUBSET Transaction
    /\ mined \in Seq([tx : Transaction, result : Result])
    /\ faults \in Nat
    /\ vdPc \in {"idle", "send", "record"}
    /\ vdBatch \in SUBSET Deposit /\ vdTodo \in SUBSET vdBatch
    /\ vdNonce \in Nat
    /\ vdSends \in SUBSET Transaction /\ vdWaits \in SUBSET Transaction
    /\ vdDone \in SUBSET vdBatch /\ strays \in SUBSET Transaction
    /\ vdPc = "idle" => vdTodo = {} /\ vdSends = {} /\ vdWaits = {}
    /\ vdPc # "record" => vdDone = {}

\* What the deposits to address a have put there.
Funded(a) ==
    MapThenSumSet(LAMBDA d : Value[d], {d \in Deposit : To[d] = a})

Init ==
    /\ status = [d \in Deposit |-> "none"]
    /\ deployed = {}
    /\ held = [a \in Address |-> Funded(a)]
    /\ pool = {} /\ mined = <<>> /\ faults = 0
    /\ vdPc = "idle" /\ vdBatch = {} /\ vdTodo = {} /\ vdNonce = 0
    /\ vdSends = {} /\ vdWaits = {} /\ vdDone = {} /\ strays = {}

Fault(kind) ==
    /\ kind \in FaultKinds
    /\ faults < MaxFaults /\ faults' = faults + 1

-----------------------------------------------------------------------------
(* The SA and the chain. *)

\* The SA records a deposit as VERIFIED; its money is at the address.
Verify(d) ==
    /\ status[d] = "none"
    /\ status' = [status EXCEPT ![d] = "verified"]
    /\ UNCHANGED <<chainVars, faults, passVars, strays>>

Mined(x, r) == mined' = Append(mined, [tx |-> x, result |-> r])

\* deploy(salt): create2 fails when the contract is there already.
ExecuteDeploy(x) ==
    /\ deployed' = deployed \cup {To[x.of]}
    /\ Mined(x, IF To[x.of] \in deployed THEN "empty" ELSE "ok")
    /\ UNCHANGED <<held, faults>>

\* transferERC20(token, value) to the vault: it fails when the address holds
\* less, and may fail otherwise (its gas is fixed, the token may refuse).
ExecuteTransfer(x) ==
    /\ \/ /\ held[To[x.of]] >= Value[x.of]
          /\ held' = [held EXCEPT ![To[x.of]] = @ - Value[x.of]]
          /\ Mined(x, "ok")
          /\ UNCHANGED faults
       \/ /\ held[To[x.of]] < Value[x.of]
          /\ Mined(x, "empty")
          /\ UNCHANGED <<held, faults>>
       \/ /\ Fault("transfer")
          /\ Mined(x, "failed")
          /\ UNCHANGED held
    /\ UNCHANGED deployed

MineTx ==
    /\ \E x \in pool :
         /\ x.nonce = Len(mined)
         /\ pool' = pool \ {x}
         /\ IF x.type = "contract_deploy" THEN ExecuteDeploy(x)
            ELSE ExecuteTransfer(x)
    /\ UNCHANGED <<status, passVars, strays>>

\* The node takes one transaction per nonce (already known, replacement
\* underpriced, nonce too low).
Accepted(x) == x.nonce >= Len(mined) /\ \A y \in pool : y.nonce # x.nonce

\* get_transaction_count(account, "pending")
PendingCount ==
    CHOOSE n \in Len(mined)..(Len(mined) + Cardinality(pool)) :
        /\ \A x \in pool : x.nonce # n
        /\ \A k \in Len(mined)..(n - 1) : \E x \in pool : x.nonce = k

-----------------------------------------------------------------------------
(* One pass of the loop. *)

Verified == {d \in Deposit : status[d] = "verified"}

\* The first BatchSize deposits of S by block number.
FirstDeposits(S) ==
    {d \in S : Cardinality({e \in S : e < d}) < BatchSize}

\* The nonce is read and the batch found.
VaultStart ==
    /\ vdPc = "idle"
    /\ Verified # {}
    /\ Len(mined) + Cardinality(pool) < MaxTxs
    /\ vdBatch' = FirstDeposits(Verified) /\ vdTodo' = vdBatch'
    /\ vdNonce' = PendingCount
    /\ vdPc' = "send"
    /\ UNCHANGED <<status, chainVars, faults, vdSends, vdWaits, vdDone, strays>>

\* get_code of the next deposit's address decides the kind of transaction.
VaultCheck(d) ==
    /\ d \in vdTodo /\ \A e \in vdTodo : d <= e
    /\ vdTodo' = vdTodo \ {d}
    /\ vdSends' = vdSends \cup
         {[nonce |-> vdNonce, of |-> d,
           type |-> IF To[d] \in deployed THEN "token_transfer"
                    ELSE "contract_deploy"]}
    /\ vdNonce' = vdNonce + 1
    /\ UNCHANGED <<status, chainVars, faults, vdPc, vdBatch, vdWaits, vdDone>>
    /\ UNCHANGED strays

\* A deploy runs as a task at once; a transfer is a coroutine that starts
\* with the gather, after the last check.
Started(x) == x.type = "contract_deploy" \/ vdTodo = {}

VaultSend(x) ==
    /\ x \in vdSends /\ Started(x) /\ Accepted(x)
    /\ pool' = pool \cup {x}
    /\ vdSends' = vdSends \ {x} /\ vdWaits' = vdWaits \cup {x}
    /\ UNCHANGED <<status, deployed, held, mined, faults>>
    /\ UNCHANGED <<vdPc, vdBatch, vdTodo, vdNonce, vdDone, strays>>

\* The pass is over: its exception is logged and the loop goes on.
GiveUp(left) ==
    /\ vdPc' = "idle"
    /\ vdTodo' = {} /\ vdSends' = {} /\ vdWaits' = {} /\ vdDone' = {}
    /\ strays' = strays \cup left
    /\ UNCHANGED <<vdBatch, vdNonce>>

\* A send raises, because the node refuses it or the call fails (perhaps
\* after the node took the transaction).  The gather sees it once it runs.
VaultSendFails(x) ==
    /\ x \in vdSends /\ vdTodo = {}
    /\ \/ ~Accepted(x) /\ UNCHANGED <<faults, pool>>
       \/ Fault("call") /\ UNCHANGED pool
       \/ Accepted(x) /\ Fault("call") /\ pool' = pool \cup {x}
    /\ GiveUp(vdSends \ {x})
    /\ UNCHANGED <<status, deployed, held, mined>>

\* get_code raises: the deploys made go on, the transfers never start.
VaultCheckFails ==
    /\ vdTodo # {} /\ Fault("call")
    /\ GiveUp({x \in vdSends : Started(x)})
    /\ UNCHANGED <<status, chainVars>>

\* A send left over from an earlier pass; nobody reads its result.
StraySend(x) ==
    /\ x \in strays
    /\ strays' = strays \ {x}
    /\ pool' = IF Accepted(x) THEN pool \cup {x} ELSE pool
    /\ UNCHANGED <<status, deployed, held, mined, faults, passVars>>

\* wait_for_transaction_receipt gives up on one transaction, the exception
\* is one of the results.
VaultTimeout(x) ==
    /\ vdPc = "send" /\ vdTodo = {} /\ vdSends = {}
    /\ x \in vdWaits /\ \A i \in 1..Len(mined) : mined[i].tx # x
    /\ Fault("receipt")
    /\ vdWaits' = vdWaits \ {x}
    /\ UNCHANGED <<status, chainVars, strays>>
    /\ UNCHANGED <<vdPc, vdBatch, vdTodo, vdNonce, vdSends, vdDone>>

AllReceived ==
    /\ vdPc = "send" /\ vdTodo = {} /\ vdSends = {}
    /\ \A x \in vdWaits : \E i \in 1..Len(mined) : mined[i].tx = x

\* The transfers of which a receipt came, whatever it says.
Transferred ==
    {x.of : x \in {y \in vdWaits : y.type = "token_transfer"}}

\* Mutant: deploys and exceptions are not skipped.
VaultReceivedAny ==
    /\ AllReceived
    /\ vdDone' = vdBatch
    /\ vdPc' = "record" /\ vdWaits' = {}
    /\ UNCHANGED <<status, chainVars, faults, strays>>
    /\ UNCHANGED <<vdBatch, vdTodo, vdNonce, vdSends>>

VaultReceived ==
    /\ AllReceived
    /\ vdDone' = Transferred
    /\ vdPc' = "record" /\ vdWaits' = {}
    /\ UNCHANGED <<status, chainVars, faults, strays>>
    /\ UNCHANGED <<vdBatch, vdTodo, vdNonce, vdSends>>

\* upsert_deposits: the others of the batch are written back as they were.
VaultRecord(d) ==
    /\ d \in vdDone
    /\ status' = [status EXCEPT ![d] = "successful"]
    /\ vdDone' = vdDone \ {d}
    /\ UNCHANGED <<chainVars, faults, strays>>
    /\ UNCHANGED <<vdPc, vdBatch, vdTodo, vdNonce, vdSends, vdWaits>>

\* Mutant: upsert_deposits is not awaited.
VaultEndUnawaited ==
    /\ vdPc = "record"
    /\ vdPc' = "idle"
    /\ UNCHANGED <<status, chainVars, faults, strays>>
    /\ UNCHANGED <<vdBatch, vdTodo, vdNonce, vdSends, vdWaits, vdDone>>

VaultEnd ==
    /\ vdPc = "record" /\ vdDone = {}
    /\ vdPc' = "idle"
    /\ UNCHANGED <<status, chainVars, faults, strays>>
    /\ UNCHANGED <<vdBatch, vdTodo, vdNonce, vdSends, vdWaits, vdDone>>

\* An upsert raises: the loop goes on, what is not written stays VERIFIED.
VaultRecordFails ==
    /\ vdPc = "record" /\ vdDone # {} /\ Fault("call")
    /\ GiveUp({})
    /\ UNCHANGED <<status, chainVars>>

\* The process dies (or its first call raises) and is restarted.
VaultCrash ==
    /\ vdPc # "idle" \/ strays # {}
    /\ Fault("crash")
    /\ vdPc' = "idle"
    /\ vdTodo' = {} /\ vdSends' = {} /\ vdWaits' = {} /\ vdDone' = {}
    /\ strays' = {}
    /\ UNCHANGED <<status, chainVars, vdBatch, vdNonce>>

VaultWork ==
    \/ VaultStart
    \/ \E d \in vdTodo : VaultCheck(d)
    \/ \E x \in vdSends : VaultSend(x) \/ (~Accepted(x) /\ VaultSendFails(x))
    \/ VaultReceived
    \/ \E d \in vdDone : VaultRecord(d)
    \/ VaultEnd

VaultFault ==
    \/ \E x \in vdSends : VaultSendFails(x)
    \/ \E x \in vdWaits : VaultTimeout(x)
    \/ VaultCheckFails \/ VaultRecordFails \/ VaultCrash

Stray == \E x \in strays : StraySend(x)

Next ==
    \/ \E d \in Deposit : Verify(d)
    \/ MineTx \/ VaultWork \/ VaultFault \/ Stray

Spec == Init /\ [][Next]_vars

-----------------------------------------------------------------------------
\* The transfers of deposit d that were mined with result r.
Transfers(d, r) ==
    {i \in 1..Len(mined) : /\ mined[i].tx.type = "token_transfer"
                           /\ mined[i].tx.of = d /\ mined[i].result = r}

SentTwice(a) ==
    \E d \in Deposit : To[d] = a /\
        Cardinality(UNION {Transfers(d, r) : r \in Result}) > 1

\* A deposit is called successful only when a transfer of it, not the deploy
\* of its contract, was mined (the receipts are told apart by tx_type, and by
\* their index in the batch).
SuccessfulWasMined ==
    \A d \in Deposit : status[d] = "successful" =>
        \E r \in Result : Transfers(d, r) # {}

\* A deposit called successful is in the vault, unless its transfer failed of
\* itself or a deposit of the same address was collected twice (a pass that
\* failed, timed out or died is repeated while its transactions are mined).
UncollectedIsExplained ==
    \A d \in Deposit : status[d] = "successful" =>
        \/ Transfers(d, "ok") # {} \/ Transfers(d, "failed") # {}
        \/ SentTwice(To[d])

\* A deposit called successful is in the vault.
SuccessfulIsCollected ==
    \A d \in Deposit : status[d] = "successful" => Transfers(d, "ok") # {}
=============================================================================
