---------------------------- MODULE MonitoringBot ----------------------------
(***************************************************************************)
(* bots/monitoring: once per period, chain after chain, the bot deposits   *)
(* to a test user of Zex, looks whether the user's balance grew by the     *)
(* amount, withdraws the same to its own account and looks whether that    *)
(* account's balance on the chain grew.  It tells a chat what it found.    *)
(*                                                                         *)
(* The user's balance at Zex is one for all chains (all have zUSDT), and   *)
(* the comparison is an equality: whatever else moves the balance between  *)
(* the two reads makes the verdict wrong.                                  *)
(*                                                                         *)
(* step[c] is the await the task of chain c is at; "alarm" is the handler  *)
(* that reports an exception of monitor_deposit or monitor_withdraw.  A    *)
(* message that announces a read is part of that await.  The amount is one *)
(* unit.                                                                   *)
(***************************************************************************)
EXTENDS Integers, FiniteSets

CONSTANTS
    ChainCount,   \* monitored chains, in the order of CHAINS_CONFIG
    MaxProbes,    \* bound: probes, of one chain after the other
    MaxFailures   \* bound: calls that raise

ASSUME MonitorAssumption ==
    ChainCount \in Nat \ {0} /\ MaxProbes \in Nat \ {0} /\ MaxFailures \in Nat

Chain == 1..ChainCount
Probe == {p \in Chain \X (1..MaxProbes) : p[1] + ChainCount * (p[2] - 1) <= MaxProbes}

VARIABLES
    round,
    loop,       \* "round", "idle" (call_later) or "silent" (the task is gone)
    step,       \* await each chain's task is at
    before,     \* balance_before of each chain's task
    deposit,    \* what became of each probe's deposit
    withdraw,   \* and of its withdraw request
    failures,   \* calls that raised
    alarmed     \* history: a probe met an exception

worldVars == <<deposit, withdraw>>
monitorVars == <<round, loop, step, before, worldVars, failures, alarmed>>

Calls ==
    {"balance", "send", "receipt", "credit", "tokens", "request", "payout", "tell"}

MonitorTypeOK ==
    /\ round \in 1..MaxProbes
    /\ loop \in {"round", "idle", "silent"}
    /\ step \in [Chain -> Calls \cup {"wait", "alarm", "done"}]
    /\ before \in [Chain -> Int]
    /\ deposit \in [Probe -> {"none", "pool", "failed", "mined", "credited"}]
    /\ withdraw \in [Probe -> {"none", "queued", "refused", "owed", "paid"}]
    /\ failures \in 0..MaxFailures
    /\ alarmed \in BOOLEAN
    /\ loop = "idle" => \A c \in Chain : step[c] = "done"

MonitorInit ==
    /\ round = 1 /\ loop = "round"
    /\ step = [c \in Chain |-> "wait"]
    /\ before = [c \in Chain |-> 0]
    /\ deposit = [p \in Probe |-> "none"]
    /\ withdraw = [p \in Probe |-> "none"]
    /\ failures = 0 /\ alarmed = FALSE

This(c) == <<c, round>>

-----------------------------------------------------------------------------
(* The chains, Zexporta and Zex, as the bot sees them.                     *)

\* The user's free balance, but for what others give it.
FreeOfBot ==
    Cardinality({p \in Probe : deposit[p] = "credited"})
        - Cardinality({p \in Probe : withdraw[p] \in {"owed", "paid"}})

\* The bot's balance on chain c, from the one it began with.
Tokens(c) ==
    Cardinality({p \in Probe : p[1] = c /\ withdraw[p] = "paid"})
        - Cardinality({p \in Probe :
                         p[1] = c /\ deposit[p] \in {"mined", "credited"}})

DepositBecomes(p, old, new) ==
    /\ deposit[p] = old
    /\ deposit' = [deposit EXCEPT ![p] = new]
    /\ UNCHANGED withdraw

\* One account per chain: its transactions are mined in their order.
MineDeposit(p) ==
    /\ \A q \in Probe : q[1] = p[1] /\ q[2] < p[2] => deposit[q] # "pool"
    /\ DepositBecomes(p, "pool", "mined") \/ DepositBecomes(p, "pool", "failed")

\* Zex takes one request per nonce; those still queued on the chain have the
\* same one (get_user_withdraw_nonce).
TakeRequest(p) ==
    /\ withdraw[p] = "queued"
    /\ withdraw' = [q \in Probe |->
                      IF q = p THEN "owed"
                      ELSE IF q[1] = p[1] /\ withdraw[q] = "queued"
                           THEN "refused" ELSE withdraw[q]]
    /\ UNCHANGED deposit

PayRequest(p) ==
    /\ withdraw[p] = "owed"
    /\ withdraw' = [withdraw EXCEPT ![p] = "paid"]
    /\ UNCHANGED deposit

World ==
    /\ \E p \in Probe :
         \/ MineDeposit(p) \/ DepositBecomes(p, "mined", "credited")
         \/ TakeRequest(p) \/ PayRequest(p)
    /\ UNCHANGED <<round, loop, step, before, failures, alarmed>>

-----------------------------------------------------------------------------
(* The bot.  free is what Zex answers for the user's balance.              *)

Goto(c, label) == step' = [step EXCEPT ![c] = label]

\* The function that read balance_before ends: it returns, or raises.
Enter(c, label) ==
    /\ Goto(c, label)
    /\ before' = [before EXCEPT ![c] = IF label = "credit" THEN @ ELSE 0]
    /\ alarmed' = (alarmed \/ label = "alarm")

\* Mutant: the chains are monitored at once (the gather of schedule_task).
MayStartAll(c) == TRUE

\* Each chain's task is awaited before the next one is created.
MayStart(c) == \A d \in Chain : d < c => step[d] = "done"

StartMonitor(c) ==
    /\ loop = "round" /\ step[c] = "wait"
    /\ MayStart(c) /\ This(c) \in Probe
    /\ Goto(c, "balance")
    /\ UNCHANGED <<round, loop, before, worldVars, failures, alarmed>>

ReadBalance(c, free) ==
    /\ step[c] = "balance"
    /\ before' = [before EXCEPT ![c] = free]
    /\ Goto(c, "send")
    /\ UNCHANGED <<round, loop, worldVars, failures, alarmed>>

SendDeposit(c) ==
    /\ step[c] = "send"
    /\ DepositBecomes(This(c), "none", "pool")
    /\ Goto(c, "receipt")
    /\ UNCHANGED <<round, loop, before, failures, alarmed>>

\* wait_for_transaction_receipt, which raises when it waited too long.
Receipt(c) ==
    /\ step[c] = "receipt"
    /\ Enter(c, IF deposit[This(c)] \in {"mined", "credited"}
                THEN "credit" ELSE "alarm")
    /\ UNCHANGED <<round, loop, worldVars, failures>>

BalanceGrew(c, now) == now = before[c] + 1

\* After the sleep: balance_after == balance_before + amount.
CheckBalance(c, free) ==
    /\ step[c] = "credit"
    /\ Enter(c, IF BalanceGrew(c, free) THEN "tokens" ELSE "alarm")
    /\ UNCHANGED <<round, loop, worldVars, failures>>

ReadTokens(c) ==
    /\ step[c] = "tokens"
    /\ before' = [before EXCEPT ![c] = Tokens(c)]
    /\ Goto(c, "request")
    /\ UNCHANGED <<round, loop, worldVars, failures, alarmed>>

Queue(p) ==
    /\ withdraw[p] = "none"
    /\ withdraw' = [withdraw EXCEPT ![p] = "queued"]
    /\ UNCHANGED deposit

RequestWithdraw(c) ==
    /\ step[c] = "request"
    /\ Queue(This(c))
    /\ Goto(c, "payout")
    /\ UNCHANGED <<round, loop, before, failures, alarmed>>

CheckTokens(c) ==
    /\ step[c] = "payout"
    /\ Enter(c, IF BalanceGrew(c, Tokens(c)) THEN "tell" ELSE "alarm")
    /\ UNCHANGED <<round, loop, worldVars, failures>>

\* The chat is told of the success, or by a handler of the exception.
Tell(c) ==
    /\ step[c] \in {"tell", "alarm"}
    /\ Goto(c, "done")
    /\ UNCHANGED <<round, loop, before, worldVars, failures, alarmed>>

\* A call raises; a deposit or a request may have gone out all the same.
CallFails(c) ==
    /\ failures < MaxFailures /\ failures' = failures + 1
    /\ step[c] \in Calls
    /\ Enter(c, "alarm")
    /\ \/ UNCHANGED worldVars
       \/ step[c] = "send" /\ DepositBecomes(This(c), "none", "pool")
       \/ step[c] = "request" /\ Queue(This(c))
    /\ UNCHANGED <<round, loop>>

\* The handler's own message raises: monitor raises, main ends before
\* call_later, and nobody looks at the task.
TellAlarmFails(c) ==
    /\ failures < MaxFailures /\ failures' = failures + 1
    /\ step[c] = "alarm" /\ Goto(c, "done")
    /\ loop' = "silent"
    /\ UNCHANGED <<round, before, worldVars, alarmed>>

RoundEnds ==
    /\ loop = "round" /\ \A c \in Chain : step[c] = "done"
    /\ loop' = "idle"
    /\ UNCHANGED <<round, step, before, worldVars, failures, alarmed>>

\* Mutant: the round is scheduled again, its tasks are not created.
NextRoundEmpty ==
    /\ loop = "idle" /\ loop' = "round"
    /\ UNCHANGED <<round, step, before, worldVars, failures, alarmed>>

NextRound ==
    /\ loop = "idle" /\ <<1, round + 1>> \in Probe
    /\ round' = round + 1 /\ loop' = "round"
    /\ step' = [c \in Chain |-> "wait"]
    /\ UNCHANGED <<before, worldVars, failures, alarmed>>

MonitorWork(free) ==
    \/ \E c \in Chain :
         \/ StartMonitor(c)
         \/ ReadBalance(c, free) \/ SendDeposit(c) \/ Receipt(c)
         \/ CheckBalance(c, free)
         \/ ReadTokens(c) \/ RequestWithdraw(c) \/ CheckTokens(c)
         \/ Tell(c)
    \/ RoundEnds \/ NextRound

MonitorFault == \E c \in Chain : CallFails(c) \/ TellAlarmFails(c)
=============================================================================
