-------------------------------- MODULE Bots --------------------------------
(***************************************************************************)
(* The two bots beside each other: the user the monitoring bot deposits to *)
(* is a user of Zex like others, and the test token bot sends it the same  *)
(* token, in another amount, when its turn comes.                          *)
(***************************************************************************)
EXTENDS TestTokenBot, MonitoringBot

CONSTANTS
    TestUser,  \* MONITORING_BOT_ZEX_USER_ID
    Gift       \* amount of the test token bot, in the monitoring bot's units

ASSUME BotsAssumption == TestUser \in Nat /\ Gift \in Nat \ {0, 1}

VARIABLE gifts  \* transfers of the test token bot credited to the test user

vars == <<tokenBotVars, monitorVars, gifts>>

TypeOK == TokenBotTypeOK /\ MonitorTypeOK /\ gifts \in Nat

Init == TokenBotInit /\ MonitorInit /\ gifts = 0

Free == FreeOfBot + Gift * gifts

CreditGift ==
    /\ gifts < Cardinality(Transfers(TestUser))
    /\ gifts' = gifts + 1
    /\ UNCHANGED <<tokenBotVars, monitorVars>>

TokenBot == TokenBotNext /\ UNCHANGED <<monitorVars, gifts>>

Monitor ==
    /\ MonitorWork(Free) \/ MonitorFault \/ World
    /\ UNCHANGED <<tokenBotVars, gifts>>

Next == CreditGift \/ TokenBot \/ Monitor

Spec == Init /\ [][Next]_vars

\* The loops go on; nothing restarts the processes (no restart policy), and
\* nothing is assumed of the chains, Zexporta and Zex.
FairSpec ==
    /\ Spec
    /\ WF_vars(BotWork /\ UNCHANGED <<monitorVars, gifts>>)
    /\ WF_vars(MonitorWork(Free) /\ UNCHANGED <<tokenBotVars, gifts>>)

-----------------------------------------------------------------------------
\* Nothing but the present probe can have moved the balances.
Undisturbed == ~alarmed /\ gifts = 0

Becomes(c, old, new) == step[c] = old /\ step'[c] = new

SuccessIsTrue(c) ==
    /\ Becomes(c, "credit", "tokens") => deposit[This(c)] = "credited"
    /\ Becomes(c, "payout", "tell") => withdraw[This(c)] = "paid"

AlarmIsTrue(c) ==
    /\ Becomes(c, "receipt", "alarm") => deposit[This(c)] \in {"pool", "failed"}
    /\ Becomes(c, "credit", "alarm") => deposit[This(c)] # "credited"
    /\ Becomes(c, "payout", "alarm") => withdraw[This(c)] # "paid"

\* What the bot reports is so: after a success the deposit is credited, the
\* request paid; at an alarm without a failing call they were not, in time.
\* Excepted is an earlier alarm, which may have left something under way, and
\* the test token bot's transfer in between (the equalities of monitor_deposit
\* and monitor_withdraw, one chain after the other over one asset).
VerdictIsTrue ==
    [][\A c \in Chain : Undisturbed =>
         SuccessIsTrue(c) /\ (failures' = failures => AlarmIsTrue(c))]_vars

Ended(p) ==
    \/ p[2] < round
    \/ p[2] = round /\ step[p[1]] = "done"

\* Every probe of every round ends and is reported, unless the message of a
\* handler failed: then the bot goes on running and probes nothing (the
\* task of schedule_task, which nobody awaits).
EveryProbeEnds == <>(loop = "silent" \/ \A p \in Probe : Ended(p))
=============================================================================
