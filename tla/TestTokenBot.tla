---------------------------- MODULE TestTokenBot ----------------------------
(***************************************************************************)
(* bots/transfer_test_token: one chain's loop of the bot that sends a test *)
(* token to each new user of Zex and saves the last user it reached.       *)
(*                                                                         *)
(* A round reads the account's pending nonce, the saved user and Zex's     *)
(* last user (BotStart), broadcasts the transfers of at most BatchLimit    *)
(* users concurrently (BotSend), waits for their receipts, whatever they   *)
(* say, and saves (BotSave).  A call that raises ends the process, which   *)
(* nothing but its operator starts again.                                  *)
(***************************************************************************)
EXTENDS Integers, FiniteSetsExt

CONSTANTS
    BatchLimit,    \* users per round (14)
    LastUser,      \* bound: users Zex gets, 1..LastUser
    MaxBotFaults   \* bound: calls that raise, crashes, Zex not answering

ASSUME TokenBotAssumption ==
    BatchLimit \in Nat \ {0} /\ LastUser \in Nat /\ MaxBotFaults \in Nat

User == 1..LastUser

VARIABLES
    zexLast,    \* id of Zex's last user, 0 if there is none
    saved,      \* last_user_id in the database, 0 if there is no record
    sent,       \* <<nonce, user>>: the transfers the node accepted
    botFaults,  \* faults met so far
    botPc,      \* "loop", "send" or "dead"
    base,       \* last_transferred_user_id of the round
    top,        \* last user of the round
    first,      \* nonce of the round's first transfer
    todo        \* users of the round whose transfer is not accepted yet

roundVars == <<base, top, first, todo>>
tokenBotVars == <<zexLast, saved, sent, botFaults, botPc, roundVars>>

TokenBotTypeOK ==
    /\ zexLast \in 0..LastUser /\ saved \in 0..LastUser
    /\ sent \in SUBSET (Nat \X User)
    /\ botFaults \in 0..MaxBotFaults
    /\ botPc \in {"loop", "send", "dead"}
    /\ base \in 0..LastUser /\ top \in 0..LastUser
    /\ first \in Nat
    /\ todo \in SUBSET User

TokenBotInit ==
    /\ zexLast = 0 /\ saved = 0 /\ sent = {} /\ botFaults = 0
    /\ botPc = "loop"
    /\ base = 0 /\ top = 0 /\ first = 0 /\ todo = {}

BotFault == botFaults < MaxBotFaults /\ botFaults' = botFaults + 1

Register ==
    /\ zexLast < LastUser
    /\ zexLast' = zexLast + 1
    /\ UNCHANGED <<saved, sent, botFaults, botPc, roundVars>>

-----------------------------------------------------------------------------
Occupied(n) == \E tx \in sent : tx[1] = n

\* get_transaction_count(account, "pending"): the first nonce nothing has.
PendingCount == Min({n \in 0..Cardinality(sent) : ~Occupied(n)})

\* Mutants: the user to save is taken from Zex also when it does not answer;
\* the end of range is taken for its last element.
RoundEndFromZex(last) == Min({saved + BatchLimit, last})
RoundEndShort(last) ==
    IF last > saved THEN Min({saved + BatchLimit, last - 1}) ELSE saved

\* The last user of range(saved + 1, min(saved + 15, last + 1)), saved if
\* the range is empty (Zex did not answer: last is 0).
RoundEnd(last) ==
    IF last > saved THEN Min({saved + BatchLimit, last}) ELSE saved

BotStart(last) ==
    /\ botPc = "loop" /\ saved # last
    /\ botPc' = "send"
    /\ base' = saved /\ top' = RoundEnd(last)
    /\ first' = PendingCount
    /\ todo' = (saved + 1)..RoundEnd(last)
    /\ UNCHANGED <<zexLast, saved, sent>>

BotStartZex == BotStart(zexLast) /\ UNCHANGED botFaults

BotStartWithoutZex == BotStart(0) /\ BotFault

NonceOf(u) == first + (u - base - 1)

BotSend(u) ==
    /\ botPc = "send" /\ u \in todo /\ ~Occupied(NonceOf(u))
    /\ sent' = sent \cup {<<NonceOf(u), u>>}
    /\ todo' = todo \ {u}
    /\ UNCHANGED <<zexLast, saved, botFaults, botPc, base, top, first>>

EndRound(label) ==
    /\ botPc' = label
    /\ base' = 0 /\ top' = 0 /\ first' = 0 /\ todo' = {}

\* The process ends; the tasks of S still reach the node.
LeaveTasks(S) ==
    /\ EndRound("dead")
    /\ sent' = sent \cup {<<NonceOf(u), u>> : u \in {v \in S : ~Occupied(NonceOf(v))}}
    /\ UNCHANGED <<zexLast, saved>>

\* The node refuses a nonce that an earlier run of the bot used; gather raises.
BotRefused(u) ==
    /\ botPc = "send" /\ u \in todo /\ Occupied(NonceOf(u))
    /\ \E S \in SUBSET todo : LeaveTasks(S)
    /\ UNCHANGED botFaults

\* Any other call raises, or the process dies.
BotCrash ==
    /\ botPc # "dead" /\ BotFault
    /\ \E S \in SUBSET todo : LeaveTasks(S)

\* Mutant: the last user is saved before the transfers are accepted.
BotSaveEarly ==
    /\ botPc = "send"
    /\ saved' = top
    /\ botPc' = IF todo = {} THEN "loop" ELSE "send"
    /\ UNCHANGED <<zexLast, sent, botFaults, roundVars>>

\* check_transactions_receipt, whose result is not used, and
\* upsert_last_transferred_id of len(txs_hash) + last_transferred_user_id.
BotSave ==
    /\ botPc = "send" /\ todo = {}
    /\ saved' = top
    /\ EndRound("loop")
    /\ UNCHANGED <<zexLast, sent, botFaults>>

\* Its operator starts the bot again.
BotRestart ==
    /\ botPc = "dead" /\ botPc' = "loop"
    /\ UNCHANGED <<zexLast, saved, sent, botFaults, roundVars>>

BotWork ==
    \/ BotStartZex
    \/ \E u \in todo : BotSend(u) \/ BotRefused(u)
    \/ BotSave

TokenBotNext ==
    Register \/ BotWork \/ BotStartWithoutZex \/ BotCrash \/ BotRestart

-----------------------------------------------------------------------------
Transfers(u) == {tx \in sent : tx[2] = u}

\* Whatever failed before, no user up to the saved one was left out: a
\* transfer to each was accepted (transfer_test_tokens, range and upsert).
NobodySkipped == \A u \in User : u <= saved => Transfers(u) # {}

\* What a stop repeats is one round: the saved user never moves back, not
\* even when Zex does not answer, and a user up to it is never sent anything
\* again (range of transfer_test_tokens).
NoTransferAfterSave ==
    [][/\ saved' >= saved
       /\ \A u \in User : u <= saved => Transfers(u)' = Transfers(u)]_tokenBotVars

\* The bot catches up with Zex's users again and again, or has stopped (the
\* loop of transfer_test_tokens).
CatchesUp == []<>(saved = zexLast \/ botPc = "dead")
=============================================================================
