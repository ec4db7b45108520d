------------------------------ MODULE BotProofs ------------------------------
(***************************************************************************)
(* Proofs about Bots, for every number of users, chains, rounds and        *)
(* faults.  Of the test token bot: no user up to the saved one is left     *)
(* out, and none of them is sent tokens again.  Of the monitoring bot: as  *)
(* long as nothing else moved the balances, its verdicts are true.         *)
(***************************************************************************)
EXTENDS Bots, FiniteSetTheorems, WellFoundedInduction, TLAPS

(* The test token bot.                                                     *)

\* What a round works on: the users after the saved one, to each of whom a
\* transfer was accepted unless it is still to be.
RoundInv ==
    /\ botPc = "send" =>
           /\ base = saved /\ top \in Nat /\ saved <= top
           /\ todo \subseteq (saved + 1)..top
           /\ \A u \in User : saved < u /\ u <= top /\ u \notin todo => Transfers(u) # {}
    /\ botPc # "send" => todo = {}

IInv ==
    /\ saved \in Nat /\ zexLast \in Nat
    /\ NobodySkipped /\ RoundInv

LEMMA SmallestOfTwo ==
    ASSUME NEW m \in Int, NEW n \in Int
    PROVE  Min({m, n}) = IF m <= n THEN m ELSE n
<1>1. \E x \in {m, n} : \A y \in {m, n} : x <= y
  OBVIOUS
<1>2. Min({m, n}) \in {m, n} /\ \A y \in {m, n} : Min({m, n}) <= y
  BY <1>1 DEF Min
<1> QED
  BY <1>2

\* A round goes on from the saved user, also if Zex does not answer.
LEMMA RoundEndBounds ==
    ASSUME saved \in Nat, NEW last \in Nat
    PROVE  RoundEnd(last) \in Nat /\ saved <= RoundEnd(last)
<1>1. saved + BatchLimit \in Int /\ BatchLimit \in Nat
  BY TokenBotAssumption
<1>2. Min({saved + BatchLimit, last})
        = IF saved + BatchLimit <= last THEN saved + BatchLimit ELSE last
  BY <1>1, SmallestOfTwo
<1> QED
  BY <1>1, <1>2 DEF RoundEnd

\* Transfers are only added, and to the users of the round.
LEMMA TransfersGrow ==
    ASSUME NEW S, sent' = sent \cup S,
           \A tx \in S : tx[2] \in todo
    PROVE  /\ \A u \in User : Transfers(u) \subseteq Transfers(u)'
           /\ \A u \in User : u \notin todo => Transfers(u)' = Transfers(u)
  BY DEF Transfers

LEMMA StartKeeps ==
    ASSUME IInv, NEW last \in Nat, BotStart(last)
    PROVE  IInv' /\ saved' = saved /\ sent' = sent
<1>1. RoundEnd(last) \in Nat /\ saved <= RoundEnd(last)
  BY RoundEndBounds DEF IInv
<1>2. \A u \in User : Transfers(u)' = Transfers(u)
  BY DEF BotStart, Transfers
<1>3. NobodySkipped'
  BY <1>2 DEF IInv, NobodySkipped, BotStart
<1>4. \A u \in User : u \in Int
  BY TokenBotAssumption DEF User
<1>5. RoundInv'
  BY <1>1, <1>4 DEF BotStart, RoundInv, IInv
<1> QED
  BY <1>3, <1>5 DEF IInv, BotStart

\* What every step of the bot does to the saved user and to the transfers.
LEMMA TokenBotKeeps ==
    ASSUME IInv, TokenBotNext
    PROVE  /\ IInv' /\ saved' >= saved
           /\ \A u \in User : u <= saved => Transfers(u)' = Transfers(u)
<1> USE DEF IInv
<1>a. User \subseteq Int
  BY TokenBotAssumption DEF User
<1>b. ASSUME sent' = sent
      PROVE  \A u \in User : Transfers(u)' = Transfers(u)
  BY <1>b DEF Transfers
<1>c. \A u \in User : u <= saved => u \notin todo
  BY <1>a DEF RoundInv
<1>1. CASE Register
  BY <1>1, <1>b DEF Register, RoundInv, NobodySkipped, roundVars
<1>2. CASE \E last \in Nat : BotStart(last)
  BY <1>2, <1>b, StartKeeps
<1>3. ASSUME NEW u \in todo, BotSend(u)
      PROVE  /\ IInv' /\ saved' >= saved
             /\ \A v \in User : v <= saved => Transfers(v)' = Transfers(v)
  <2>1. /\ \A v \in User : Transfers(v) \subseteq Transfers(v)'
        /\ \A v \in User : v \notin todo => Transfers(v)' = Transfers(v)
    <3> DEFINE T == {<<NonceOf(u), u>>}
    <3>1. sent' = sent \cup T
      BY <1>3 DEF BotSend
    <3>2. \A tx \in T : tx[2] \in todo
      BY <1>3
    <3> HIDE DEF T
    <3> QED BY <3>1, <3>2, TransfersGrow
  <2>2. Transfers(u)' # {}
    <3> DEFINE tx == <<NonceOf(u), u>>
    <3>1. tx \in sent'
      BY <1>3 DEF BotSend
    <3>2. tx[2] = u
      OBVIOUS
    <3> QED BY <3>1, <3>2 DEF Transfers
  <2>3. NobodySkipped'
    BY <1>3, <2>1 DEF BotSend, NobodySkipped
  <2>4. RoundInv'
    BY <1>3, <2>1, <2>2 DEF BotSend, RoundInv
  <2> QED
    BY <1>3, <1>c, <2>1, <2>3, <2>4 DEF BotSend
<1>4. ASSUME NEW S \in SUBSET todo, LeaveTasks(S)
      PROVE  /\ IInv' /\ saved' >= saved
             /\ \A v \in User : v <= saved => Transfers(v)' = Transfers(v)
  <2>1. /\ \A v \in User : Transfers(v) \subseteq Transfers(v)'
        /\ \A v \in User : v \notin todo => Transfers(v)' = Transfers(v)
    <3> DEFINE T == {<<NonceOf(v), v>> : v \in {w \in S : ~Occupied(NonceOf(w))}}
    <3>1. sent' = sent \cup T /\ \A tx \in T : tx[2] \in todo
      BY <1>4 DEF LeaveTasks
    <3> QED BY <3>1, TransfersGrow
  <2>2. NobodySkipped'
    BY <1>4, <2>1 DEF LeaveTasks, NobodySkipped
  <2>3. RoundInv'
    BY <1>4 DEF LeaveTasks, EndRound, RoundInv
  <2> QED
    BY <1>4, <1>c, <2>1, <2>2, <2>3 DEF LeaveTasks
<1>5. CASE BotSave
  <2>1. saved' = top /\ saved <= top /\ top \in Nat
    BY <1>5 DEF BotSave, RoundInv
  <2>2. \A u \in User : Transfers(u)' = Transfers(u)
    BY <1>5, <1>b DEF BotSave
  <2>3. NobodySkipped'
    BY <1>5, <1>a, <2>1, <2>2 DEF BotSave, RoundInv, NobodySkipped
  <2>4. RoundInv'
    BY <1>5 DEF BotSave, EndRound, RoundInv
  <2> QED
    BY <1>5, <2>1, <2>2, <2>3, <2>4 DEF BotSave
<1>6. CASE BotRestart
  BY <1>6, <1>b DEF BotRestart, RoundInv, NobodySkipped, roundVars
<1>7. BotStartZex \/ BotStartWithoutZex => \E last \in Nat : BotStart(last)
  BY DEF BotStartZex, BotStartWithoutZex
<1>8. BotCrash \/ (\E u \in todo : BotRefused(u)) => \E S \in SUBSET todo : LeaveTasks(S)
  BY DEF BotCrash, BotRefused
<1> QED
  BY <1>1, <1>2, <1>3, <1>4, <1>5, <1>6, <1>7, <1>8 DEF TokenBotNext, BotWork

LEMMA OthersKeep ==
    ASSUME IInv, UNCHANGED tokenBotVars
    PROVE  IInv'
  BY DEF IInv, RoundInv, NobodySkipped, Transfers, tokenBotVars, roundVars

LEMMA InitInv == Init => IInv
  BY TokenBotAssumption
  DEF Init, TokenBotInit, IInv, RoundInv, NobodySkipped, User

LEMMA StepKeeps ==
    ASSUME IInv, [Next]_vars
    PROVE  IInv' /\ (TokenBotNext \/ UNCHANGED tokenBotVars)
<1>1. TokenBotNext \/ UNCHANGED tokenBotVars
  BY DEF Next, CreditGift, TokenBot, Monitor, vars
<1> QED
  BY <1>1, TokenBotKeeps, OthersKeep

LEMMA Invariance == Spec => []IInv
  BY InitInv, StepKeeps, PTL DEF Spec

\* A transfer to each user up to the saved one was accepted, whatever stopped
\* the bot before (range and upsert of transfer_test_tokens).
THEOREM NobodyIsSkipped == Spec => []NobodySkipped
<1>1. IInv => NobodySkipped
  BY DEF IInv
<1> QED BY <1>1, Invariance, PTL

\* No user up to the saved one is sent anything again, and the saved user
\* never moves back (transfer_test_tokens).
THEOREM SavedUsersAreDone == Spec => NoTransferAfterSave
<1>1. IInv /\ [Next]_vars =>
        [/\ saved' >= saved
         /\ \A u \in User : u <= saved => Transfers(u)' = Transfers(u)]_tokenBotVars
  BY StepKeeps, TokenBotKeeps
<1> QED BY <1>1, Invariance, PTL DEF Spec, NoTransferAfterSave

-----------------------------------------------------------------------------
(* The monitoring bot: its verdicts.                                       *)

\* The await a probe is at; a probe of another round is over or to come.
Stage(p) ==
    IF p[2] < round THEN "done" ELSE IF p[2] > round THEN "wait" ELSE step[p[1]]

\* What is known of a probe at each await, as long as nothing disturbed one.
Expected(p) ==
    /\ Stage(p) # "alarm"
    /\ Stage(p) \in {"wait", "balance", "send"} => deposit[p] = "none"
    /\ Stage(p) = "receipt" => deposit[p] # "none"
    /\ Stage(p) \in {"tokens", "request", "payout", "tell", "done"}
         => deposit[p] = "credited"
    /\ Stage(p) \in {"wait", "balance", "send", "receipt", "credit", "tokens", "request"}
         => withdraw[p] = "none"
    /\ Stage(p) \in {"tell", "done"} => withdraw[p] = "paid"

\* One chain after the other.
InOrder ==
    \A c \in Chain :
        step[c] # "wait" =>
            /\ This(c) \in Probe
            /\ \A d \in Chain : d < c => step[d] = "done"

\* The balance read before is that without the present probe, or with its
\* deposit alone.
BeforeIsKnown ==
    \A c \in Chain :
        /\ step[c] \in {"send", "receipt", "credit"} => before[c] = 0
        /\ step[c] \in {"request", "payout"} => before[c] = -1

VerdictInv ==
    /\ InOrder
    /\ Undisturbed => BeforeIsKnown /\ \A p \in Probe : Expected(p)

MonInv == MonitorTypeOK /\ gifts \in Nat /\ VerdictInv

LEMMA ProbeType ==
    /\ IsFiniteSet(Probe)
    /\ Chain \subseteq Int
    /\ \A p \in Probe : p[1] \in Chain /\ p[2] \in 1..MaxProbes /\ p = <<p[1], p[2]>>
<1>1. ChainCount \in Int /\ MaxProbes \in Int /\ 1 \in Int
  BY MonitorAssumption
<1>2. IsFiniteSet(1..ChainCount) /\ IsFiniteSet(1..MaxProbes)
  BY <1>1, FS_Interval
<1>3. IsFiniteSet(Chain \X (1..MaxProbes))
  BY <1>2, FS_Product DEF Chain
<1>4. Probe \in SUBSET (Chain \X (1..MaxProbes))
  BY DEF Probe
<1>5. IsFiniteSet(Probe)
  BY <1>3, <1>4, FS_Subset
<1> QED
  BY <1>1, <1>4, <1>5 DEF Chain

LEMMA CountType ==
    ASSUME NEW S \in SUBSET Probe
    PROVE  IsFiniteSet(S) /\ Cardinality(S) \in Nat
  BY ProbeType, FS_Subset, FS_CardinalityType

LEMMA BalancesAreInt ==
    FreeOfBot \in Int /\ \A c \in Chain : Tokens(c) \in Int
<1>1. FreeOfBot \in Int
  <2> DEFINE A == {p \in Probe : deposit[p] = "credited"}
             B == {p \in Probe : withdraw[p] \in {"owed", "paid"}}
  <2>1. Cardinality(A) \in Nat /\ Cardinality(B) \in Nat
    BY CountType
  <2> HIDE DEF A, B
  <2>2. Cardinality(A) - Cardinality(B) \in Int
    BY <2>1
  <2> QED BY <2>2 DEF FreeOfBot, A, B
<1>2. ASSUME NEW c \in Chain
      PROVE  Tokens(c) \in Int
  <2> DEFINE A == {p \in Probe : p[1] = c /\ withdraw[p] = "paid"}
             B == {p \in Probe : p[1] = c /\ deposit[p] \in {"mined", "credited"}}
  <2>1. Cardinality(A) \in Nat /\ Cardinality(B) \in Nat
    BY CountType
  <2> HIDE DEF A, B
  <2>2. Cardinality(A) - Cardinality(B) \in Int
    BY <2>1
  <2> QED BY <2>2 DEF Tokens, A, B
<1> QED
  BY <1>1, <1>2

\* Beside a probe under way the others are over or to come.
LEMMA OthersRest ==
    ASSUME MonitorTypeOK, InOrder, NEW c \in Chain, step[c] \notin {"wait", "done"},
           NEW p \in Probe, p # This(c)
    PROVE  Stage(p) \in {"wait", "done"}
<1>1. p[1] \in Chain /\ p[2] \in Nat /\ p = <<p[1], p[2]>>
  BY ProbeType
<1>2. round \in Nat /\ \A d \in Chain : d \in Int
  BY ProbeType DEF MonitorTypeOK
<1>3. CASE p[2] # round
  BY <1>1, <1>2, <1>3 DEF Stage
<1>4. CASE p[2] = round
  <2>1. p[1] # c
    BY <1>1, <1>4 DEF This
  <2>2. step[p[1]] \in {"wait", "done"}
    BY <1>1, <1>2, <2>1 DEF InOrder
  <2> QED BY <1>4, <2>2, <1>2 DEF Stage
<1> QED BY <1>3, <1>4

LEMMA ThisStage ==
    ASSUME MonitorTypeOK, NEW c \in Chain
    PROVE  Stage(This(c)) = step[c]
  BY DEF Stage, This, MonitorTypeOK

\* The user's balance shows the present deposit and nothing else.
LEMMA FreeShowsDeposit ==
    ASSUME MonInv, Undisturbed, NEW c \in Chain, step[c] \in {"balance", "credit"}
    PROVE  FreeOfBot = IF deposit[This(c)] = "credited" THEN 1 ELSE 0
<1> DEFINE q == This(c)
           A == {p \in Probe : deposit[p] = "credited"}
           B == {p \in Probe : withdraw[p] \in {"owed", "paid"}}
<1>1. q \in Probe /\ Stage(q) = step[c] /\ Expected(q)
  BY ThisStage DEF MonInv, VerdictInv, InOrder
<1>2. withdraw[q] = "none"
  BY <1>1 DEF Expected
<1>3. \A p \in Probe : p # q => (p \in A <=> p \in B)
  <2> SUFFICES ASSUME NEW p \in Probe, p # q PROVE p \in A <=> p \in B
    OBVIOUS
  <2>1. Stage(p) \in {"wait", "done"} /\ Expected(p)
    BY OthersRest DEF MonInv, VerdictInv
  <2> QED BY <2>1 DEF Expected
<1>4. B = A \ {q}
  BY <1>2, <1>3
<1>5. IsFiniteSet(A) /\ Cardinality(A) \in Nat
  BY CountType
<1>6. q \in A <=> deposit[q] = "credited"
  BY <1>1
<1>7. FreeOfBot = Cardinality(A) - Cardinality(B)
  BY DEF FreeOfBot
<1> HIDE DEF A, B, q
<1>8. Cardinality(B) = IF q \in A THEN Cardinality(A) - 1 ELSE Cardinality(A)
  BY <1>4, <1>5, FS_RemoveElement
<1> QED
  BY <1>5, <1>6, <1>7, <1>8 DEF q

\* The bot's balance on the chain shows the present probe and nothing else.
LEMMA TokensShowPayout ==
    ASSUME MonInv, Undisturbed, NEW c \in Chain, step[c] \in {"tokens", "payout"}
    PROVE  Tokens(c) = IF withdraw[This(c)] = "paid" THEN 0 ELSE -1
<1> DEFINE q == This(c)
           A == {p \in Probe : p[1] = c /\ withdraw[p] = "paid"}
           B == {p \in Probe : p[1] = c /\ deposit[p] \in {"mined", "credited"}}
<1>1. q \in Probe /\ Stage(q) = step[c] /\ Expected(q) /\ q[1] = c
  BY ThisStage DEF MonInv, VerdictInv, InOrder, This
<1>2. q \in B
  BY <1>1 DEF Expected
<1>3. \A p \in Probe : p # q => (p \in A <=> p \in B)
  <2> SUFFICES ASSUME NEW p \in Probe, p # q PROVE p \in A <=> p \in B
    OBVIOUS
  <2>1. Stage(p) \in {"wait", "done"} /\ Expected(p)
    BY OthersRest DEF MonInv, VerdictInv
  <2> QED BY <2>1 DEF Expected
<1>4. A \ {q} = B \ {q}
  BY <1>3
<1>5. /\ IsFiniteSet(A) /\ Cardinality(A) \in Nat
      /\ IsFiniteSet(B) /\ Cardinality(B) \in Nat
  BY CountType
<1>6. q \in A <=> withdraw[q] = "paid"
  BY <1>1
<1>7. Tokens(c) = Cardinality(A) - Cardinality(B)
  BY DEF Tokens
<1> HIDE DEF A, B, q
<1>8. Cardinality(A \ {q}) = IF q \in A THEN Cardinality(A) - 1 ELSE Cardinality(A)
  BY <1>5, FS_RemoveElement
<1>9. Cardinality(B \ {q}) = Cardinality(B) - 1
  BY <1>2, <1>5, FS_RemoveElement
<1> QED
  BY <1>4, <1>5, <1>6, <1>7, <1>8, <1>9 DEF q

\* Types: what a bot's task, the world and the loop do to them.
LEMMA DataType ==
    ASSUME MonitorTypeOK, NEW p \in Probe
    PROVE  /\ \A old, new : DepositBecomes(p, old, new)
                /\ new \in {"none", "pool", "failed", "mined", "credited"}
              => /\ deposit' \in [Probe -> {"none", "pool", "failed", "mined", "credited"}]
                 /\ withdraw' \in [Probe -> {"none", "queued", "refused", "owed", "paid"}]
           /\ Queue(p) \/ TakeRequest(p) \/ PayRequest(p)
              => /\ deposit' \in [Probe -> {"none", "pool", "failed", "mined", "credited"}]
                 /\ withdraw' \in [Probe -> {"none", "queued", "refused", "owed", "paid"}]
  BY DEF MonitorTypeOK, DepositBecomes, Queue, TakeRequest, PayRequest

LEMMA TypeKeeps ==
    ASSUME MonInv, Monitor
    PROVE  MonitorTypeOK'
<1> USE DEF MonInv, VerdictInv
<1>a. Free \in Int
  BY BalancesAreInt, BotsAssumption DEF Free
<1>b. \A c \in Chain : Tokens(c) \in Int
  BY BalancesAreInt
<1>c. MonitorTypeOK
  OBVIOUS
<1>d. \A c \in Chain : step[c] # "wait" => This(c) \in Probe
  BY DEF InOrder
<1>e. failures < MaxFailures /\ failures' = failures + 1 => failures' \in 0..MaxFailures
  BY MonitorAssumption DEF MonitorTypeOK
<1>1. CASE World
  <2>1. PICK p \in Probe : \/ MineDeposit(p) \/ DepositBecomes(p, "mined", "credited")
                           \/ TakeRequest(p) \/ PayRequest(p)
    BY <1>1 DEF World
  <2>2. /\ deposit' \in [Probe -> {"none", "pool", "failed", "mined", "credited"}]
        /\ withdraw' \in [Probe -> {"none", "queued", "refused", "owed", "paid"}]
    BY <2>1, DataType DEF MineDeposit
  <2> QED BY <1>1, <2>2 DEF World, MonitorTypeOK
<1>2. ASSUME NEW c \in Chain, StartMonitor(c)
      PROVE  MonitorTypeOK'
  BY <1>2 DEF StartMonitor, Goto, Calls, MonitorTypeOK, worldVars
<1>3. ASSUME NEW c \in Chain, ReadBalance(c, Free) \/ ReadTokens(c)
      PROVE  MonitorTypeOK'
  BY <1>3, <1>a, <1>b DEF ReadBalance, ReadTokens, Goto, Calls, MonitorTypeOK, worldVars
<1>4. ASSUME NEW c \in Chain, SendDeposit(c) \/ RequestWithdraw(c)
      PROVE  MonitorTypeOK'
  <2>1. This(c) \in Probe
    BY <1>4, <1>d DEF SendDeposit, RequestWithdraw
  <2>2. /\ deposit' \in [Probe -> {"none", "pool", "failed", "mined", "credited"}]
        /\ withdraw' \in [Probe -> {"none", "queued", "refused", "owed", "paid"}]
    BY <1>4, <2>1, DataType DEF SendDeposit, RequestWithdraw
  <2> QED BY <1>4, <2>2 DEF SendDeposit, RequestWithdraw, Goto, Calls, MonitorTypeOK
<1>5. ASSUME NEW c \in Chain, Receipt(c) \/ CheckBalance(c, Free) \/ CheckTokens(c)
      PROVE  MonitorTypeOK'
  <2>1. \E l \in {"credit", "tokens", "tell", "alarm"} : Enter(c, l)
    BY <1>5 DEF Receipt, CheckBalance, CheckTokens
  <2>2. step' \in [Chain -> Calls \cup {"wait", "alarm", "done"}]
    BY <2>1 DEF Enter, Goto, Calls, MonitorTypeOK
  <2>3. before' \in [Chain -> Int] /\ alarmed' \in BOOLEAN
    BY <2>1 DEF Enter, MonitorTypeOK
  <2>4. UNCHANGED <<round, loop, worldVars, failures>> /\ step[c] # "done"
    BY <1>5 DEF Receipt, CheckBalance, CheckTokens
  <2> QED BY <2>2, <2>3, <2>4 DEF MonitorTypeOK, worldVars
<1>6. ASSUME NEW c \in Chain, Tell(c)
      PROVE  MonitorTypeOK'
  BY <1>6 DEF Tell, Goto, MonitorTypeOK, worldVars
<1>7. CASE RoundEnds
  BY <1>7 DEF RoundEnds, MonitorTypeOK, worldVars
<1>8. CASE NextRound
  <2>1. <<1, round + 1>> \in Probe
    BY <1>8 DEF NextRound
  <2>2. <<1, round + 1>>[2] \in 1..MaxProbes
    BY <2>1, ProbeType
  <2> QED BY <1>8, <2>2 DEF NextRound, MonitorTypeOK, worldVars
<1>9. ASSUME NEW c \in Chain, CallFails(c)
      PROVE  MonitorTypeOK'
  <2>1. This(c) \in Probe
    BY <1>9, <1>d DEF CallFails, Calls
  <2>2. /\ deposit' \in [Probe -> {"none", "pool", "failed", "mined", "credited"}]
        /\ withdraw' \in [Probe -> {"none", "queued", "refused", "owed", "paid"}]
    BY <1>9, <2>1, DataType DEF CallFails, worldVars, MonitorTypeOK
  <2>3. step' \in [Chain -> Calls \cup {"wait", "alarm", "done"}] /\ step[c] # "done"
    BY <1>9 DEF CallFails, Enter, Goto, Calls, MonitorTypeOK
  <2>4. before' \in [Chain -> Int] /\ alarmed' \in BOOLEAN
    BY <1>9 DEF CallFails, Enter, MonitorTypeOK
  <2> QED BY <1>9, <1>e, <2>2, <2>3, <2>4 DEF CallFails, MonitorTypeOK
<1>10. ASSUME NEW c \in Chain, TellAlarmFails(c)
       PROVE  MonitorTypeOK'
  BY <1>10, <1>e DEF TellAlarmFails, Goto, MonitorTypeOK, worldVars
<1> QED
  BY <1>1, <1>2, <1>3, <1>4, <1>5, <1>6, <1>7, <1>8, <1>9, <1>10
  DEF Monitor, MonitorWork, MonitorFault

\* A task of the bot goes from one await to the next.
LEMMA StageMoves ==
    ASSUME MonitorTypeOK, NEW c \in Chain, NEW l, Goto(c, l), round' = round
    PROVE  \A p \in Probe : Stage(p)' = IF p = This(c) THEN l ELSE Stage(p)
<1> SUFFICES ASSUME NEW p \in Probe
             PROVE  Stage(p)' = IF p = This(c) THEN l ELSE Stage(p)
  OBVIOUS
<1>1. p[1] \in Chain /\ p[2] \in Nat /\ p = <<p[1], p[2]>> /\ round \in Nat
  BY ProbeType DEF MonitorTypeOK
<1>2. p = This(c) <=> p[1] = c /\ p[2] = round
  BY <1>1 DEF This
<1>3. step'[p[1]] = IF p[1] = c THEN l ELSE step[p[1]]
  BY <1>1 DEF Goto, MonitorTypeOK
<1> QED BY <1>1, <1>2, <1>3 DEF Stage

LEMMA OrderMoves ==
    ASSUME MonInv, NEW c \in Chain, NEW l, l # "wait", step[c] \notin {"wait", "done"},
           Goto(c, l), round' = round
    PROVE  InOrder'
  BY DEF MonInv, VerdictInv, InOrder, MonitorTypeOK, Goto, This

\* A step of one task changes what is expected of its own probe only.
LEMMA ExpectedMoves ==
    ASSUME MonInv, Undisturbed, NEW c \in Chain, NEW l,
           Goto(c, l), round' = round,
           \A p \in Probe : p # This(c) => deposit'[p] = deposit[p]
                                           /\ withdraw'[p] = withdraw[p],
           \A p \in Probe : p = This(c) => Expected(p)'
    PROVE  \A p \in Probe : Expected(p)'
<1> SUFFICES ASSUME NEW p \in Probe, p # This(c) PROVE Expected(p)'
  OBVIOUS
<1>1. Stage(p)' = Stage(p)
  BY StageMoves DEF MonInv
<1>2. Expected(p)
  BY DEF MonInv, VerdictInv
<1> QED BY <1>1, <1>2 DEF Expected

LEMMA WorldKeeps ==
    ASSUME MonInv, World, gifts' = gifts
    PROVE  VerdictInv'
<1> USE DEF MonInv, VerdictInv
<1>1. \A p \in Probe : Stage(p)' = Stage(p)
  BY DEF World, Stage
<1>2. PICK p \in Probe : \/ MineDeposit(p) \/ DepositBecomes(p, "mined", "credited")
                         \/ TakeRequest(p) \/ PayRequest(p)
  BY DEF World
<1>3. \A q \in Probe :
        /\ deposit[q] \in {"none", "credited"} => deposit'[q] = deposit[q]
        /\ withdraw[q] \in {"none", "paid"} => withdraw'[q] = withdraw[q]
        /\ deposit[q] # "none" => deposit'[q] # "none"
  BY <1>2 DEF MineDeposit, DepositBecomes, TakeRequest, PayRequest, MonitorTypeOK
<1>4. Undisturbed => \A q \in Probe : Expected(q)'
  BY <1>1, <1>3 DEF Expected
<1>5. InOrder' /\ alarmed' = alarmed
  BY DEF World, InOrder, This
<1>6. Undisturbed' = Undisturbed /\ (BeforeIsKnown => BeforeIsKnown')
  BY DEF World, Undisturbed, BeforeIsKnown
<1> QED BY <1>4, <1>5, <1>6

TrueVerdict ==
    \A c \in Chain : Undisturbed =>
        SuccessIsTrue(c) /\ (failures' = failures => AlarmIsTrue(c))

LEMMA OthersAreSilent ==
    ASSUME MonitorTypeOK, NEW c \in Chain, NEW l, Goto(c, l),
           NEW d \in Chain, d # c
    PROVE  SuccessIsTrue(d) /\ AlarmIsTrue(d)
  BY DEF MonitorTypeOK, Goto, SuccessIsTrue, AlarmIsTrue, Becomes

\* What one probe's step has to show.
LEMMA StepOfOne ==
    ASSUME MonInv, NEW c \in Chain, NEW l, l # "wait", step[c] \notin {"wait", "done"},
           Goto(c, l), round' = round, gifts' = gifts,
           \A p \in Probe : p # This(c) => deposit'[p] = deposit[p]
                                           /\ withdraw'[p] = withdraw[p],
           \A d \in Chain : d # c => before'[d] = before[d],
           alarmed => alarmed',
           Undisturbed' => \A p \in Probe : p = This(c) => Expected(p)',
           Undisturbed' => /\ l \in {"send", "receipt", "credit"} => before'[c] = 0
                           /\ l \in {"request", "payout"} => before'[c] = -1,
           Undisturbed => SuccessIsTrue(c) /\ (failures' = failures => AlarmIsTrue(c))
    PROVE  VerdictInv' /\ TrueVerdict
<1>1. MonitorTypeOK
  BY DEF MonInv
<1>2. InOrder'
  BY OrderMoves
<1>a. Undisturbed' => Undisturbed
  BY DEF Undisturbed
<1>3. Undisturbed' => \A p \in Probe : Expected(p)'
  BY <1>a, ExpectedMoves
<1>4. (Undisturbed => BeforeIsKnown)'
  <2> SUFFICES ASSUME Undisturbed' PROVE BeforeIsKnown'
    OBVIOUS
  <2>1. Undisturbed
    BY <1>a
  <2>2. \A d \in Chain : step'[d] = IF d = c THEN l ELSE step[d]
    BY <1>1 DEF Goto, MonitorTypeOK
  <2> QED BY <2>1, <2>2 DEF BeforeIsKnown, MonInv, VerdictInv
<1>5. TrueVerdict
  BY <1>1, OthersAreSilent DEF TrueVerdict
<1> QED BY <1>2, <1>3, <1>4, <1>5 DEF VerdictInv

LEMMA StartKeepsVerdict ==
    ASSUME MonInv, NEW c \in Chain, StartMonitor(c), gifts' = gifts
    PROVE  VerdictInv' /\ TrueVerdict
<1> USE DEF MonInv, VerdictInv
<1>1. Goto(c, "balance") /\ round' = round /\ MonitorTypeOK
  BY DEF StartMonitor
<1>2. \A d \in Chain : step'[d] = IF d = c THEN "balance" ELSE step[d]
  BY <1>1 DEF Goto, MonitorTypeOK
<1>3. InOrder'
  BY <1>2, ProbeType DEF StartMonitor, MayStart, InOrder, This
<1>4. Undisturbed => \A p \in Probe : Expected(p)'
  <2> SUFFICES ASSUME Undisturbed, NEW p \in Probe, p = This(c) PROVE Expected(p)'
    BY <1>1, ExpectedMoves DEF StartMonitor, worldVars
  <2>1. Stage(p) = "wait" /\ Stage(p)' = "balance"
    BY <1>1, ThisStage, StageMoves DEF StartMonitor
  <2> QED BY <2>1 DEF Expected, StartMonitor, worldVars
<1>5. Undisturbed' = Undisturbed /\ (BeforeIsKnown => BeforeIsKnown')
  BY <1>2 DEF StartMonitor, Undisturbed, BeforeIsKnown
<1>6. TrueVerdict
  BY <1>1, <1>2 DEF TrueVerdict, SuccessIsTrue, AlarmIsTrue, Becomes, StartMonitor
<1> QED BY <1>3, <1>4, <1>5, <1>6 DEF StartMonitor

\* A read of a balance, and the deposit or the request sent after it.
LEMMA CallKeepsVerdict ==
    ASSUME MonInv, NEW c \in Chain, gifts' = gifts,
           \/ ReadBalance(c, Free) \/ SendDeposit(c)
           \/ ReadTokens(c) \/ RequestWithdraw(c)
    PROVE  VerdictInv' /\ TrueVerdict
<1> DEFINE l == CASE step[c] = "balance" -> "send"
                  [] step[c] = "send" -> "receipt"
                  [] step[c] = "tokens" -> "request"
                  [] step[c] = "request" -> "payout"
<1>1. /\ Goto(c, l) /\ round' = round /\ alarmed' = alarmed
      /\ step[c] \in {"balance", "send", "tokens", "request"}
  BY DEF ReadBalance, SendDeposit, ReadTokens, RequestWithdraw
<1>2. MonitorTypeOK
  BY DEF MonInv
<1>3. This(c) \in Probe
  BY <1>1 DEF MonInv, VerdictInv, InOrder
<1>4. \A p \in Probe :
        IF p = This(c)
        THEN /\ deposit'[p] = IF step[c] = "send" THEN "pool" ELSE deposit[p]
             /\ withdraw'[p] = IF step[c] = "request" THEN "queued" ELSE withdraw[p]
        ELSE deposit'[p] = deposit[p] /\ withdraw'[p] = withdraw[p]
  BY <1>2, <1>3 DEF ReadBalance, SendDeposit, ReadTokens, RequestWithdraw, worldVars,
                    DepositBecomes, Queue, MonitorTypeOK
<1>a. Undisturbed' = Undisturbed
  BY <1>1 DEF Undisturbed
<1>5. ASSUME Undisturbed', NEW p \in Probe, p = This(c)
      PROVE  Expected(p)'
  <2>1. Stage(p) = step[c] /\ Stage(p)' = l /\ Expected(p)
    BY <1>1, <1>2, <1>5, <1>a, ThisStage, StageMoves DEF MonInv, VerdictInv
  <2> QED BY <1>1, <1>4, <1>5, <2>1 DEF Expected
<1>6. /\ \A d \in Chain : d # c => before'[d] = before[d]
      /\ step[c] = "balance" => before'[c] = Free
      /\ step[c] = "tokens" => before'[c] = Tokens(c)
      /\ step[c] \in {"send", "request"} => before'[c] = before[c]
  BY <1>2 DEF ReadBalance, SendDeposit, ReadTokens, RequestWithdraw, MonitorTypeOK
<1>7. ASSUME Undisturbed
      PROVE  /\ l \in {"send", "receipt", "credit"} => before'[c] = 0
             /\ l \in {"request", "payout"} => before'[c] = -1
  <2>1. BeforeIsKnown /\ Expected(This(c)) /\ Stage(This(c)) = step[c]
    BY <1>2, <1>3, <1>7, ThisStage DEF MonInv, VerdictInv, Undisturbed
  <2>2. step[c] = "balance" => Free = 0
    <3> SUFFICES ASSUME step[c] = "balance" PROVE Free = 0
      OBVIOUS
    <3>1. deposit[This(c)] # "credited"
      BY <2>1 DEF Expected
    <3>2. FreeOfBot = 0
      BY <1>7, <2>1, <3>1, FreeShowsDeposit
    <3> QED BY <1>7, <3>2, BotsAssumption DEF Free, Undisturbed
  <2>3. step[c] = "tokens" => Tokens(c) = -1
    BY <1>7, <2>1, TokensShowPayout DEF Expected
  <2> QED BY <1>1, <1>6, <2>1, <2>2, <2>3 DEF BeforeIsKnown
<1>8. SuccessIsTrue(c) /\ AlarmIsTrue(c)
  BY <1>1, <1>2 DEF SuccessIsTrue, AlarmIsTrue, Becomes
<1>9. l # "wait" /\ step[c] \notin {"wait", "done"}
  BY <1>1
<1> HIDE DEF l
<1> QED
  BY <1>1, <1>4, <1>5, <1>6, <1>7, <1>8, <1>9, <1>a, StepOfOne

\* A verdict: what the bot compares is what the present probe did.
LEMMA CheckKeepsVerdict ==
    ASSUME MonInv, NEW c \in Chain, gifts' = gifts,
           Receipt(c) \/ CheckBalance(c, Free) \/ CheckTokens(c)
    PROVE  VerdictInv' /\ TrueVerdict
<1>1. MonitorTypeOK
  BY DEF MonInv
<1>2. PICK l \in {"credit", "tokens", "tell", "alarm"} :
        /\ Enter(c, l)
        /\ Receipt(c) => l = IF deposit[This(c)] \in {"mined", "credited"}
                             THEN "credit" ELSE "alarm"
        /\ CheckBalance(c, Free) => l = IF BalanceGrew(c, Free) THEN "tokens" ELSE "alarm"
        /\ CheckTokens(c) => l = IF BalanceGrew(c, Tokens(c)) THEN "tell" ELSE "alarm"
  BY DEF Receipt, CheckBalance, CheckTokens
<1>3. /\ Goto(c, l) /\ round' = round /\ alarmed' = (alarmed \/ l = "alarm")
      /\ UNCHANGED worldVars /\ step[c] \in {"receipt", "credit", "payout"}
  BY <1>2 DEF Enter, Receipt, CheckBalance, CheckTokens
<1>4. This(c) \in Probe
  BY <1>3 DEF MonInv, VerdictInv, InOrder
<1>5. /\ \A d \in Chain : d # c => before'[d] = before[d]
      /\ l = "credit" => before'[c] = before[c]
  BY <1>1, <1>2 DEF Enter, MonitorTypeOK
<1>6. /\ step[c] = "receipt" =>
           /\ l \in {"credit", "alarm"}
           /\ l = "credit" <=> deposit[This(c)] \in {"mined", "credited"}
      /\ step[c] = "credit" =>
           /\ l \in {"tokens", "alarm"}
           /\ l = "tokens" <=> Free = before[c] + 1
      /\ step[c] = "payout" =>
           /\ l \in {"tell", "alarm"}
           /\ l = "tell" <=> Tokens(c) = before[c] + 1
  BY <1>2 DEF BalanceGrew, Receipt, CheckBalance, CheckTokens
<1>7. ASSUME Undisturbed
      PROVE  /\ step[c] = "receipt" => before[c] = 0
             /\ step[c] = "receipt" => deposit[This(c)] # "none"
             /\ step[c] = "credit" => (l = "tokens" <=> deposit[This(c)] = "credited")
             /\ step[c] = "payout" => (l = "tell" <=> withdraw[This(c)] = "paid")
  <2>1. BeforeIsKnown /\ Expected(This(c)) /\ Stage(This(c)) = step[c]
    BY <1>1, <1>4, <1>7, ThisStage DEF MonInv, VerdictInv, Undisturbed
  <2>2. step[c] \in {"receipt", "credit"} => before[c] = 0
    BY <2>1 DEF BeforeIsKnown
  <2>3. step[c] = "payout" => before[c] = -1
    BY <2>1 DEF BeforeIsKnown
  <2>4. ASSUME step[c] = "credit"
        PROVE  l = "tokens" <=> deposit[This(c)] = "credited"
    <3>1. FreeOfBot = IF deposit[This(c)] = "credited" THEN 1 ELSE 0
      BY <1>7, <2>1, <2>4, FreeShowsDeposit
    <3>2. Free = FreeOfBot
      BY <1>7, <3>1, BotsAssumption DEF Free, Undisturbed
    <3> QED BY <1>6, <2>2, <2>4, <3>1, <3>2
  <2>5. ASSUME step[c] = "payout"
        PROVE  l = "tell" <=> withdraw[This(c)] = "paid"
    <3>1. Tokens(c) = IF withdraw[This(c)] = "paid" THEN 0 ELSE -1
      BY <1>7, <2>1, <2>5, TokensShowPayout
    <3> QED BY <1>6, <2>3, <2>5, <3>1
  <2>6. step[c] = "receipt" => deposit[This(c)] # "none"
    BY <2>1 DEF Expected
  <2> QED BY <2>2, <2>4, <2>5, <2>6
<1>8. Undisturbed' => Undisturbed /\ l # "alarm"
  BY <1>3 DEF Undisturbed
<1>9. ASSUME Undisturbed', NEW p \in Probe, p = This(c)
      PROVE  Expected(p)'
  <2>1. Stage(p) = step[c] /\ Stage(p)' = l /\ Expected(p)
    BY <1>1, <1>3, <1>8, <1>9, ThisStage, StageMoves DEF MonInv, VerdictInv
  <2>2. deposit'[p] = deposit[p] /\ withdraw'[p] = withdraw[p]
    BY <1>3 DEF worldVars
  <2>3. \/ step[c] = "receipt" /\ l = "credit"
        \/ step[c] = "credit" /\ l = "tokens" /\ deposit[p] = "credited"
        \/ step[c] = "payout" /\ l = "tell" /\ withdraw[p] = "paid"
    BY <1>3, <1>6, <1>7, <1>8, <1>9
  <2> QED BY <2>1, <2>2, <2>3 DEF Expected
<1>10. Undisturbed' => /\ l \in {"send", "receipt", "credit"} => before'[c] = 0
                       /\ l \in {"request", "payout"} => before'[c] = -1
  BY <1>3, <1>5, <1>6, <1>7, <1>8
<1>11. ASSUME Undisturbed
       PROVE  SuccessIsTrue(c) /\ AlarmIsTrue(c)
  <2>1. step'[c] = l
    BY <1>1, <1>3 DEF Goto, MonitorTypeOK
  <2>2. deposit[This(c)] \in {"none", "pool", "failed", "mined", "credited"}
    BY <1>1, <1>4 DEF MonitorTypeOK
  <2> QED BY <1>3, <1>6, <1>7, <1>11, <2>1, <2>2 DEF SuccessIsTrue, AlarmIsTrue, Becomes
<1>12. l # "wait" /\ step[c] \notin {"wait", "done"} /\ (alarmed => alarmed')
  BY <1>3
<1>13. \A p \in Probe : deposit'[p] = deposit[p] /\ withdraw'[p] = withdraw[p]
  BY <1>3 DEF worldVars
<1> QED
  BY <1>3, <1>5, <1>9, <1>10, <1>11, <1>12, <1>13, StepOfOne

\* A call that raises, or the message at the end: nothing is claimed then.
LEMMA EndKeepsVerdict ==
    ASSUME MonInv, NEW c \in Chain, gifts' = gifts,
           CallFails(c) \/ Tell(c) \/ TellAlarmFails(c)
    PROVE  VerdictInv' /\ TrueVerdict
<1>1. MonitorTypeOK
  BY DEF MonInv
<1>2. PICK l \in {"alarm", "done"} :
        /\ Goto(c, l)
        /\ CallFails(c) => l = "alarm"
        /\ Tell(c) \/ TellAlarmFails(c) => l = "done"
  <2>1. CASE CallFails(c)
    <3>1. Goto(c, "alarm")
      BY <2>1 DEF CallFails, Enter
    <3>2. Tell(c) \/ TellAlarmFails(c) => Goto(c, "done")
      BY DEF Tell, TellAlarmFails
    <3> QED BY <1>1, <3>1, <3>2 DEF Goto, MonitorTypeOK
  <2>2. CASE ~CallFails(c)
    BY <2>2 DEF Tell, TellAlarmFails
  <2> QED BY <2>1, <2>2
<1>3. /\ round' = round /\ step[c] \notin {"wait", "done"}
      /\ alarmed' = (alarmed \/ l = "alarm")
      /\ \A d \in Chain : d # c => before'[d] = before[d]
  BY <1>1, <1>2 DEF CallFails, Tell, TellAlarmFails, Enter, Calls, MonitorTypeOK
<1>4. This(c) \in Probe
  BY <1>3 DEF MonInv, VerdictInv, InOrder
<1>5. \A p \in Probe : p # This(c) => deposit'[p] = deposit[p]
                                      /\ withdraw'[p] = withdraw[p]
  BY <1>1, <1>4 DEF CallFails, Tell, TellAlarmFails, DepositBecomes, Queue,
                    worldVars, MonitorTypeOK
<1>6. Undisturbed' => Undisturbed /\ l = "done"
  BY <1>2, <1>3 DEF Undisturbed
<1>7. ASSUME Undisturbed', NEW p \in Probe, p = This(c)
      PROVE  Expected(p)'
  <2>1. Stage(p) = step[c] /\ Stage(p)' = "done" /\ Expected(p)
    BY <1>1, <1>2, <1>3, <1>6, <1>7, ThisStage, StageMoves DEF MonInv, VerdictInv
  <2>2. step[c] = "tell" /\ UNCHANGED worldVars
    BY <1>2, <1>6, <1>7, <2>1 DEF Expected, Tell, TellAlarmFails
  <2> QED BY <2>1, <2>2 DEF Expected, worldVars
<1>8. step'[c] = l
  BY <1>1, <1>2 DEF Goto, MonitorTypeOK
<1>9. SuccessIsTrue(c) /\ (failures' = failures => AlarmIsTrue(c))
  <2>1. SuccessIsTrue(c)
    BY <1>2, <1>8 DEF SuccessIsTrue, Becomes
  <2>2. l = "alarm" => failures' # failures
    BY <1>1, <1>2 DEF CallFails, Tell, TellAlarmFails, MonitorTypeOK
  <2> QED BY <1>8, <2>1, <2>2 DEF AlarmIsTrue, Becomes
<1>10. l # "wait" /\ l \notin {"send", "receipt", "credit", "request", "payout"}
  BY <1>2
<1> QED
  BY <1>2, <1>3, <1>5, <1>6, <1>7, <1>9, <1>10, StepOfOne

LEMMA LoopKeepsVerdict ==
    ASSUME MonInv, gifts' = gifts, RoundEnds \/ NextRound
    PROVE  VerdictInv' /\ TrueVerdict
<1> USE DEF MonInv, VerdictInv
<1>1. CASE RoundEnds
  <2>1. \A p \in Probe : Stage(p)' = Stage(p)
    BY <1>1 DEF RoundEnds, Stage
  <2>2. Undisturbed' = Undisturbed
    BY <1>1 DEF RoundEnds, Undisturbed
  <2>3. Undisturbed => \A p \in Probe : Expected(p)'
    BY <1>1, <2>1 DEF RoundEnds, Expected, worldVars
  <2>4. InOrder' /\ (BeforeIsKnown => BeforeIsKnown')
    BY <1>1 DEF RoundEnds, InOrder, This, BeforeIsKnown
  <2> QED BY <1>1, <2>2, <2>3, <2>4
          DEF RoundEnds, TrueVerdict, SuccessIsTrue, AlarmIsTrue, Becomes
<1>2. CASE NextRound
  <2>1. \A c \in Chain : step[c] = "done" /\ step'[c] = "wait"
    BY <1>2 DEF NextRound, MonitorTypeOK
  <2>2. \A p \in Probe : Stage(p)' = IF p[2] <= round THEN "done" ELSE "wait"
    BY <1>2, <2>1, ProbeType DEF NextRound, Stage, MonitorTypeOK
  <2>3. \A p \in Probe : Stage(p)' = Stage(p)
    BY <2>1, <2>2, ProbeType DEF Stage, MonitorTypeOK
  <2>4. Undisturbed => \A p \in Probe : Expected(p)'
    BY <1>2, <2>3 DEF NextRound, Expected, worldVars
  <2>5. InOrder' /\ BeforeIsKnown' /\ Undisturbed' = Undisturbed
    BY <1>2, <2>1 DEF NextRound, InOrder, BeforeIsKnown, Undisturbed
  <2>6. TrueVerdict
    BY <2>1 DEF TrueVerdict, SuccessIsTrue, AlarmIsTrue, Becomes
  <2> QED BY <2>4, <2>5, <2>6
<1> QED BY <1>1, <1>2

LEMMA VerdictStep ==
    ASSUME MonInv, [Next]_vars
    PROVE  MonInv' /\ TrueVerdict
<1>1. ASSUME UNCHANGED monitorVars, gifts' = gifts \/ gifts' = gifts + 1
      PROVE  MonInv' /\ TrueVerdict
  <2>1. TrueVerdict
    BY <1>1 DEF monitorVars, TrueVerdict, SuccessIsTrue, AlarmIsTrue, Becomes
  <2>2. MonitorTypeOK' /\ gifts' \in Nat
    BY <1>1 DEF MonInv, MonitorTypeOK, monitorVars, worldVars
  <2>3. Undisturbed' => Undisturbed
    BY <1>1 DEF MonInv, Undisturbed, monitorVars
  <2>4. \A p \in Probe : Expected(p) => Expected(p)'
    BY <1>1 DEF Expected, Stage, monitorVars, worldVars
  <2>5. InOrder' /\ (BeforeIsKnown => BeforeIsKnown')
    BY <1>1 DEF MonInv, VerdictInv, InOrder, This, BeforeIsKnown, monitorVars
  <2> QED BY <2>1, <2>2, <2>3, <2>4, <2>5 DEF MonInv, VerdictInv
<1>2. CASE Monitor
  <2>1. MonitorTypeOK' /\ gifts' = gifts
    BY <1>2, TypeKeeps DEF Monitor
  <2>2. VerdictInv' /\ TrueVerdict
    <3>1. CASE World
      <4>1. TrueVerdict
        BY <3>1 DEF World, TrueVerdict, SuccessIsTrue, AlarmIsTrue, Becomes
      <4> QED BY <2>1, <3>1, <4>1, WorldKeeps
    <3>2. CASE MonitorWork(Free)
      BY <2>1, <3>2, StartKeepsVerdict, CallKeepsVerdict, CheckKeepsVerdict,
         EndKeepsVerdict, LoopKeepsVerdict DEF MonitorWork
    <3>3. CASE MonitorFault
      BY <2>1, <3>3, EndKeepsVerdict DEF MonitorFault
    <3> QED BY <1>2, <3>1, <3>2, <3>3 DEF Monitor
  <2> QED BY <2>1, <2>2 DEF MonInv
<1> QED
  BY <1>1, <1>2 DEF Next, CreditGift, TokenBot, vars

LEMMA VerdictInit == Init => MonInv
<1> SUFFICES ASSUME Init PROVE MonInv
  OBVIOUS
<1>1. MonitorTypeOK
  <2>1. round \in 1..MaxProbes /\ failures \in 0..MaxFailures
    BY MonitorAssumption DEF Init, MonitorInit
  <2>2. /\ step \in [Chain -> Calls \cup {"wait", "alarm", "done"}]
        /\ before \in [Chain -> Int]
        /\ loop \in {"round", "idle", "silent"} /\ loop # "idle"
    BY DEF Init, MonitorInit
  <2>4. alarmed \in BOOLEAN
    BY DEF Init, MonitorInit
  <2>3. /\ deposit \in [Probe -> {"none", "pool", "failed", "mined", "credited"}]
        /\ withdraw \in [Probe -> {"none", "queued", "refused", "owed", "paid"}]
    BY DEF Init, MonitorInit
  <2> QED BY <2>1, <2>2, <2>3, <2>4 DEF MonitorTypeOK
<1>2. InOrder /\ BeforeIsKnown
  BY DEF Init, MonitorInit, InOrder, BeforeIsKnown
<1>3. \A p \in Probe : Expected(p)
  <2>1. \A p \in Probe : Stage(p) = "wait"
    BY ProbeType DEF Init, MonitorInit, Stage
  <2> QED BY <2>1 DEF Init, MonitorInit, Expected
<1> QED
  BY <1>1, <1>2, <1>3 DEF MonInv, VerdictInv, Init

\* What the bot reports of a probe is so until an alarm or a gift disturbs
\* the balances, for any number of chains, rounds and failing calls (the
\* equalities of monitor_deposit and monitor_withdraw).
THEOREM VerdictsAreTrue == Spec => VerdictIsTrue
<1>1. MonInv /\ [Next]_vars =>
        [\A c \in Chain : Undisturbed =>
           SuccessIsTrue(c) /\ (failures' = failures => AlarmIsTrue(c))]_vars
  BY VerdictStep DEF TrueVerdict
<1>2. MonInv /\ [Next]_vars => MonInv'
  BY VerdictStep
<1> QED
  BY <1>1, <1>2, VerdictInit, PTL DEF Spec, VerdictIsTrue

-----------------------------------------------------------------------------
(* Types: a round needs a nonce nothing has yet, and its users are Zex's.  *)

BotTypeInv == TokenBotTypeOK /\ IsFiniteSet(sent)

TypeInv == BotTypeInv /\ IInv /\ MonInv

LEMMA SmallestIsIn ==
    ASSUME NEW S \in SUBSET Nat, S # {}
    PROVE  Min(S) \in S
<1> DEFINE R == OpToRel(<, Nat)
<1>1. IsWellFoundedOn(R, Nat)
  BY NatLessThanWellFounded
<1>2. PICK n \in S : \A m \in S : ~(<<m, n>> \in R)
  <2> HIDE DEF R
  <2> QED BY <1>1, WFMin
<1>3. \A m \in S : ~(m < n)
  <2>1. n \in Nat /\ S \subseteq Nat
    OBVIOUS
  <2> QED BY <1>2, <2>1 DEF OpToRel
<1>4. \A m \in S : n <= m
  BY <1>3
<1> QED BY <1>4 DEF Min

\* Among one more numbers than there are transfers, one is no transfer's.
LEMMA NonceIsFree ==
    ASSUME IsFiniteSet(sent)
    PROVE  PendingCount \in Nat
<1> DEFINE n == Cardinality(sent)
           S == {k \in 0..n : ~Occupied(k)}
           f == [k \in 0..n |-> CHOOSE tx \in sent : tx[1] = k]
<1>1. n \in Nat
  BY FS_CardinalityType
<1>2. IsFiniteSet(0..n) /\ Cardinality(0..n) = n + 1
  <2> HIDE DEF n
  <2>1. 0 \in Int /\ n \in Int /\ ~(0 > n)
    BY <1>1
  <2> QED BY <1>1, <2>1, FS_Interval
<1>3. S # {}
  <2> SUFFICES ASSUME \A k \in 0..n : Occupied(k) PROVE FALSE
    OBVIOUS
  <2>1. \A k \in 0..n : f[k] \in sent /\ f[k][1] = k
    BY DEF Occupied
  <2>2. f \in [0..n -> sent]
    BY <2>1
  <2>3. Cardinality(sent) < Cardinality(0..n)
    BY <1>1, <1>2
  <2> HIDE DEF f
  <2>4. \E x, y \in 0..n : x # y /\ f[x] = f[y]
    <3> HIDE DEF n
    <3> QED BY <1>2, <2>2, <2>3, FS_PigeonHole
  <2> QED BY <2>1, <2>4
<1>4. S \in SUBSET Nat
  BY <1>1
<1>5. Min(S) \in S
  <2> HIDE DEF S
  <2> QED BY <1>3, <1>4, SmallestIsIn
<1> QED BY <1>1, <1>5 DEF PendingCount

LEMMA RoundEndIsUser ==
    ASSUME saved \in 0..LastUser, NEW last \in 0..LastUser
    PROVE  RoundEnd(last) \in 0..LastUser
<1>1. LastUser \in Nat /\ saved + BatchLimit \in Nat
  BY TokenBotAssumption
<1>2. Min({saved + BatchLimit, last})
        = IF saved + BatchLimit <= last THEN saved + BatchLimit ELSE last
  BY <1>1, SmallestOfTwo
<1> QED BY <1>1, <1>2 DEF RoundEnd

\* Transfers of the round added to those before.
LEMMA SentTypes ==
    ASSUME BotTypeInv, IInv, botPc = "send" \/ todo = {}, NEW S \in SUBSET todo,
           NEW T, T \subseteq {<<NonceOf(u), u>> : u \in S}, sent' = sent \cup T
    PROVE  sent' \in SUBSET (Nat \X User) /\ IsFiniteSet(sent')
<1> DEFINE N == first..(first + LastUser)
<1>1. first \in Nat /\ LastUser \in Nat /\ todo \subseteq User
      /\ sent \in SUBSET (Nat \X User) /\ IsFiniteSet(sent)
  BY TokenBotAssumption DEF BotTypeInv, TokenBotTypeOK
<1>2. \A u \in todo : NonceOf(u) \in N /\ NonceOf(u) \in Nat
  <2> SUFFICES ASSUME NEW u \in todo PROVE NonceOf(u) \in N /\ NonceOf(u) \in Nat
    OBVIOUS
  <2>1. base = saved /\ saved \in Nat /\ u \in Int /\ saved + 1 <= u /\ u <= LastUser
    <3>1. base = saved /\ todo \subseteq (saved + 1)..top /\ saved \in Nat /\ top \in Nat
      BY DEF IInv, RoundInv
    <3>2. u \in Int /\ u <= LastUser
      BY <1>1 DEF User
    <3>3. saved + 1 <= u
      BY <3>1
    <3> QED BY <3>1, <3>2, <3>3
  <2> QED BY <1>1, <2>1 DEF NonceOf
<1>3. T \in SUBSET (N \X User) /\ T \in SUBSET (Nat \X User)
  BY <1>1, <1>2
<1>4. IsFiniteSet(N \X User)
  <2>1. first \in Int /\ first + LastUser \in Int /\ 1 \in Int /\ LastUser \in Int
    BY <1>1
  <2>2. IsFiniteSet(N) /\ IsFiniteSet(User)
    BY <2>1, FS_Interval DEF User
  <2> HIDE DEF N
  <2> QED BY <2>2, FS_Product
<1> HIDE DEF N
<1>5. IsFiniteSet(T)
  BY <1>3, <1>4, FS_Subset
<1>6. IsFiniteSet(sent \cup T)
  BY <1>1, <1>5, FS_Union
<1> QED BY <1>1, <1>3, <1>6

\* Types of what a step of the token bot changes.
LEMMA BotTypesKeep ==
    ASSUME BotTypeInv, IInv, TokenBotNext
    PROVE  BotTypeInv'
<1> USE TokenBotAssumption DEF BotTypeInv, TokenBotTypeOK
<1>a. ASSUME BotFault PROVE botFaults' \in 0..MaxBotFaults
  BY <1>a DEF BotFault
<1>b. 0 \in 0..LastUser
  OBVIOUS
<1>1. CASE Register
  BY <1>1 DEF Register, roundVars
<1>2. ASSUME NEW last \in 0..LastUser, BotStart(last), botFaults' \in 0..MaxBotFaults
      PROVE  BotTypeInv'
  <2>1. RoundEnd(last) \in 0..LastUser
    BY RoundEndIsUser
  <2>2. PendingCount \in Nat
    BY NonceIsFree
  <2>3. (saved + 1)..RoundEnd(last) \in SUBSET User
    BY <2>1 DEF User
  <2> QED BY <1>2, <2>1, <2>2, <2>3 DEF BotStart
<1>3. ASSUME NEW u \in todo, BotSend(u) PROVE BotTypeInv'
  <2>1. sent' \in SUBSET (Nat \X User) /\ IsFiniteSet(sent')
    <3> DEFINE S == {u}
               T == {<<NonceOf(v), v>> : v \in S}
    <3>1. S \in SUBSET todo /\ sent' = sent \cup T /\ botPc = "send"
      BY <1>3 DEF BotSend
    <3> HIDE DEF S, BotTypeInv, TokenBotTypeOK
    <3> QED BY <3>1, SentTypes
  <2> QED BY <1>3, <2>1 DEF BotSend
<1>4. ASSUME NEW S \in SUBSET todo, LeaveTasks(S), botFaults' \in 0..MaxBotFaults
      PROVE  BotTypeInv'
  <2>1. sent' \in SUBSET (Nat \X User) /\ IsFiniteSet(sent')
    <3> DEFINE T == {<<NonceOf(u), u>> : u \in {v \in S : ~Occupied(NonceOf(v))}}
    <3>1. T \subseteq {<<NonceOf(u), u>> : u \in S} /\ sent' = sent \cup T
      BY <1>4 DEF LeaveTasks
    <3>2. botPc = "send" \/ todo = {}
      BY DEF IInv, RoundInv
    <3> HIDE DEF T, BotTypeInv, TokenBotTypeOK
    <3> QED BY <3>1, <3>2, SentTypes
  <2> QED BY <1>4, <1>b, <2>1 DEF LeaveTasks, EndRound
<1>5. CASE BotSave
  BY <1>5, <1>b DEF BotSave, EndRound
<1>6. CASE BotRestart
  BY <1>6 DEF BotRestart, roundVars
<1>7. CASE BotStartZex
  BY <1>2, <1>7 DEF BotStartZex
<1>8. CASE BotStartWithoutZex
  BY <1>2, <1>8, <1>a, <1>b DEF BotStartWithoutZex
<1>9. CASE BotCrash
  BY <1>4, <1>9, <1>a DEF BotCrash
<1>10. ASSUME NEW u \in todo, BotRefused(u) PROVE BotTypeInv'
  BY <1>4, <1>10 DEF BotRefused
<1> QED
  BY <1>1, <1>3, <1>5, <1>6, <1>7, <1>8, <1>9, <1>10 DEF TokenBotNext, BotWork

\* Every variable of the two bots keeps its type: there always is a nonce no
\* transfer has, and a round has users of Zex only.
THEOREM TypeCorrect == Spec => []TypeOK
<1>1. Init => TypeInv
  <2>1. ASSUME Init PROVE BotTypeInv
    BY <2>1, TokenBotAssumption, FS_EmptySet
    DEF Init, TokenBotInit, BotTypeInv, TokenBotTypeOK
  <2> QED BY <2>1, InitInv, VerdictInit DEF TypeInv
<1>2. ASSUME TypeInv, [Next]_vars PROVE TypeInv'
  <2>1. IInv' /\ (TokenBotNext \/ UNCHANGED tokenBotVars)
    BY <1>2, StepKeeps DEF TypeInv
  <2>2. MonInv'
    BY <1>2, VerdictStep DEF TypeInv
  <2>3. BotTypeInv'
    <3>1. CASE TokenBotNext
      BY <1>2, <3>1, BotTypesKeep DEF TypeInv
    <3>2. CASE UNCHANGED tokenBotVars
      BY <1>2, <3>2
      DEF TypeInv, BotTypeInv, TokenBotTypeOK, tokenBotVars, roundVars
    <3> QED BY <2>1, <3>1, <3>2
  <2> QED BY <2>1, <2>2, <2>3 DEF TypeInv
<1>3. TypeInv => TypeOK
  BY DEF TypeInv, BotTypeInv, MonInv, TypeOK
<1> QED BY <1>1, <1>2, <1>3, PTL DEF Spec
=============================================================================
