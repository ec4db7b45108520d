--------------------------- MODULE AddressProofs ---------------------------
(***************************************************************************)
(* Proofs about AddressBook, for every number of tasks, processes, users   *)
(* and faults: the collection has no gap, and what a task read covers what *)
(* Zex told it of.                                                         *)
(***************************************************************************)
EXTENDS AddressBook, WellFoundedInduction, TLAPS

\* A non-empty set of users has a last one.
LEMMA LastUserExists ==
    ASSUME NEW S \in SUBSET User, S # {}
    PROVE  /\ Max(S) \in S
           /\ \A u \in S : u <= Max(S)
<1> DEFINE R == OpToRel(<, Nat)
           T == {n \in Nat : \E u \in S : n = LastUser - u}
<1>1. PICK n \in T : \A m \in T : ~(<<m, n>> \in R)
  <2>1. IsWellFoundedOn(R, Nat)
    BY NatLessThanWellFounded
  <2>2. T \subseteq Nat
    OBVIOUS
  <2>3. T # {}
    <3>1. PICK u \in S : TRUE
      OBVIOUS
    <3>2. LastUser - u \in Nat
      BY BookAssumption DEF User
    <3> QED BY <3>2
  <2> HIDE DEF R, T
  <2> QED BY <2>1, <2>2, <2>3, WFMin
<1>2. \A m \in T : ~(m < n)
  BY <1>1 DEF OpToRel
<1>3. PICK x \in S : n = LastUser - x
  BY <1>1
<1>4. \A u \in S : x >= u
  <2> TAKE u \in S
  <2>1. u \in Nat /\ x \in Nat /\ LastUser \in Nat /\ u <= LastUser
    BY BookAssumption DEF User
  <2>2. LastUser - u \in T
    BY <2>1
  <2> QED BY <1>2, <1>3, <2>1, <2>2
<1>5. \E y \in S : \A u \in S : y >= u
  BY <1>4
<1>6. Max(S) \in S /\ \A u \in S : Max(S) >= u
  BY <1>5 DEF Max
<1>7. S \subseteq Int
  BY BookAssumption DEF User
<1> QED BY <1>6, <1>7

-----------------------------------------------------------------------------
\* What a task works on: the users below the next one it inserts have their
\* address, and at the read all those Zex reported have.
TaskInv ==
    \A t \in Task :
        /\ At(t, "insert") => /\ next[t] <= reported[t]
                              /\ \A v \in User : v < next[t] => v \in book
        /\ At(t, "read") => \A u \in User : u <= reported[t] => u \in book
        /\ At(t, "idle") => \A u \in User : u <= reported[t] => u \in view[t]

IInv == TypeOK /\ NoGap /\ TaskInv

LEMMA UserFacts == User \subseteq Nat /\ NoUser \notin User /\ NoUser \in Int
  BY BookAssumption DEF User, NoUser

LEMMA InitInv == Init => IInv
  BY BookAssumption, UserFacts
  DEF Init, IInv, TypeOK, NoGap, TaskInv, At, User, NoUser

\* The first user to compute comes right after the users in the collection.
LEMMA FirstToComputeFollows ==
    ASSUME TypeOK, NoGap
    PROVE  /\ FirstToCompute \in Nat
           /\ \A v \in User : v < FirstToCompute => v \in book
           /\ \A v \in book : v < FirstToCompute
<1>1. CASE book = {}
  BY <1>1, UserFacts DEF FirstToCompute
<1>2. CASE book # {}
  <2>1. book \in SUBSET User
    BY DEF TypeOK
  <2>2. Max(book) \in book /\ \A u \in book : u <= Max(book)
    BY <1>2, <2>1, LastUserExists
  <2>3. FirstToCompute = Max(book) + 1
    BY <1>2 DEF FirstToCompute
  <2>4. Max(book) \in Nat
    BY <2>1, <2>2, UserFacts
  <2>5. ASSUME NEW v \in User, v < FirstToCompute PROVE v \in book
    <3>1. v \in Nat /\ v <= Max(book)
      BY <2>3, <2>4, <2>5, UserFacts
    <3>2. CASE v = Max(book)
      BY <2>2, <3>2
    <3>3. CASE v < Max(book)
      BY <2>2, <3>3 DEF NoGap
    <3> QED BY <2>4, <3>1, <3>2, <3>3
  <2>6. ASSUME NEW v \in book PROVE v < FirstToCompute
    BY <2>1, <2>2, <2>3, <2>4, UserFacts
  <2> QED BY <2>3, <2>4, <2>5, <2>6
<1> QED BY <1>1, <1>2

LEMMA StepInv ==
    ASSUME IInv, NEW t \in Task, Work(t) \/ ZexFails(t)
    PROVE  IInv'
<1> USE BookAssumption, UserFacts
    DEF IInv, TypeOK, NoGap, TaskInv, At, Goto, Release
<1>1. CASE AskZex(t)
  BY <1>1 DEF AskZex, User, NoUser
<1>2. CASE ZexFails(t)
  BY <1>2 DEF ZexFails, Fault, User, NoUser
<1>3. CASE Acquire(t)
  BY <1>3 DEF Acquire
<1>4. CASE ReadLast(t)
  <2>1. /\ FirstToCompute \in Nat
        /\ \A v \in User : v < FirstToCompute => v \in book
    BY FirstToComputeFollows
  <2>2. reported[t] \in Int
    <3>1. reported[t] \in User \cup {NoUser}
      OBVIOUS
    <3> QED BY <3>1 DEF User, NoUser
  <2>3. CASE FirstToCompute > reported[t]
    BY <1>4, <2>1, <2>2, <2>3 DEF ReadLast
  <2>4. CASE ~(FirstToCompute > reported[t])
    BY <1>4, <2>1, <2>2, <2>4 DEF ReadLast
  <2> QED BY <2>3, <2>4
<1>5. CASE InsertOne(t)
  <2>1. next[t] \in Nat /\ reported[t] \in User /\ next[t] \in User
    BY <1>5 DEF InsertOne, User, NoUser
  <2>2. /\ book' = book \cup {next[t]}
        /\ next' = [next EXCEPT ![t] = next[t] + 1]
        /\ UNCHANGED <<reported, view, zexLast, faults>>
        /\ next[t] \notin book /\ pc[t] = "insert"
    BY <1>5 DEF InsertOne
  <2>3. /\ next[t] = reported[t] =>
              /\ pc' = [pc EXCEPT ![t] = "read"]
              /\ locked' = locked \ {ProcessOf[t]}
        /\ next[t] # reported[t] => UNCHANGED <<pc, locked>>
    BY <1>5 DEF InsertOne
  <2>4. TypeOK'
    <3>1. pc' \in [Task -> {"idle", "lock", "last", "insert", "read"}]
      BY <2>3
    <3>2. locked' \in SUBSET Process
      BY <2>3
    <3>3. next' \in [Task -> Nat]
      <4>1. next[t] + 1 \in Nat
        BY <2>1
      <4> QED BY <2>2, <4>1
    <3>4. book' \in SUBSET User
      BY <2>1, <2>2
    <3> QED BY <2>2, <3>1, <3>2, <3>3, <3>4
  <2>5. \A v \in User : v < next[t] => v \in book
    BY <2>2
  <2>6. NoGap'
    BY <2>1, <2>2, <2>5
  <2>7. \A v \in User : v < next[t] + 1 => v \in book'
    <3> TAKE v \in User
    <3>1. v < next[t] + 1 => v < next[t] \/ v = next[t]
      BY <2>1
    <3> QED BY <2>2, <2>5, <3>1
  <2>8. ASSUME NEW s \in Task
        PROVE  /\ pc'[s] = "insert" =>
                    /\ next'[s] <= reported'[s]
                    /\ \A v \in User : v < next'[s] => v \in book'
               /\ pc'[s] = "read" =>
                    \A u \in User : u <= reported'[s] => u \in book'
               /\ pc'[s] = "idle" =>
                    \A u \in User : u <= reported'[s] => u \in view'[s]
    <3>1. CASE s # t
      BY <2>2, <2>3, <3>1
    <3>2. CASE s = t /\ next[t] = reported[t]
      <4>1. pc'[t] = "read"
        BY <2>3, <3>2
      <4>2. \A u \in User : u <= reported[t] => u < next[t] + 1
        BY <2>1, <3>2
      <4> QED BY <2>2, <2>7, <3>2, <4>1, <4>2
    <3>3. CASE s = t /\ next[t] # reported[t]
      <4>1. pc'[t] = "insert" /\ next'[t] = next[t] + 1
        BY <2>2, <2>3, <3>3
      <4>2. next[t] <= reported[t] /\ next[t] \in Nat /\ reported[t] \in Nat
        BY <2>1, <2>2
      <4>3. next[t] + 1 <= reported[t]
        BY <3>3, <4>2
      <4> QED BY <2>2, <2>7, <3>3, <4>1, <4>3
    <3> QED BY <3>1, <3>2, <3>3
  <2> QED BY <2>4, <2>6, <2>8
<1>6. CASE Duplicate(t)
  BY <1>6 DEF Duplicate, Restart, User, NoUser
<1>7. CASE ReadBook(t)
  BY <1>7 DEF ReadBook
<1> QED BY <1>1, <1>2, <1>3, <1>4, <1>5, <1>6, <1>7 DEF Work

LEMMA Inductive == IInv /\ [Next]_vars => IInv'
<1> SUFFICES ASSUME IInv, [Next]_vars PROVE IInv'
  OBVIOUS
<1>1. CASE Register
  BY <1>1, UserFacts, BookAssumption
  DEF Register, taskVars, IInv, TypeOK, NoGap, TaskInv, At, User, NoUser
<1>2. ASSUME NEW t \in Task, Work(t) \/ ZexFails(t) PROVE IInv'
  BY <1>2, StepInv
<1>3. ASSUME NEW p \in Process, Crash(p) PROVE IInv'
  BY <1>3, UserFacts, BookAssumption
  DEF Crash, Restart, Fault, IInv, TypeOK, NoGap, TaskInv, At, User, NoUser
<1>4. CASE UNCHANGED vars
  BY <1>4 DEF vars, taskVars, IInv, TypeOK, NoGap, TaskInv, At
<1> QED BY <1>1, <1>2, <1>3, <1>4 DEF Next

LEMMA Invariance == Spec => []IInv
  BY InitInv, Inductive, PTL DEF Spec

\* The address collection and its tasks are type-correct.
THEOREM TypeCorrect == Spec => []TypeOK
<1>1. IInv => TypeOK
  BY DEF IInv
<1> QED BY <1>1, Invariance, PTL

\* The collection never has a user without all the users before it, however
\* many processes insert at the same time and wherever they die.
THEOREM BookHasNoGap == Spec => []NoGap
  BY Invariance, PTL DEF IInv

\* What a task read covers every user Zex had told it of.
THEOREM ViewIsComplete == Spec => []ViewCoversReported
<1>1. IInv => ViewCoversReported
  BY DEF IInv, TaskInv, ViewCoversReported
<1> QED BY <1>1, Invariance, PTL
=============================================================================
