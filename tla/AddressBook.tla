---------------------------- MODULE AddressBook ----------------------------
(***************************************************************************)
(* db/address.py: the collection of the users' deposit addresses, filled   *)
(* on demand by every process that is about to match transfers with it     *)
(* (the observer, one task per chain, and each validator worker).          *)
(*                                                                         *)
(* A task asks Zex for the last user, and under its process's lock inserts *)
(* the addresses from the last one in the collection on; then it reads the *)
(* collection.  The lock is an asyncio.Lock: processes do not exclude each *)
(* other, and insert_many inserts one document after the other until a     *)
(* unique index refuses one.                                               *)
(***************************************************************************)
EXTENDS Integers, FiniteSetsExt

CONSTANTS
    Task,       \* the tasks that refresh the book
    Process,    \* the processes they run in
    ProcessOf,  \* process of each task
    LastUser,   \* bound: users Zex gets, 0..LastUser
    MaxFaults   \* bound: Zex not answering, crashes

ASSUME BookAssumption ==
    /\ ProcessOf \in [Task -> Process]
    /\ LastUser \in Nat /\ MaxFaults \in Nat

User == 0..LastUser
NoUser == -1

VARIABLES
    zexLast,   \* id of Zex's last user, NoUser if there is none
    book,      \* users with an address in the collection
    faults,    \* faults met so far
    locked,    \* processes whose lock is taken
    pc,        \* "idle", "lock", "last", "insert" or "read"
    reported,  \* last_zex_user_id of each task
    next,      \* next user a task inserts
    view       \* accepted_addresses each task read last

taskVars == <<pc, reported, next, view>>
vars == <<zexLast, book, faults, locked, taskVars>>

TypeOK ==
    /\ zexLast \in User \cup {NoUser}
    /\ book \in SUBSET User
    /\ faults \in Nat
    /\ locked \in SUBSET Process
    /\ pc \in [Task -> {"idle", "lock", "last", "insert", "read"}]
    /\ reported \in [Task -> User \cup {NoUser}]
    /\ next \in [Task -> Nat]
    /\ view \in [Task -> SUBSET User]

Init ==
    /\ zexLast = NoUser /\ book = {} /\ faults = 0 /\ locked = {}
    /\ pc = [t \in Task |-> "idle"]
    /\ reported = [t \in Task |-> NoUser]
    /\ next = [t \in Task |-> 0]
    /\ view = [t \in Task |-> {}]

Fault == faults < MaxFaults /\ faults' = faults + 1

At(t, from) == pc[t] = from
Goto(t, to) == pc' = [pc EXCEPT ![t] = to]

\* Zex registers a user.
Register ==
    /\ zexLast < LastUser
    /\ zexLast' = zexLast + 1
    /\ UNCHANGED <<book, faults, locked, taskVars>>

-----------------------------------------------------------------------------
(* insert_new_address_to_db, then get_active_address. *)

\* get_last_zex_user_id; None when Zex has no user.
AskZex(t) ==
    /\ At(t, "idle")
    /\ reported' = [reported EXCEPT ![t] = zexLast]
    /\ Goto(t, IF zexLast = NoUser THEN "read" ELSE "lock")
    /\ UNCHANGED <<zexLast, book, faults, locked, next, view>>

\* ZexAPIError: the book is read as it is.
ZexFails(t) ==
    /\ At(t, "idle") /\ Fault
    /\ reported' = [reported EXCEPT ![t] = NoUser]
    /\ Goto(t, "read")
    /\ UNCHANGED <<zexLast, book, locked, next, view>>

Acquire(t) ==
    /\ At(t, "lock") /\ ProcessOf[t] \notin locked
    /\ locked' = locked \cup {ProcessOf[t]}
    /\ Goto(t, "last")
    /\ UNCHANGED <<zexLast, book, faults, reported, next, view>>

Release(t) == locked' = locked \ {ProcessOf[t]}

\* Mutant: the ids are taken to begin at 1.
FirstToComputeFromOne == IF book = {} THEN 1 ELSE Max(book) + 1

\* Mutant: the last user again.
FirstToComputeAgain == IF book = {} THEN 0 ELSE Max(book)

\* get_last_user_id() + 1, or 0 on UserNotExists.
FirstToCompute == IF book = {} THEN 0 ELSE Max(book) + 1

\* The range of users without an address; nothing to do if it is empty.
ReadLast(t) ==
    /\ At(t, "last")
    /\ next' = [next EXCEPT ![t] = FirstToCompute]
    /\ IF FirstToCompute > reported[t]
       THEN Goto(t, "read") /\ Release(t)
       ELSE Goto(t, "insert") /\ UNCHANGED locked
    /\ UNCHANGED <<zexLast, book, faults, reported, view>>

\* insert_many, one document.
InsertOne(t) ==
    /\ At(t, "insert") /\ next[t] \notin book
    /\ book' = book \cup {next[t]}
    /\ next' = [next EXCEPT ![t] = @ + 1]
    /\ IF next[t] = reported[t]
       THEN Goto(t, "read") /\ Release(t)
       ELSE UNCHANGED <<pc, locked>>
    /\ UNCHANGED <<zexLast, faults, reported, view>>

\* The tasks of process p start afresh: its main ended, docker restarts it.
Restart(p) ==
    /\ pc' = [t \in Task |-> IF ProcessOf[t] = p THEN "idle" ELSE pc[t]]
    /\ reported' =
         [t \in Task |-> IF ProcessOf[t] = p THEN NoUser ELSE reported[t]]
    /\ locked' = locked \ {p}
    /\ UNCHANGED <<zexLast, book, next, view>>

\* Mutant: a duplicate is skipped and the call returns.
DuplicateSkipped(t) ==
    /\ At(t, "insert") /\ next[t] \in book
    /\ Goto(t, "read") /\ Release(t)
    /\ UNCHANGED <<zexLast, book, faults, reported, next, view>>

\* A document another process inserted first: BulkWriteError is not caught,
\* the lock is released and the process's main ends.
Duplicate(t) ==
    /\ At(t, "insert") /\ next[t] \in book
    /\ Restart(ProcessOf[t])
    /\ UNCHANGED faults

Crash(p) ==
    /\ \E t \in Task : ProcessOf[t] = p /\ ~At(t, "idle")
    /\ Fault
    /\ Restart(p)

ReadBook(t) ==
    /\ At(t, "read")
    /\ view' = [view EXCEPT ![t] = book]
    /\ Goto(t, "idle")
    /\ UNCHANGED <<zexLast, book, faults, locked, reported, next>>

Work(t) ==
    \/ AskZex(t) \/ Acquire(t) \/ ReadLast(t) \/ InsertOne(t)
    \/ Duplicate(t) \/ ReadBook(t)

Next ==
    \/ Register
    \/ \E t \in Task : Work(t) \/ ZexFails(t)
    \/ \E p \in Process : Crash(p)

Spec == Init /\ [][Next]_vars

\* Each task runs; the lock is handed over in the order of the waiters.
FairSpec ==
    /\ Spec
    /\ \A t \in Task : WF_vars(Work(t)) /\ SF_vars(Acquire(t))

-----------------------------------------------------------------------------
\* The ids in the collection have no gap below them, though processes insert
\* at the same time and die between two documents: the next pass of any of
\* them takes over at the right user (get_last_user_id).
NoGap == \A u \in book : \A v \in User : v < u => v \in book

\* A task that read the book after Zex answered sees an address for every
\* user of the answer: no deposit of a user Zex had told of is overlooked.
ViewCoversReported ==
    \A t \in Task : At(t, "idle") =>
        \A u \in User : u <= reported[t] => u \in view[t]

\* Every user of Zex gets an address.
UsersGetAddresses == \A u \in User : (u <= zexLast) ~> (u \in book)
=============================================================================
