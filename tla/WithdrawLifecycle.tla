-------------------------- MODULE WithdrawLifecycle --------------------------
(***************************************************************************)
(* What the withdraw side promises of its records: a request Zex made is   *)
(* recorded once, ends once, and is called successful only when the vault  *)
(* has paid it.                                                            *)
(***************************************************************************)
EXTENDS Integers

CONSTANT MaxWithdraws  \* bound: requests Zex makes

Nonce == 0..(MaxWithdraws - 1)

VARIABLES
    requested,  \* nonces of the withdraws Zex has made
    wstatus,    \* status of each record, "none" if there is none
    paid        \* nonces the vault has paid

withdrawLifecycleVars == <<requested, wstatus, paid>>

WithdrawLifecycleInit ==
    /\ requested = {}
    /\ wstatus = [n \in Nonce |-> "none"]
    /\ paid = {}

Request(n) ==
    /\ n \notin requested
    /\ requested' = requested \cup {n}
    /\ UNCHANGED <<wstatus, paid>>

RecordRequest(n) ==
    /\ n \in requested /\ wstatus[n] = "none"
    /\ wstatus' = [wstatus EXCEPT ![n] = "pending"]
    /\ UNCHANGED <<requested, paid>>

Pay(n) ==
    /\ n \in requested \ paid
    /\ paid' = paid \cup {n}
    /\ UNCHANGED <<requested, wstatus>>

End(n) ==
    /\ wstatus[n] = "pending"
    /\ \/ n \in paid /\ wstatus' = [wstatus EXCEPT ![n] = "successful"]
       \/ wstatus' = [wstatus EXCEPT ![n] = "rejected"]
    /\ UNCHANGED <<requested, paid>>

WithdrawLifecycleNext ==
    \E n \in Nonce : Request(n) \/ RecordRequest(n) \/ Pay(n) \/ End(n)

WithdrawLifecycleSpec ==
    WithdrawLifecycleInit /\ [][WithdrawLifecycleNext]_withdrawLifecycleVars
=============================================================================
