---------------------------- MODULE BtcLifecycle ----------------------------
(***************************************************************************)
(* What the processes promise of the outputs of a Bitcoin block, without   *)
(* saying how: the life of their records and what Zex was told of.         *)
(*                                                                         *)
(*   none -> pending -> finalized -> verified                              *)
(*                  \-> reorg    \-> reorg                                 *)
(*                                                                         *)
(* The records are of outputs, but Zex is told of whole transactions: of   *)
(* an output without a record too, if another of its transaction is        *)
(* finalized.  An output Zex was told of is verified in place of any       *)
(* record of its transaction; the last record of one never goes.           *)
(***************************************************************************)
CONSTANTS
    Output,  \* outputs to users
    TxOf     \* transaction of each

VARIABLES
    status,  \* status of the record of each output
    told     \* outputs Zex was told of

lifecycleVars == <<status, told>>

LifecycleInit ==
    /\ status = [o \in Output |-> "none"]
    /\ told = {}

Move(S, new) == status' = [o \in Output |-> IF o \in S THEN new ELSE status[o]]

SameTx(o) == {p \in Output : TxOf[p] = TxOf[o]}

\* The observer sees an output.
Record(o) ==
    /\ status[o] = "none"
    /\ Move({o}, "pending")
    /\ UNCHANGED told

\* The finalizer's two updates.
Finalize(S) ==
    /\ \A o \in S : status[o] = "pending"
    /\ Move(S, "finalized")
    /\ UNCHANGED told

Discard(S) ==
    /\ \A o \in S : status[o] = "pending"
    /\ Move(S, "reorg")
    /\ UNCHANGED told

\* Zex is told of transactions, each with a finalized output.
Tell(S) ==
    /\ \A o \in S :
           /\ SameTx(o) \subseteq S
           /\ \E p \in SameTx(o) : status[p] = "finalized"
    /\ told' = told \cup S
    /\ UNCHANGED status

\* The record of p becomes that of o; without one o would be inserted, but
\* there is one.
Verify(o, p) ==
    /\ o \in told /\ p \in SameTx(o)
    /\ status[p] # "none" /\ (p = o \/ status[o] = "none")
    /\ status' = [status EXCEPT ![p] = "none", ![o] = "verified"]
    /\ UNCHANGED told

\* What is finalized of transactions whose outputs Zex was told of.
Drop(S) ==
    /\ S \subseteq told /\ \A o \in S : status[o] = "finalized"
    /\ Move(S, "reorg")
    /\ UNCHANGED told

LifecycleNext ==
    \/ \E o \in Output : Record(o) \/ \E p \in Output : Verify(o, p)
    \/ \E S \in SUBSET Output : Finalize(S) \/ Discard(S) \/ Tell(S) \/ Drop(S)

LifecycleSpec == LifecycleInit /\ [][LifecycleNext]_lifecycleVars
=============================================================================
