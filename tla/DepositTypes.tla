---------------------------- MODULE DepositTypes ----------------------------
(***************************************************************************)
(* What the deposit processes talk about: transfers to deposit addresses,  *)
(* named by their transaction hash, and the status of a deposit record.    *)
(*                                                                         *)
(* A transfer's data matters to the control in two ways only: whether its  *)
(* transaction can fail in a block (the receipt) and whether its value is  *)
(* above the limit over which get_accepted_deposits rejects a deposit.     *)
(***************************************************************************)
EXTENDS Integers

CONSTANTS
    Tx,         \* transfers to deposit addresses, by transaction hash
    Fragile,    \* those whose transaction may revert in a block
    Oversized   \* those above the value limit

ASSUME TxAssumption == Fragile \subseteq Tx /\ Oversized \subseteq Tx

\* DepositStatus; NoRecord stands for a transfer the collection does not hold.
DepositStatus ==
    {"pending", "finalized", "verified", "successful", "reorg", "rejected"}
NoRecord == "none"

\* Mutant: the status asked for is ignored in favour of the default.
AcceptedStatusDefault(t, depositStatus) ==
    IF t \in Oversized THEN "rejected" ELSE "pending"

\* The status get_accepted_deposits gives a transfer it accepts.
AcceptedStatus(t, depositStatus) ==
    IF t \in Oversized THEN "rejected" ELSE depositStatus

\* What an absent block number is stored as (Python's None).
NoBlock == -1

MinOf(a, b) == IF a <= b THEN a ELSE b
=============================================================================
