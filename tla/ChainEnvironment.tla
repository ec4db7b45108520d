-------------------------- MODULE ChainEnvironment --------------------------
(***************************************************************************)
(* One chain as the JSON-RPC nodes show it to the clients, and the budget  *)
(* of faults (crashes, failed calls) each process may meet.                *)
(*                                                                         *)
(* Block b holds the transfers t with where[t] = b; where[t] = 0 means t   *)
(* is in no block.  A transaction may succeed in one block and revert in   *)
(* the block that replaces it.  A reorganisation replaces up to ReorgDepth *)
(* of the last blocks by as many others, so blocks up to Settled never     *)
(* change.  A node may answer with a head up to HeadLag blocks old.        *)
(***************************************************************************)
EXTENDS DepositTypes

CONSTANTS
    Conf,        \* ChainConfig.finalize_block_count
    ReorgDepth,  \* how many of the last blocks can still be replaced
    HeadLag,     \* how far a node's head may be behind the chain's
    MaxHead,     \* bound: the chain stops growing there
    MaxFaults    \* bound: faults each process may meet

Process == {"observer", "finalizer", "sa"}

ASSUME ChainAssumption ==
    /\ Conf \in Nat /\ ReorgDepth \in Nat /\ HeadLag \in Nat
    /\ MaxHead \in Nat
    /\ MaxFaults \in [Process -> Nat]

VARIABLES
    head,      \* number of the last block
    where,     \* block number of each transfer
    reverted,  \* transfers whose transaction failed in its block
    faults     \* faults met so far by each process

chainVars == <<head, where, reverted>>

Settled == head - ReorgDepth
Unsettled == {t \in Tx : where[t] = 0 \/ where[t] > Settled}

ChainTypeOK ==
    /\ head \in Nat /\ head >= 1
    /\ where \in [Tx -> Nat] /\ \A t \in Tx : where[t] <= head
    /\ reverted \in SUBSET Fragile
    /\ faults \in [Process -> Nat]

ChainInit ==
    /\ head = 1
    /\ where = [t \in Tx |-> 0]
    /\ reverted = {}
    /\ faults = [p \in Process |-> 0]

Mine ==
    /\ head < MaxHead
    /\ head' = head + 1
    /\ \E S \in SUBSET {t \in Tx : where[t] = 0} :
         /\ where' = [t \in Tx |-> IF t \in S THEN head + 1 ELSE where[t]]
         /\ \E R \in SUBSET (S \cap Fragile) : reverted' = reverted \cup R
    /\ UNCHANGED faults

Reorg ==
    /\ \E w \in [Unsettled -> {0} \cup {b \in 1..head : b > Settled}] :
         where' = [t \in Tx |-> IF t \in Unsettled THEN w[t] ELSE where[t]]
    /\ \E R \in SUBSET (Unsettled \cap Fragile) :
         reverted' = (reverted \ Unsettled) \cup {t \in R : where'[t] # 0}
    /\ UNCHANGED <<head, faults>>

\* Process p meets a fault, while its budget lasts.
Fault(p) ==
    /\ faults[p] < MaxFaults[p]
    /\ faults' = [faults EXCEPT ![p] = @ + 1]

-----------------------------------------------------------------------------
(* The reads of ChainAsyncClient. *)

\* get_latest_block_number: any head a node may answer with.
Latest == {h \in 1..head : h >= head - HeadLag}

\* Mutant: one block too early.
FinalizedNumberEarly(h) == h - Conf + 1

\* get_finalized_block_number, from the head the node answers with.
FinalizedNumber(h) == h - Conf

\* get_block_tx_hash and extract_transfer_from_block.
BlockTx(b) == {t \in Tx : where[t] # 0 /\ where[t] = b}

\* is_transaction_successful: the receipt exists and says so.
TransactionSuccessful(t) == where[t] # 0 /\ t \notin reverted
=============================================================================
