---------------------------- MODULE DepositLosses ----------------------------
(***************************************************************************)
(* Which deposits Zexporta may lose, and by which causes only.             *)
(*                                                                         *)
(* DepositPipeline with two history variables: each action is the old one  *)
(* together with its entries in them.                                      *)
(*   - moved: the transfers of which a reorganisation changed the block or *)
(*     the receipt after the observer had gone by;                         *)
(*   - missed: others that a process passed by at some step: their block   *)
(*     was in a scan that raised; or Zex was silent and the recipient not  *)
(*     in the book; or the observer inserted them behind the finalizer, or *)
(*     the finalizer took a batch around their block without it.           *)
(* No action reads the histories.                                          *)
(***************************************************************************)
EXTENDS DepositPipeline

VARIABLES moved, missed

lossVars == <<vars, moved, missed>>

LossInit == Init /\ moved = {} /\ missed = {}

\* Blocks the observer reads in this pass, or is past.
Scanned(b) == b # 0 /\ (b <= obsTo \/ b <= lastObserved)

\* In a reorganisation: t is not where, or not what, the observer saw.
Moved(t) ==
    /\ \/ where'[t] # where[t]
       \/ (t \in reverted) # (t \in reverted')
    /\ status[t] # NoRecord \/ Scanned(where[t]) \/ Scanned(where'[t])

Unread(t) == status[t] = NoRecord /\ where[t] \in (obsLast + 1)..obsTo

UnknownRecipient(t) == t \notin obsBook /\ \E p \in obsSeen : p[1] = t

\* The batch under way will promote t's record: its hashes have t, or will.
Promotable(t) ==
    /\ finPc = "fetch" /\ blk[t] <= finNum
    /\ blk[t] \in finUnread \/ t \in finHashes

\* The batch will discard it: min(blocks_to_check) <= block <= max(...).
Doomed(t) ==
    /\ finBatch # {} /\ status[t] = "pending"
    /\ Min(finBatch) <= blk[t] /\ blk[t] <= Max(finBatch)
    /\ ~Promotable(t)

\* The observer's record comes too late for the batch under way.
Late(t) == status[t] # "pending" /\ Doomed(t)'

\* The finalizer takes a batch whose blocks surround that of the deposit.
Surrounded(t) == finPc # "fetch" /\ finPc' = "fetch" /\ Doomed(t)'

Move(S) == moved' = moved \cup S /\ missed' = missed \ S
Miss(S) == missed' = missed \cup (S \ moved) /\ UNCHANGED moved

LossObserver ==
    /\ UNCHANGED <<finalizerVars, saVars>>
    /\ \/ ObserverWork /\ Miss({t \in Tx : UnknownRecipient(t) \/ Late(t)})
       \/ ObserverScanFails /\ Miss({t \in Tx : Unread(t)})
       \/ ObserverCrash /\ Miss({})

LossNext ==
    \/ Chain /\ Move({t \in Tx : Moved(t)})
    \/ LossObserver
    \/ Finalizer /\ Miss({t \in Tx : Surrounded(t)})
    \/ Sa /\ Miss({})

LossSpec == LossInit /\ [][LossNext]_lossVars /\ Fairness

-----------------------------------------------------------------------------
\* In a settled block the cursor has passed, executed, and yet without a
\* record or called reorganised away.
Lost(t) ==
    /\ lastObserved # NoBlock /\ origin < where[t] /\ where[t] <= lastObserved
    /\ where[t] <= Settled /\ t \notin reverted
    /\ status[t] \in {NoRecord, "reorg"}

\* Crashes, old heads, resends and the SA's cleaning lose no deposit, nor does
\* a batch of the finalizer that had its block to check and found the record
\* before the promotion: each one that is lost was moved or missed.
LossIsExplained == \A t \in Tx : Lost(t) => t \in moved \cup missed

\* What Zex was told of is marked as reorganised away only after a
\* reorganisation moved it and a post went unanswered: the validators sign it
\* a first time, and by an older head, in the block it was moved to, not a
\* second time (SaClean; the vault depositor will not collect it).
DiscardedCreditIsExplained ==
    \A t \in Credited :
        status[t] = "reorg" => t \in moved /\ faults["sa"] > 0

\* A transfer the observer's range reached, in a block that the chain keeps
\* and finalizes.
Payable(t) ==
    /\ lastObserved # NoBlock /\ origin < where[t] /\ where[t] <= Settled
    /\ where[t] <= MaxHead - HeadLag - Conf
    /\ t \notin reverted /\ t \notin Oversized

Recorded(t) ==
    status[t] \in {"pending", "finalized"} /\ blk[t] <= MaxHead - HeadLag - Conf

\* End to end: every deposit that is payable is credited by Zex unless one of
\* it was moved or missed, and every other one that has a record is decided;
\* observer, finalizer and SA do not stall, however their steps interleave.
DepositEnds ==
    \A t \in Tx :
        Payable(t) \/ Recorded(t) ~>
            \/ sends[t] > 0
            \/ /\ status[t] \notin {"pending", "finalized"}
               /\ Payable(t) => t \in moved \cup missed
=============================================================================
