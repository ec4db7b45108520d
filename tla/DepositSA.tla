------------------------------ MODULE DepositSA ------------------------------
(***************************************************************************)
(* deposit/sa.py, the signature aggregator of deposits, with the           *)
(* validators' check of a batch (validator/deposit.py) and Zex's end of    *)
(* the delivery.                                                           *)
(*                                                                         *)
(* A batch of FINALIZED deposits is shown to the validators, who look the  *)
(* transactions up again and sign those they accept; the signed list is    *)
(* posted to Zex and written back as VERIFIED (or REJECTED), and what is   *)
(* still FINALIZED of the batch becomes REORG.  The validators must agree  *)
(* on one hash and pyfrost fails otherwise, so one reading of the chain    *)
(* stands for all of them.                                                 *)
(***************************************************************************)
EXTENDS DepositFinalizer

CONSTANT SaLimit  \* SA_TRANSACTIONS_BATCH_SIZE

ASSUME SaAssumption == SaLimit \in Nat \ {0}

VARIABLES
    saPc,      \* "idle", "sign", "send" or "record"
    saBatch,   \* txs_hash
    saNumber,  \* finalized_block_number: the block of the batch's last deposit
    saSigned,  \* <<transfer, block>> of the deposits signed, not yet recorded
    sends      \* history: posts of each transfer that reached Zex

saVars == <<saPc, saBatch, saNumber, saSigned, sends>>

SaTypeOK ==
    /\ saPc \in {"idle", "sign", "send", "record"}
    /\ saBatch \in SUBSET Tx
    /\ saNumber \in Nat
    /\ saSigned \in SUBSET (Tx \X Nat)
    /\ sends \in [Tx -> Nat]
    /\ saPc = "idle" => saBatch = {}
    /\ saPc \in {"idle", "sign"} => saSigned = {}

SaInit ==
    /\ saPc = "idle"
    /\ saBatch = {} /\ saNumber = 0 /\ saSigned = {}
    /\ sends = [t \in Tx |-> 0]

-----------------------------------------------------------------------------
\* The first SaLimit records by block number; ties fall either way.
FirstByBlock(S) ==
    {B \in SUBSET S :
        /\ Cardinality(B) = MinOf(SaLimit, Cardinality(S))
        /\ \A t \in B, u \in S \ B : blk[t] <= blk[u]}

SaFind ==
    /\ saPc = "idle"
    /\ WithStatus("finalized") # {}
    /\ \E B \in FirstByBlock(WithStatus("finalized")) : \E last \in B :
         /\ \A t \in B : blk[t] <= blk[last]
         /\ saBatch' = B /\ saNumber' = blk[last]
    /\ saPc' = "sign"
    /\ UNCHANGED <<saSigned, sends, book, store, chainVars, faults>>

\* Mutant: the validators sign what they are asked to sign.
SaSignUnchecked ==
    /\ saPc = "sign"
    /\ RefreshBook
    /\ \E h \in Latest :
         /\ saNumber <= FinalizedNumber(h)
         /\ saSigned' = {<<t, blk[t]>> : t \in saBatch}
    /\ saPc' = "send"
    /\ UNCHANGED <<saBatch, saNumber, sends, store, chainVars, faults>>

\* The validators answer SUCCESSFUL: the SA's number is finalized for them
\* and every transaction is in a block.  They sign the transfers that are
\* final, to a known address and successful.
SaSign ==
    /\ saPc = "sign"
    /\ RefreshBook
    /\ \A t \in saBatch : where[t] # 0
    /\ \E h \in Latest :
         /\ saNumber <= FinalizedNumber(h)
         /\ saSigned' =
              {<<t, where[t]>> : t \in
                 {u \in saBatch : /\ where[u] <= FinalizedNumber(h)
                                  /\ u \in book'
                                  /\ TransactionSuccessful(u)}}
    /\ saPc' = "send"
    /\ UNCHANGED <<saBatch, saNumber, sends, store, chainVars, faults>>

\* A validator refuses: NotFinalizedBlockError, or a transaction in no block.
\* The result is not SUCCESSFUL and the batch is looked for again.
SaRefused ==
    /\ saPc = "sign"
    /\ RefreshBook
    /\ \/ \E t \in saBatch : where[t] = 0
       \/ \E h \in Latest : FinalizedNumber(h) < saNumber
    /\ saPc' = "idle" /\ saBatch' = {} /\ saNumber' = 0
    /\ UNCHANGED <<saSigned, sends, store, chainVars, faults>>

\* The post reaches Zex, which credits every deposit of the message.
Post ==
    sends' = [t \in Tx |->
                IF \E p \in saSigned : p[1] = t THEN sends[t] + 1 ELSE sends[t]]

SaDeliver ==
    /\ saPc = "send"
    /\ Post
    /\ saPc' = "record"
    /\ UNCHANGED <<saBatch, saNumber, saSigned, book, store, chainVars, faults>>

\* The post reaches Zex and its answer is lost (ZexAPIError), or the process
\* dies before it records anything.
SaDeliverUnacked ==
    /\ saPc = "send"
    /\ Fault("sa")
    /\ Post
    /\ saPc' = "idle" /\ saBatch' = {} /\ saNumber' = 0 /\ saSigned' = {}
    /\ UNCHANGED <<book, store, chainVars>>

\* upsert_deposits, one of the gathered writes.
SaRecord(p) ==
    /\ saPc = "record" /\ p \in saSigned
    /\ Upsert(p[1], p[2], AcceptedStatus(p[1], "verified"))
    /\ saSigned' = saSigned \ {p}
    /\ UNCHANGED <<saPc, saBatch, saNumber, sends, book, chainVars, faults>>

\* to_reorg_with_tx_hash(FINALIZED): what the validators left out.
SaClean ==
    /\ saPc = "record" /\ saSigned = {}
    /\ ToReorgWithTxHash(saBatch, "finalized")
    /\ saPc' = "idle" /\ saBatch' = {} /\ saNumber' = 0
    /\ UNCHANGED <<saSigned, sends, book, chainVars, faults>>

\* Any other exception or crash, before the post or among the writes.
SaAbort ==
    /\ saPc # "idle"
    /\ Fault("sa")
    /\ saPc' = "idle" /\ saBatch' = {} /\ saNumber' = 0 /\ saSigned' = {}
    /\ UNCHANGED <<sends, book, store, chainVars>>

SaWork ==
    \/ SaFind \/ SaSign \/ SaDeliver
    \/ \E p \in saSigned : SaRecord(p)
    \/ SaClean

SaFault == SaDeliverUnacked \/ SaAbort
=============================================================================
