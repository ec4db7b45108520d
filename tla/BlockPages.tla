----------------------------- MODULE BlockPages -----------------------------
(***************************************************************************)
(* BTCAnkrAsyncClient.get_block_by_identifier: a block's transactions,     *)
(* read page by page from the indexer, by the block's height.  Each page   *)
(* is a request of its own, so the block at the height can be replaced     *)
(* between two of them.  BlockScan composes the read with what the         *)
(* observer does with the block.                                           *)
(***************************************************************************)
EXTENDS Integers, Sequences, FiniteSets

CONSTANTS
    Block,            \* blocks that may stand at the height: sequences of
                      \* transactions
    PageSize,         \* the indexer's itemsOnPage
    MaxReplacements   \* bound: reorganisations during a read

ASSUME PagesAssumption ==
    /\ Block \subseteq Seq(STRING) /\ <<>> \notin Block
    /\ PageSize \in Nat \ {0} /\ MaxReplacements \in Nat

VARIABLES
    standing,      \* the block at the height
    replacements,  \* replacements since the read began
    readPc,        \* "idle", "read", "done" or "raised"
    page,          \* next page to ask for
    allTxs,        \* all_txs
    seen           \* history: blocks the pages of this read came from

chainVars == <<standing, replacements>>
readVars == <<readPc, page, allTxs, seen>>

PagesTypeOK ==
    /\ standing \in Block
    /\ replacements \in 0..MaxReplacements
    /\ readPc \in {"idle", "read", "done", "raised"}
    /\ page \in Nat \ {0}
    /\ allTxs \in Seq(STRING)
    /\ seen \subseteq Block

PagesInit ==
    /\ standing \in Block
    /\ replacements = 0 /\ readPc = "idle"
    /\ page = 1 /\ allTxs = <<>> /\ seen = {}

Smaller(m, n) == IF m < n THEN m ELSE n

TotalPages(b) == (Len(b) + PageSize - 1) \div PageSize

\* The indexer's answer: a page past the last one is the last one.
PageOf(b, n) ==
    LET shown == Smaller(n, TotalPages(b))
    IN  SubSeq(b, (shown - 1) * PageSize + 1, Smaller(shown * PageSize, Len(b)))

\* Mutant: one page too few.
LastPageShort(b, n) == n + 1 >= TotalPages(b)

LastPage(b, n) == n >= TotalPages(b)

NextPage == page + 1

-----------------------------------------------------------------------------
\* The read of the next block, whichever stands at its height by now.
Begin ==
    /\ readPc # "read" /\ readPc' = "read"
    /\ page' = 1 /\ allTxs' = <<>> /\ seen' = {}
    /\ replacements' = 0
    /\ standing' \in Block

ReadPage ==
    /\ readPc = "read"
    /\ allTxs' = allTxs \o PageOf(standing, page)
    /\ seen' = seen \cup {standing}
    /\ IF LastPage(standing, page)
       THEN readPc' = "done" /\ UNCHANGED page
       ELSE page' = NextPage /\ UNCHANGED readPc
    /\ UNCHANGED chainVars

\* An exception leaves the read; nothing of it is kept.
Abandon ==
    /\ readPc' = "raised" /\ allTxs' = <<>>
    /\ UNCHANGED <<chainVars, page, seen>>

\* Mutant: the read starts over when a request raises.
RequestRetries ==
    /\ readPc = "read"
    /\ page' = 1 /\ allTxs' = <<>>
    /\ UNCHANGED <<chainVars, readPc, seen>>

\* _request raises, for an HTTP status, the connection, a timeout, an answer
\* that is no JSON or has an error in it.
RequestRaises == readPc = "read" /\ Abandon

Replace ==
    /\ readPc = "read" /\ replacements < MaxReplacements
    /\ replacements' = replacements + 1
    /\ standing' \in Block \ {standing}
    /\ UNCHANGED readVars
=============================================================================
