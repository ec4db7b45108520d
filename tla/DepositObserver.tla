--------------------------- MODULE DepositObserver ---------------------------
(***************************************************************************)
(* deposit/observer.py: scan the blocks after the saved cursor, record the *)
(* transfers to deposit addresses as PENDING, save the cursor.             *)
(*                                                                         *)
(* One pass of the loop is ObserverStart, an ObserverReadBlock per block   *)
(* (the tasks of filter_blocks run concurrently), an ObserverAccept per    *)
(* transfer read (get_accepted_deposits), an ObserverInsert per deposit    *)
(* (gathered by insert_deposits_if_not_exists), ObserverSave.  The work in *)
(* progress is in obsTo, obsBook, obsTodo, obsSeen and obsFound, which a   *)
(* crash loses; lastObserved is in the database.                           *)
(***************************************************************************)
EXTENDS ChainEnvironment, DepositStore

CONSTANTS
    BatchBlocks,  \* ChainConfig.batch_block_size
    ScanFaults    \* whether a scan may raise (a node's error, a ValueError)

ASSUME ObserverAssumption ==
    BatchBlocks \in Nat \ {0} /\ ScanFaults \in BOOLEAN

VARIABLES
    lastObserved,  \* chain.last_observed_block in the database
    book,          \* transfers whose recipient is in the address collection
    origin,        \* history: the block below the first range ever saved
    obsLast,       \* the process's own last_observed_block
    obsTo,         \* to_block of the pass under way, NoBlock if none is
    obsBook,       \* accepted_addresses: the book when the pass began
    obsTodo,       \* blocks it has yet to read
    obsSeen,       \* <<transfer, block>> read and not yet looked at
    obsFound       \* accepted deposits not yet inserted

cursor == <<lastObserved, origin>>
scan == <<obsTo, obsBook, obsTodo, obsSeen, obsFound>>
observerVars == <<lastObserved, book, origin, obsLast, scan>>

ObserverTypeOK ==
    /\ lastObserved \in Nat \cup {NoBlock} /\ origin \in Nat \cup {NoBlock}
    /\ obsLast \in Nat \cup {NoBlock} /\ obsTo \in Nat \cup {NoBlock}
    /\ book \in SUBSET Tx /\ obsBook \in SUBSET Tx
    /\ obsTodo \in SUBSET Nat
    /\ obsSeen \in SUBSET (Tx \X Nat) /\ obsFound \in SUBSET (Tx \X Nat)
    /\ obsTo = NoBlock =>
         obsBook = {} /\ obsTodo = {} /\ obsSeen = {} /\ obsFound = {}

ObserverInit ==
    /\ lastObserved = NoBlock /\ origin = NoBlock
    /\ book = {}
    /\ obsLast = NoBlock /\ obsTo = NoBlock /\ obsBook = {}
    /\ obsTodo = {} /\ obsSeen = {} /\ obsFound = {}

-----------------------------------------------------------------------------
\* insert_new_address_to_db, then get_active_address: all the users of Zex,
\* or the addresses already there when Zex does not answer.
RefreshBook == book' = Tx \/ (ScanFaults /\ book' = book)

\* last_observed_block or (latest_block - 1): None and 0 are both false.
ScanBase(latest) == IF obsLast \in {NoBlock, 0} THEN latest - 1 ELSE obsLast

BeginScan(base, to) ==
    /\ obsLast' = base
    /\ obsTo' = to
    /\ obsTodo' = (base + 1)..to
    /\ RefreshBook /\ obsBook' = book'
    /\ UNCHANGED <<cursor, obsSeen, obsFound, store, chainVars, faults>>

\* Mutant: the test that the range is not empty or backwards is dropped.
ObserverStartAnyRange ==
    /\ obsTo = NoBlock
    /\ \E latest \in Latest :
         LET base == ScanBase(latest)
         IN  BeginScan(base, MinOf(latest, base + BatchBlocks))

\* base < to is both the "already observed" sleep and the "last_observed_block
\* is bigger" continue.
ObserverStart ==
    /\ obsTo = NoBlock
    /\ \E latest \in Latest :
         LET base == ScanBase(latest)
             to == MinOf(latest, base + BatchBlocks)
         IN  base < to /\ BeginScan(base, to)

\* extract_transfer_from_block of one block.
ObserverReadBlock(b) ==
    /\ b \in obsTodo
    /\ obsTodo' = obsTodo \ {b}
    /\ obsSeen' = obsSeen \cup {<<t, b>> : t \in BlockTx(b)}
    /\ UNCHANGED <<cursor, book, obsLast, obsTo, obsBook, obsFound>>
    /\ UNCHANGED <<store, chainVars, faults>>

\* The loop of get_accepted_deposits: recipient known, receipt successful.
ObserverAccept(p) ==
    /\ obsTodo = {} /\ p \in obsSeen
    /\ obsSeen' = obsSeen \ {p}
    /\ obsFound' = IF p[1] \in obsBook /\ TransactionSuccessful(p[1])
                   THEN obsFound \cup {p} ELSE obsFound
    /\ UNCHANGED <<cursor, book, obsLast, obsTo, obsBook, obsTodo>>
    /\ UNCHANGED <<store, chainVars, faults>>

ObserverInsert(p) ==
    /\ obsTodo = {} /\ obsSeen = {} /\ p \in obsFound
    /\ InsertIfNotExists(p[1], p[2], AcceptedStatus(p[1], "pending"))
    /\ obsFound' = obsFound \ {p}
    /\ UNCHANGED <<cursor, book, obsLast, obsTo, obsBook, obsTodo, obsSeen>>
    /\ UNCHANGED <<chainVars, faults>>

SaveCursor ==
    /\ lastObserved' = obsTo /\ obsLast' = obsTo
    /\ origin' = IF lastObserved = NoBlock THEN obsLast ELSE origin

\* Mutant: the cursor is saved before the deposits found are inserted.
ObserverSaveEarly ==
    /\ obsTo # NoBlock /\ obsTodo = {} /\ obsSeen = {} /\ lastObserved # obsTo
    /\ SaveCursor
    /\ obsTo' = IF obsFound = {} THEN NoBlock ELSE obsTo
    /\ obsBook' = IF obsFound = {} THEN {} ELSE obsBook
    /\ UNCHANGED <<book, obsTodo, obsSeen, obsFound, store, chainVars, faults>>

\* upsert_chain_last_observed_block
ObserverSave ==
    /\ obsTo # NoBlock /\ obsTodo = {} /\ obsSeen = {} /\ obsFound = {}
    /\ SaveCursor
    /\ obsTo' = NoBlock /\ obsBook' = {}
    /\ UNCHANGED <<book, obsTodo, obsSeen, obsFound, store, chainVars, faults>>

\* A call of explorer raises: the handlers log it, nothing is inserted, and
\* the loop goes on to save the cursor.
ObserverScanFails ==
    /\ ScanFaults /\ Fault("observer")
    /\ obsTodo # {} \/ obsSeen # {}
    /\ obsTodo' = {} /\ obsSeen' = {} /\ obsFound' = {}
    /\ UNCHANGED <<cursor, book, obsLast, obsTo, obsBook, store, chainVars>>

\* The process dies (or a call outside the try raises) and is restarted: the
\* cursor is read again.
ObserverCrash ==
    /\ Fault("observer")
    /\ obsTo # NoBlock
    /\ obsLast' = lastObserved
    /\ obsTo' = NoBlock /\ obsBook' = {}
    /\ obsTodo' = {} /\ obsSeen' = {} /\ obsFound' = {}
    /\ UNCHANGED <<cursor, book, store, chainVars>>

ObserverWork ==
    \/ ObserverStart
    \/ \E b \in obsTodo : ObserverReadBlock(b)
    \/ \E p \in obsSeen : ObserverAccept(p)
    \/ \E p \in obsFound : ObserverInsert(p)
    \/ ObserverSave

ObserverFault == ObserverScanFails \/ ObserverCrash
=============================================================================
