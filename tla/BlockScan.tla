------------------------------ MODULE BlockScan ------------------------------
(***************************************************************************)
(* What becomes of one block in a scan of the Bitcoin observer: its pages  *)
(* are read (BlockPages), then get_accepted_deposits walks through its     *)
(* transfers, looks at the recipient, at the decimals of the token         *)
(* (TokenCache) and asks for the transaction again.  Validators' workers   *)
(* at the same time decode transactions of an EVM chain (TransferDecoder)  *)
(* and look up their tokens, or those of other chains.  An exception       *)
(* anywhere ends the scan with nothing; what the observer does then is in  *)
(* DepositObserver.                                                        *)
(***************************************************************************)
EXTENDS BlockPages, TokenCache, TransferDecoder

CONSTANTS
    Observer,   \* the caller that scans; the others are validators' workers
    Native,     \* its chain's only token
    Accounts,   \* transactions that pay a deposit address
    EvmTx,      \* transactions of an EVM chain, to deposit addresses or not
    NoTx

ASSUME ScanAssumption ==
    /\ Observer \in Caller /\ Native \in Token /\ Accounts \subseteq STRING
    /\ NoTx \notin EvmTx /\ \A tx \in EvmTx : tx.input \in Seq(Digit)
    /\ \A tx \in EvmTx :
           _parse_transfer(tx).result = "transfer" => _parse_transfer(tx).token \in Token

VARIABLES
    todo,       \* transfers get_accepted_deposits has yet to look at
    accepted,   \* its result
    inHand      \* EVM transaction a validator's worker has just read, or NoTx

vars == <<chainVars, readVars, tokenVars, todo, accepted, inHand>>

TypeOK ==
    /\ PagesTypeOK /\ TokenTypeOK
    /\ todo \in Seq(STRING) /\ accepted \in Seq(STRING)
    /\ inHand \in [Caller -> EvmTx \cup {NoTx}]
    /\ todo # <<>> => readPc = "done"
    /\ lookup[Observer] # "idle" => todo # <<>>

Init ==
    /\ PagesInit /\ TokenInit /\ todo = <<>> /\ accepted = <<>>
    /\ inHand = [c \in Caller |-> NoTx]

-----------------------------------------------------------------------------
ScanBegin ==
    /\ todo = <<>>
    /\ Begin
    /\ accepted' = <<>>
    /\ UNCHANGED <<tokenVars, todo, inHand>>

\* extract_transfer_from_block returns with the last page.
ScanRead ==
    /\ ReadPage
    /\ todo' = IF readPc' = "done" THEN allTxs' ELSE <<>>
    /\ UNCHANGED <<tokenVars, accepted, inHand>>

ScanReadRaises ==
    /\ RequestRaises
    /\ UNCHANGED <<tokenVars, todo, accepted, inHand>>

\* The transfer goes to no deposit address.
ScanSkip ==
    /\ todo # <<>> /\ Head(todo) \notin Accounts
    /\ todo' = Tail(todo)
    /\ UNCHANGED <<chainVars, readVars, tokenVars, accepted, inHand>>

ScanLookUp ==
    /\ todo # <<>> /\ Head(todo) \in Accounts
    /\ Start(Observer, Native)
    /\ UNCHANGED <<chainVars, readVars, todo, accepted, inHand>>

ScanAsks ==
    /\ Miss(Observer) \/ Ask(Observer)
    /\ UNCHANGED <<chainVars, readVars, todo, accepted, inHand>>

\* The decimals are there; is_transaction_successful finds the transaction
\* (if its request raises, it is as if a call of the lookup had).
ScanAccepts ==
    /\ Hit(Observer) \/ Insert(Observer)
    /\ todo' = Tail(todo)
    /\ accepted' = Append(accepted, Head(todo))
    /\ UNCHANGED <<chainVars, readVars, inHand>>

\* The lookup raises, and with it get_accepted_deposits and explorer.
ScanRaises ==
    /\ InsertRefused(Observer) \/ CallFails(Observer)
    /\ Abandon
    /\ todo' = <<>> /\ accepted' = <<>>
    /\ UNCHANGED inHand

EvmTransfer == [tx \in EvmTx |-> _parse_transfer(tx)]

\* get_transfer_by_tx_hash of a transaction in the SA's batch; what is no
\* transfer raises, and the request is answered with an error.
ValidateEvm(c) ==
    \E tx \in EvmTx :
        /\ inHand' = [inHand EXCEPT ![c] = tx]
        /\ IF EvmTransfer[tx].result = "transfer" THEN Start(c, EvmTransfer[tx].token)
           ELSE lookup[c] = "idle" /\ UNCHANGED tokenVars

\* get_accepted_deposits at a transfer of any chain.
ValidateToken(c) ==
    /\ \/ Start(c, Native)
       \/ Hit(c) \/ Miss(c) \/ Ask(c) \/ Insert(c)
       \/ InsertRefused(c) \/ CallFails(c)
    /\ inHand' = [inHand EXCEPT ![c] = NoTx]

Validate(c) ==
    /\ ValidateEvm(c) \/ ValidateToken(c)
    /\ UNCHANGED <<chainVars, readVars, todo, accepted>>

BlockReplaced == Replace /\ UNCHANGED <<tokenVars, todo, accepted, inHand>>

ScanWork ==
    \/ ScanRead \/ ScanReadRaises
    \/ ScanSkip \/ ScanLookUp \/ ScanAsks \/ ScanAccepts
    \/ InsertRefused(Observer) /\ ScanRaises

Next ==
    \/ ScanBegin \/ ScanWork \/ ScanRaises \/ BlockReplaced
    \/ \E c \in Caller \ {Observer} : Validate(c)

Spec == Init /\ [][Next]_vars

\* Each request ends, by its timeout at the latest, and the task runs.
FairSpec == Spec /\ WF_vars(ScanWork)

-----------------------------------------------------------------------------
\* The transactions of b to deposit addresses.
OurTxs(b) ==
    LET upTo[i \in 0..Len(b)] ==
            IF i = 0 THEN <<>>
            ELSE IF b[i] \in Accounts THEN Append(upTo[i - 1], b[i]) ELSE upTo[i - 1]
    IN  upTo[Len(b)]

\* A scan whose pages are all of one block returns that block's transactions
\* to deposit addresses, each once and in their order, for every length of
\* the last page and whatever others do to the cache (get_block_by_identifier,
\* get_accepted_deposits).
ScanIsTheBlock ==
    (readPc = "done" /\ todo = <<>> /\ Cardinality(seen) = 1)
        => \E b \in seen : accepted = OurTxs(b)

\* Zex is told of a transfer as the token's contract made it, and never of
\* more than the vault can collect, whatever the length of the input
\* (decode_transfer_tx).
InputIsReadAsMoved ==
    \A c \in Caller : inHand[c] # NoTx => ReadAsMoved(inHand[c].input)

\* The race costs a caller at most one failure per token, after which it
\* finds the token: it cannot loop on it (get_token_decimals).
RefusedOncePerToken ==
    \A c \in Caller, t \in Token : refused[c][t] <= 1

\* The scan of a block ends, with its deposits or by an exception, whatever
\* blocks take each other's place and whatever others insert.
Scanning == readPc = "read" \/ todo # <<>>
ScanEnds == Scanning ~> ~Scanning
=============================================================================
