# Zexporta in TLA+

Zexporta moves money between chains and Zex, an exchange that keeps its own
ledger. It watches the chains for transfers to the users' deposit addresses,
waits until they are final, has a quorum of validators sign them, tells Zex,
and collects the money into a vault; in the other direction it takes withdraw
requests from Zex, has them signed and pays them out of the vault. It is a
dozen Python processes without any transaction across two documents of their
database: every hard property of it is about what happens between two `await`s.

This directory models those processes, checks them with TLC and proves the
most important properties with TLAPS.

## 1. The system

| component (source) | state it keeps | operations | what is hard |
|---|---|---|---|
| Deposit observer, `deposit/observer.py`, `explorer.py`, `db/chain.py` | `last_observed_block` in the database and in the process | scan a range of blocks, keep the transfers to known addresses, insert them PENDING, save the cursor | scans that raise, a crash between inserts and cursor, nodes with an old head, reorganisations under the scan |
| Deposit finalizer, `deposit/finalizer.py` | none of its own | for the pending blocks below the finalized one: fetch the hashes, promote what is there, discard the rest | three reads and two updates with the observer inserting in between |
| Deposit SA and validators, `deposit/sa.py`, `validator/deposit.py` | none of its own | take the first FINALIZED deposits, have the validators read them again and sign, post to Zex, write back, discard what was left out | lost answers, partial write-back, resends |
| Deposit collection, `db/deposit.py`, `custom_types.py` | one record per transfer: status, block | insert if absent, to_finalized, to_reorg_*, upsert, find by status | find and insert are two calls; Bitcoin has several outputs per hash |
| Vault depositor, `deposit/vault_depositor.py` | none of its own; the account's nonce is the node's | for VERIFIED deposits deploy the user's contract or transfer out of it, wait for receipts, mark SUCCESSFUL | concurrent sends with nonces counted ahead, a failing send that leaves others running, crashes after the broadcast |
| Withdraw observer, `withdraw/observer.py`, `db/withdraw.py` | last nonce in the database | fetch Zex's requests after it, insert them, save it | crash between inserts and nonce, short answers |
| Withdraw SA, `withdraw/sa.py`, `validator/withdraw.py` | none of its own | for each PENDING request: signatures, one transaction to the vault, its receipt | timeouts, refused or replaced transactions, a request paid by a transaction it has given up on |
| Address book, `db/address.py` | one address per user; one `asyncio.Lock` per process and kind of chain | compute and insert the missing addresses before matching transfers | several processes insert the same range; crash in the middle of it |
| Bitcoin deposits and UTXOs, `db/utxo.py`, `clients/btc/client.py` | one UTXO per finalized output | the finalizer's middleware | outputs that share a transaction |
| Explorer and token cache, `explorer.py`, `db/token.py` | decimals of each token | for each transfer of a block: find the decimals, or ask the chain and insert them | two processes at once; one exception ends the scan |
| Validator key store, `validator/node_data_manager.py` | DKG keys in a JSON file and in the memory of five gunicorn workers | set_key, get_key, remove_key | stale memories, saves that meet or are cut short |
| Bitcoin RPC client, `clients/btc/rpc/ankr.py` | none | a block in pages | the block is replaced between two pages |
| EVM client, `clients/evm/client.py`, `clients/evm/transfer_decoder.py` | none | requests, and reading a transaction as a transfer | inputs shorter or longer than their function's parameters |
| Zex API client | none | requests | modelled by what each call may answer, where it is called |
| Test token bot, `bots/transfer_test_token` | last user reached | send a token to the new users of Zex, 14 at a time | stops between broadcast and save, nonces left by an earlier run, a silent Zex |
| Monitoring bot, `bots/monitoring` | none | per period and chain: deposit, compare balances, withdraw, compare balances, tell a chat | equality over one asset for all chains; an exception in the handler that reports one |
| HTTP API, DKG script, encoders, configuration | none, or files written by hand | | not modelled, see 7 |

How they interact: the deposit processes meet only in the deposit collection
and in the chain; the observers and the validators share the address book and
the token cache; the SAs ask the validators over pyfrost; the vault depositor
takes what the deposit SA verified; the bots are users of the whole, and meet in
the balance of the monitoring bot's test user. Nothing is locked across processes. The
unit of atomicity in the models is one database call, one request to a node,
one request to Zex: an action is the code from the end of one `await` to the
end of the next.

What makes each part correct, in words:

- *Deposits.* Zex is told only of transfers that can never leave the chain; of
  each at most once unless the SA failed in the middle; what it was told of is
  discarded only if a reorganisation had moved it before; a transfer is lost
  only by a reorganisation that moved it, with a block whose scan raised, by an
  unknown recipient while Zex was silent, or by a batch of the finalizer that could
  not have it; every other one ends credited.
- *Withdraws.* No request up to the saved nonce lacks a record; a request is
  called successful only if the vault paid it, and called rejected though it
  was paid only if the SA gave up on a transaction of it; every request the
  validators sign ends.
- *Vault.* A deposit is called successful only after a transfer of it was
  mined, and one whose transfer moved nothing is explained.
- *Addresses.* The ids in the collection have no gap, and a task that had Zex's
  answer sees every user of it.
- *Bitcoin.* No transaction goes missing, a finalized output has its UTXO, and
  Zex hears of an output twice only for known causes, and of whole transactions.
- *Keys.* One key per type in the file; a lost key or an unreadable file has
  one of three causes.
- *Scan of a block.* Pages of one block give its deposits, each once and in
  order; the race on a token refuses a process at most once; the scan ends. An
  EVM input is read as the token's contract reads it, or as less.
- *Bots.* No user up to the saved one was left out or is sent tokens again; a
  verdict of the monitoring bot is right if nothing else was under way, and
  every probe ends in one.

## 2. Modules

| module | extends | models |
|---|---|---|
| `DepositTypes` | | statuses, `AcceptedStatus` (REJECTED over the limit) |
| `ChainEnvironment` | `DepositTypes` | the chain as the processes see it: `Mine`, `Reorg`, the heads a lagging node may answer, finalized number, receipts; fault budgets per process |
| `DepositStore` | `DepositTypes` | `db/deposit.py`, one operator per database call |
| `DepositObserver` | both | the observer's loop |
| `DepositFinalizer` | `DepositObserver` | the finalizer's loop |
| `DepositSA` | `DepositFinalizer` | the SA's loop, the validators' answer, Zex, the vault's outcome |
| `DepositPipeline` | `DepositSA` | the three processes and the chain composed; properties |
| `DepositLosses` | `DepositPipeline` | two histories of what can cost a deposit (`moved`, `missed`), and what is lost by which cause only |
| `DepositLifecycle` | `DepositTypes` | abstract specification: the life of a record and what Zex was told |
| `DepositInvariant` | `DepositPipeline` | the inductive invariant, stated so that TLC checks it too |
| `DepositProofs` | `DepositPipeline`, `DepositLosses` | types, cursor, safety, refinement, causes of loss |
| `WithdrawLifecycle` | | abstract specification of the withdraw side |
| `WithdrawPipeline` | | Zex's requests, observer, SA, account nonce and mempool slot, vault |
| `WithdrawProofs` | `WithdrawPipeline` | invariants and refinement |
| `VaultDepositor`, `VaultProofs` | | vault depositor, user contracts, node's pool |
| `AddressBook`, `AddressProofs` | | address book in several tasks and processes |
| `BtcLifecycle` | | abstract specification of the records of a Bitcoin block and of what Zex is told |
| `BtcDeposits`, `BtcProofs` | | observer, finalizer, UTXO middleware and SA for one Bitcoin block, records by output; invariants and refinement |
| `KeyStore`, `KeyProofs` | | DKG keys, workers, file |
| `TokenCache` | | `get_token_decimals` in several processes |
| `BlockPages` | | `get_block_by_identifier` |
| `TransferDecoder` | | `decode_transfer_tx`, `_parse_transfer`, and how a contract reads the same input |
| `BlockScan`, `ScanProofs` | the three above | the Bitcoin observer's scan of one block beside validators that decode EVM transactions and look up tokens |
| `TestTokenBot` | | one chain's loop of the test token bot |
| `MonitoringBot` | | the monitoring bot, and the chains, Zexporta and Zex as it sees them |
| `Bots`, `BotProofs` | both | the two beside each other; properties of the monitoring bot |
| `MC*` | | constants for TLC |

`PROJECT.json` names the source lines of every definition. The names of actions
start with their process (`ObserverStart`, `FinalizerFetch`, `SaRecord`,
`VaultSend`, ...), operators that stand for a function of the code have its
name in the module's case (`ToFinalized` is `to_finalized`). A definition whose
comment begins with "Mutant" is no part of the model: it is a plausible bug,
kept so that one can put it in place of the definition below it and see the
property of the same run fail.

How state corresponds, where it is not plain:

- A **deposit record** is `status[t]` and `blk[t]`; `"none"` means that there is
  none. In `BtcDeposits` records are keyed by output, since two outputs of one
  transaction share the hash that `find_one` and `upsert_deposit` filter by.
- The **chain** is `head`, `where[t]` (block of a transfer, 0 if it is in none)
  and `reverted`. A reorganisation lowers nothing below `head - ReorgDepth`; it
  can move, drop or turn a transfer into one that reverts.
- The **work in progress** of a process (its local variables) is in variables of
  its own, which a crash empties and the restart fills again from the database.
- Two awaits are one step where nothing can tell them apart: `ObserverStart` reads
  the head and refreshes the address book, which the chain does not touch, before
  any block is read. The pass keeps the book it began with (`obsBook`, the local
  `accepted_addresses`) while the SA may refresh the shared one. Local variables that are dead between passes are reset
  (`finNum`), so that states differ only where the code does.
- `asyncio.gather` is a set of steps to be taken in any order, all before the
  step that follows it. A raising task lets the others go on (`StraySend`).
- In `BlockScan` a block is the sequence of its transactions; that a transaction
  has several outputs is the matter of `BtcDeposits`.
- `sends`, `origin`, `lost`, `moved`, `ledger`, `damaged` and other variables commented
  "history" are read by no action; they let properties speak of the past.

## 3. What the runs check

Every passing run has no error and no unexpected deadlock; CHECK_DEADLOCK is off
only where a bounded instance really ends.

| run | question | answer |
|---|---|---|
| `deposit_safety` | may Zex be told of a transfer that can still disappear, or of one too often; may a later pass resend what was recorded, or a credited deposit be discarded; by which causes is a deposit lost; may crashes or an old head move the cursor back; do the three processes implement `DepositLifecycle`; is the inductive invariant of the proofs one? | no; no, a credited deposit is discarded only after a reorganisation moved it and a fault of the SA; by a reorganisation that moved it, or at one of the four steps of section 4; no; they do; it is: with a fault of the observer and one of the SA, reorganisations as deep as the finalization distance, nodes with an old head and failing scans |
| `deposit_scan_gap` | and if one raises? | yes: the cursor is saved all the same (finding 1) |
| `deposit_discard_race` | is only what was reorganised away called REORG? | no: a deposit inserted during the finalizer's pass is discarded (finding 2) |
| `deposit_liveness` | does every payable deposit that was neither moved nor missed reach Zex, and is every other record decided? | yes, through reorganisations and an aborted pass of the finalizer, and though the SA takes one deposit at a time |
| `withdraw` | is a request skipped, paid twice, or called rejected when paid; is `WithdrawLifecycle` implemented; does every request end that the validators sign? | only the explained rejection; it is; yes, those behind one that they never sign included |
| `vault_safety` | may a deposit be called successful without its transfer, or its money stay behind without a cause? | no |
| `vault_uncollected` | is what is called successful collected? | no: a reverted transfer is recorded as SUCCESSFUL (finding 3) |
| `address` | do racing and dying processes leave a gap, or a user without an address for ever? | no |
| `btc` | what do shared hashes cost; is `BtcLifecycle` implemented? | a record may be missing, but never a transaction; all outputs reach Zex, in one message twice if two outputs have records, in a second message by the named causes only; it is |
| `key` | when does a node lose a key, and when can it not boot? | a key only after a save by a worker that missed another's, two saves at once, or a save cut short; it cannot boot during a save, or while the last one was cut short or met another |
| `block_scan` | does a scan return the block's deposits, how often can the race on a token fail a caller, does the scan end, and is every EVM input read as the contract reads it? | yes, if the block is not replaced meanwhile; once per token; yes; a complete call is, a short one is refused or read as less |
| `bots` | does the token bot leave a user out or send twice, does it catch up; is a verdict of the monitoring bot right, and does every probe end in one? | no, outside the round that was stopped; yes; if nothing else was under way; yes, unless a handler's own message fails |

Findings (each is a run that is expected to fail, with the line it contradicts
in `PROJECT.json`):

1. `observer.py:66`: after a scan that raised, the cursor is saved and the
   blocks are never read again.
2. `finalizer.py:60`: `to_reorg_block_number` discards every pending deposit of
   the range, one that the observer inserted since included. On a chain that
   never reorganises, a deposit ends as REORG.
3. `vault_depositor.py:148`: a transfer with receipt status 0 is logged and
   still recorded as SUCCESSFUL.

`BtcDeposits` shows a fourth weakness, which contradicts no sentence of the
repository: the SA's list of hashes (`sa.py:152`) has a Bitcoin transaction once
for each of its records, the validators read and flatten all of them
(`validator/deposit.py:77`), and without any fault Zex gets each output of the
transaction twice in one message. The history `doubled` holds those
transactions; `DoubledHasTwoRecords` says that nothing but two records makes
one, and `RepostIsExplained` is about further messages. `KeyStore` shows a fifth: `set_key` writes the worker's own memory over the file, so that a
key stored by another of the five workers is lost. The property is stated with
this cause in it (`UndisturbedFileIsLedger`). `DepositLosses` shows two more, stated
in the same way. A reorganisation that moves a recorded transfer into a later block
leaves the old block number in its record, and the finalizer discards the
deposit. And if a credited deposit was moved so, and the SA sends it again because it
had failed after the post, the validators answer from an older head than before,
leave it out, and the cleaning calls it REORG: it is credited at Zex and
never collected (`DiscardedCreditIsExplained`). `MonitoringBot` shows that an
exception in a handler's message ends the rounds while the process runs on
(`EveryProbeEnds`).

## 4. Bounds

- *Deposits:* two transfers, because every race is between a deposit and the
  batch, range or pass of another (they are interchangeable, hence the symmetry
  of the safety run); three or four blocks with `Conf = 1`, enough for a block
  to be mined, replaced, refilled and finalized while a batch of older ones is
  worked on; batches of two blocks so that a batch boundary is met. The SA takes two deposits
  at once in the safety run and one in the liveness run, where the second deposit
  waits behind the first. `MaxFaults`
  bounds crashes and raising calls: one of the observer and one of the SA in the
  safety run, one of the finalizer in the liveness run. `ReorgDepth = Conf` is the
  deepest the code claims to stand, `HeadLag = 1` lets a node answer with the
  previous head (the liveness run has none). A batch that surrounds
  a block of another one needs three pending blocks and does not happen here; the
  proofs are for any number. `Oversized` is empty in all runs: the transfers over
  the limit are rejected at once, and the proofs are for every such set. The two findings about the observer
  and the finalizer have instances of their own.
- *Causes of loss:* `moved` takes a transfer when a reorganisation changes its
  block or its receipt behind the observer, and only then. `missed` takes one at
  four steps: the scan of its block raises (`Unread`), Zex is silent and the
  recipient unknown (`UnknownRecipient`), the observer inserts it too late for the
  batch under way (`Late`), the finalizer takes a batch around its block
  (`Surrounded`). A batch that had the block to check and fails to promote the
  record for any other reason is a loss without a cause.
- *Withdraws:* three requests, of which the second is never signed, two faults,
  one transaction of the same account from elsewhere.
- *Vault:* two deposits to one address, so that they meet in the contract and in
  the nonces; `MaxTxs` bounds the account's transactions and is only reached by
  passes repeated after faults.
- *Addresses:* three tasks in two processes are the least with both a lock that
  matters and one that does not; two users make an insert of more than one
  document that another process overtakes or that is cut in two; two crashes.
- *Bitcoin:* three outputs, two of one transaction; one fault, of any process; `posted`
  counts messages up to two; the chain does not
  reorganise here, so that what happens is due to the shared hash alone.
- *Keys:* two workers, so that a save meets the other's save, boot or read;
  four keys of two types (ETH and BTC, as the DKG script makes them), so that
  each type is replaced once; one kill.
- *Scan:* up to five transactions on pages of two, so that the last page is full
  or short, and blocks that share transactions; two replacements; the Bitcoin
  observer and one worker that serves two chains, one failing call. EVM inputs
  are of digits to base 3, with selectors of one, words of two and addresses of
  one, and of every length from none to one digit more than their function's
  parameters.
- *Bots:* rounds of two users, so that a stop can leave a gap in the nonces which
  the next round meets; one stop or silent Zex. Rounds end where Zex's users end;
  one that the limit cuts needs a third user, beyond what TLC checks beside the
  monitoring bot in minutes, and is in the proofs, which are for any limit. Two chains and three probes: the
  second chain and the next round both meet what the first probe left under
  way; one failing call.

## 5. Fairness

Weak fairness of each process's own steps, and of `Mine`: the containers of the
observers, the SAs and the vault depositor have `restart: always`, the finalizer
has `on-failure:5` and a loop that catches every exception, the loops have no exit,
and every awaited call ends by its timeout at the latest. No fairness is
assumed of faults, refusals, requests or users, and the budgets make faults
finite: liveness says that the system recovers when faults stop. In particular:

- `AddressBook` asks for strong fairness of `Acquire`: `asyncio.Lock` wakes its
  waiters in order.
- `KeyStore`: gunicorn replaces its workers and docker restarts the container
  (`on-failure:5`; a boot that fails because it meets a save is rare and the count
  of restarts is not modelled). A file that is no JSON while nobody saves is
  the exception `WorkersReturn` names.
- `BlockScan`: a request ends, with an answer or an error, and the task runs.
  Nothing is assumed of the validators' workers.
- `Bots`: the two loops go on. The bots have no restart policy, so nothing is
  assumed of `BotRestart`, and `CatchesUp` excepts a bot that stopped; nothing is
  assumed either of the chains, Zexporta and Zex, which may never pay.

`VaultDepositor` states no liveness: a failing send leaves gaps in the nonces,
passes that meet one are repeated until a later send fills it, and how many
there are is bounded by `MaxTxs` only, so that a check would show the bound.

## 6. What is proved

All for every value of the constants, by TLAPS.

**Deposits** (`DepositProofs`). `TypeCorrect` and `CursorNeverGoesBack` (a pass
under way ends above the saved cursor); then,
under the assumption `ReorgDepth <= Conf`, `SafetyInvariant`,
and from it `CreditIsBacked`, `FinalizedIsSettled`, `ResendsNeedFaults`,
`RecordedIsNeverResent`. The assumption is exactly what `finalize_block_count`
stands for; with deeper reorganisations the properties are false. The argument:
`FinalStable` shows that no step of the chain moves a transfer at or below
`head - Conf`. `CreditBacked` alone is not inductive, since it says nothing of
what is in the processes' hands, so `SafetyInv` adds: what the finalizer holds
was final when it was read (`FinalizerInv`), a promoted record is final
(`RecordInv`), the SA's batch is still FINALIZED and what is signed is in its
block and executed (`SaInv`), and a delivery not paid for by a fault has its
outcome recorded or is about to be (`CreditInv`). There is one lemma per process.

`LifecycleImplemented` needs no such assumption: observer, finalizer and SA
implement `DepositLifecycle` however deep the chain reorganises. A step of the
pipeline maps to one step of the lifecycle because of `LifeInv`: the SA's batch
stays FINALIZED until its outcome is recorded, what is signed is in the batch,
what was posted and not recorded is still FINALIZED, and a transfer over the
limit is never promoted.

`LossesAreExplained` and `DiscardedCreditsAreExplained` are about `DepositLosses`,
again for any depth. `LossInv` follows a transfer that was neither moved nor missed through
all three processes: a pass's range begins where the saved one ended (`RangeInv`); what
was read is still so on the chain, and its recipient known (`HandInv`); it is still
to be read, in hand, or recorded (`ReadInv`); its record says what the chain says,
and a batch that has its block will promote it (`KeptInv`); and a validator that accepts the
number of its batch, which is the highest block of the batch's records, signs it
(`SignedInv`). The second theorem adds that what was posted is FINALIZED and is
called REORG only by the SA's cleaning, if it was moved (`CreditedInv`), and that it
is recorded unless the SA met a fault (`PostedInv`).

**Vault.** `SuccessIsMined`: whatever a pass has set aside as successful has a
transfer of its own in a block, and a mined transfer is never unmined. The pool
enters by the account's next nonce, which is defined by CHOOSE: `PendingCountType`
shows that it is a natural number, because a finite pool leaves a nonce free
(`FreeNonceExists`). `UncollectedAreExplained` is about sums: a transfer finds too
little only if its address has less than the values of its uncollected deposits, and
`HeldInv` says that an address none of whose deposits was transferred twice never
has. A mined transfer takes one deposit's value from both sides (`MineKeepsHeld`),
if the sum over a set is the sum without a member plus that member (`TotalAny`).
`TypeCorrect` follows, since what an address holds is never below zero.

**Withdraws.** `WithdrawInvariant`, `NothingSkipped`, `RejectionIsExplained`, and
`LifecycleImplemented`: the pipeline implements `WithdrawLifecycle` (initial states
map to initial states, every step to a step or a stutter).

**Addresses.** `BookHasNoGap`: each task's next user has everybody below it in the
book (`TaskInv`), by whichever process. `ViewIsComplete` follows from the range a
task leaves behind.

**Bitcoin.** `NoTransactionMissing`: an output that was found and neither recorded
nor still to be inserted has a sibling with a record, and no upsert removes a
transaction's last record. `FinalizedIsSpendable`: what the finalizer is about to
promote has its UTXO or came after its read. `RepostsAreExplained`: as
long as every pass that sent a transaction came to its end, its outputs are not
posted yet while it is signed, and once posted each is still to be upserted, or
neither PENDING nor FINALIZED (`PostInv`). `DoublingIsExplained`: two records of a
transaction stay two, because an upsert takes one of its records for another.
`LifecycleImplemented`: the processes implement `BtcLifecycle`, whose records are of
outputs and whose messages to Zex are of whole transactions. An upsert by hash may
turn one output's record into another's, so it is a `Verify` only if Zex was told of
that output and its transaction still has a record; this is what `LifeInv` keeps of
the pass under way (`RecordsStayOfStep`: no step takes a transaction's last
record).

**Keys.** `FileHasOneKeyPerType`: it needs the same of every worker's memory, and
the lemma that the loop of `set_key`, which deletes one key and stops, is enough
for a memory that has one per type. `UndisturbedFileKeepsKeys`: undisturbed, at most
one worker saves, what it saves is the ledger, and so are the file otherwise and
every current memory. `UnreadableFileIsExplained`: as long as the last save was
neither cut short nor met another, at most one worker saves and the file is not torn
(`Undamaged`); stale saves do not matter to it.

**Scan of a block.** `RefusedAtMostOnce`: a token that refused a process is in the
collection, nothing removes it, and the process finds it from then on.
`ScanReturnsTheBlock`: while the pages are of one block, what was read is the
beginning of it up to the page (`ReadSoFar`), and what was accepted together with
the deposits still to walk through are those of the block (`WalkedSoFar`); the last
page is met when the block is read, since `TotalPagesIs` the number of pages that
hold it. `InputsAreReadAsMoved`, of the EVM decoder: a parameter is cut out of the
input where the contract has its word (`ParamIsOfWord`); one that is cut short is a
smaller number, as the contract pads what is missing with zeros (`NumberOfPrefix`).
It holds of every input of digits, for all widths of selectors, words and addresses.

**Bots.** `NobodyIsSkipped` and `SavedUsersAreDone`: a round goes on from the saved
user and its end is not below it, also when Zex does not answer (`RoundEndBounds`);
each of its users has an accepted transfer or is still to be sent one
(`RoundInv`), and a stopped bot's tasks send to users of the round only.
`VerdictsAreTrue`: one chain is probed after the other (`InOrder`), the probes that
are over cancel out in the balances and those to come do not show
(`FreeShowsDeposit`, `TokensShowPayout`: cardinalities of sets that differ in the
present probe at most), so each comparison tells what the present probe did.
`TypeCorrect`: a round finds a nonce that no transfer of its account has
(`NonceIsFree`, by the pigeonhole principle), and ends at a user of Zex.

**Sums and sequences.** The deposits of a block, the number that digits stand for
and the sum over a set are recursive functions. Induction is stated for sets of
numbers (`SetInduction`), so that the provers need no operator parameter, and that
a recursion has a solution is proved before it is used (`TotalExists`,
`RecursionExists`); the equation of each function is then a lemma (`TotalDef`,
`OursDef`, `NumberDef`). No module uses a RECURSIVE operator.

Type correctness is proved of every module that has a proof module; the run
`vault_safety` checks it too, the others do not repeat it. Every
safety invariant, action property and refinement of a passing run is proved.

Assumptions are the named ASSUMEs of the modules (`ObserverAssumption`,
`BookAssumption`, `KeyAssumption`, ...), which TLC evaluates in the runs. That of
`BlockScan` says that an input is a sequence of digits, as the node's JSON has it.

Only model-checked: liveness and whatever needs ENABLED, which are out of
the prover's reach: `DepositEnds`, `WithdrawEnds`, `WorkersReturn`, `UsersGetAddresses`,
`FinalizedIsPosted`, `ScanEnds`, `CatchesUp` and `EveryProbeEnds`.

## 7. What is not modelled

- Signatures and FROST rounds (pyfrost): one answer, given or not.
- Encoding (`utils/encoder.py`) and address computation: a transfer is a model
  value with a recipient, an amount where it matters, and a receipt; only
  `TransferDecoder` looks into an input.
- The nonces of pyfrost in redis: single calls whose order is pyfrost's.
- HTTP API (reads only), DKG script and node registry
  (run by hand), configuration, logging, health check.
- Functions without a caller: those of `db/utxo.py` for Bitcoin withdraws,
  `update_deposit_status`, `delete_deposit`, the mempool client.
- The creation of indexes, which `get_collection` starts in the background: the
  collections are taken to have them.

## 8. Plan

Done, in this order: deposit pipeline with its abstract specification and
proofs; withdraw pipeline likewise; vault depositor; address book; Bitcoin
deposits with the lifecycle of their records; key store; the scan of a Bitcoin
block with its pages and the token cache; the causes by which a deposit is lost; the bots; the decoding of EVM
transfers.

Next, by importance:

1. Reorganisations and lagging nodes in `BtcDeposits`.
2. `VaultDepositor` and the withdraw SA on one account, as `example.env` has
   them: the nonces of the two collide. A module that composes both.
3. Field widths of `encode_zex_deposit`; liveness of the vault depositor, with
   its passes counted instead of its transactions.
4. Several chains of one kind in one observer process, sharing the address lock
   and the event loop.
