# Rome SDK: TLA+ models, checks and proofs

Rome SDK runs Ethereum-compatible rollups on top of Solana. Transactions of a
rollup are executed by the Rome-EVM program inside Solana transactions; the
*indexer* of `rome-evm-client` reads the Solana blocks, extracts the rollup's
transactions, has `op-geth` build the same Ethereum blocks through the Engine
API, and serves the results from PostgreSQL. The rest of the SDK composes, sends
and confirms the Solana transactions in the first place.

The indexer carries the state that must survive crashes, forks and the failure
of every remote call; its loader, its rollup part, its parsers and its recovery
mode are modelled. So are the client that asks several Solana providers at once,
the composition and submission of transactions with the resources they lock, and
the lock-free pool of holder indices.

## 1. Inventory

| Part | Source | State | Operations | What is hard |
|---|---|---|---|---|
| Solana block loader | `indexer/solana_block_loader.rs` | cursors, the batch in flight; the storage is durable | preload in batches, mark final, recheck, announce reorgs; recovery scan | lagging providers, partial batches, forks between two awaits, crash anywhere |
| Solana block storage | `indexer/pg_storage/solana_block_storage.rs`, SQL migrations | `sol_slot`, `sol_block` | `store_blocks`, `set_finalized_slot`, `update_finalized_blocks`, `get_last_slot` | recursive fork walk, conflict rules, one transaction per call |
| Rollup indexer | `indexer/rollup_indexer.rs` | cursors, parse results, pending and produced blocks | `pre_run`, reproduce, reorg, parse, restore, produce | storage, `op-geth` and channel fail independently |
| Ethereum block storage | `indexer/pg_storage/ethereum_block_storage.rs`, `transaction_storage.rs`, SQL migrations | `eth_block`, receipts | register, pending view, `blocks_produced`, `clean_from_slot`, reproduce query | the pending view walks forks; two transactions per registration |
| Engine API producer | `block_producers/engine_api_block_producer.rs`, `rome-geth/src/engine/mod.rs` | none of its own | four Engine API calls per block | a crash between two of them |
| Standalone indexer | `indexer/standalone_indexer.rs` | the reorg channel | starts and joins the tasks, recovery mode | an ended task, a dropped channel |
| Parsers | `indexer/parsers/` | transaction chunks of several slots | reassembly, split of a slot into blocks | out-of-order chunks, pruning |
| Multiplexed client | `indexer/multiplexed_solana_client.rs` | none | races several RPC providers | provider disagreement, retries |
| Holder indices | `rome-utils/src/holder/` | one `AtomicU64` | lock, drop | lock-free races |
| Payer resources | `rome-evm-client/src/resources.rs`, `rome-sdk/src/rome.rs` | a mutex-protected stack per rollup | get, drop, compose | hold and wait |
| Rollup transactions, tower | `rome-evm-client/src/tx/`, `rome-solana/src/tower.rs` | step of each transaction | advance, send, confirm, resend | lost transactions, transactions that land after the error, tables and holders left by others |
| Solana block indexer, clock | `rome-solana/src/indexers/` | current slot | poll, stream blocks in order | retries and order |
| Services | `rome-utils/src/services/` | restart counters | run, restart | a service that dies in a loop |
| DA clients, observability, configuration | `rome-da`, `rome-obs`, `config.rs` | none | pure I/O | nothing a model would show |

How they interact: the loader writes `sol_slot`/`sol_block`, the rollup indexer
reads them. The only direct message between the two tasks is the reorg event
(the lowest slot whose finalized block differs from the stored one), over an
unbounded in-memory channel. The rollup indexer alone writes `eth_block`, and it
alone drives `op-geth`. Tasks run concurrently on a tokio runtime; a task gives
up control only at an `await`, so a model step is the code between two of them.

What makes each part correct:

* loader: no slot is missed below the point from which a restart continues; a
  block stored as Finalized is the one the chain finalized; a stored block is
  only ever replaced by that; every confirmed slot is loaded in the end;
* rollup indexer: a registered hash belongs to the registered content; the
  produced blocks form one chain, the chain `op-geth` has; numbers are unique;
  no slot is left out; what `op-geth` was told is final stays final and comes
  from final Solana blocks; every slot is produced in the end;
* recovery: what a completed check has walked over is what the chain finalized, an
  Ethereum block of replaced content stays only if its event was lost, recovery
  ends;
* parsers: the results of a slot are those its block reports, in whatever order and
  place the chunks of its transactions landed; a slot's blocks partition its
  transactions; no transaction hash occurs twice;
* transactions: success is reported only for what was executed, and a holder
  account or lookup table is whole and the task's own when it is used;
* holder indices and payer resources: each has at most one owner, none is leaked,
  nobody waits for ever.

## 2. Modules

| Module | Models | State and steps |
|---|---|---|
| `SolanaChain` | the Solana network behind `SolanaClient` (external) | blocks as fork versions; `Confirm`, `Finalize`, `SwitchFork` of the part that is not final |
| `SolanaBlockStorage` | the PostgreSQL block storage | the table as a function of the slot; every stored procedure an operator. `WITH RECURSIVE fork` is the least set closed under the recursive term |
| `SolanaBlockLoader` | `start_loading` and all it calls | extends both; one step per `await`; failed slots, failed calls, crashes at the points of `FaultPoints` |
| `SolanaClient` | `MultiplexedSolanaClient` | no state: `plex`, `process_plex_result`, `plex_with_retries` map the answers providers may give to the set of outcomes of a call |
| `EthereumBlockStorage` | the PostgreSQL Ethereum storage | `eth_block` as a sequence of rows per slot; the pending view and the procedures as operators |
| `Recovery` | `start_recovery`, `start_checking`, `check_batch` | composes the two storages, the chain and the client; two tasks, a channel, `select!` |
| `RollupIndexer` | `RollupIndexer`, `EngineAPIBlockProducer`, `GethEngine`, `start_indexing` | extends the storage; the loader is its environment, `op-geth` is external |
| `Ordered` | the order of the keys of a `BTreeMap` | `InOrder`, a finite set of numbers as an increasing sequence; used by the two parsers |
| `TxParser` | `DefaultTxParser` | the parser as a record (transactions by hash, results by slot); one operator per method |
| `BlockParser` | `BlockParser::parse`, `parse_blocks_batch`, `retain_storages` | extends `TxParser`; one step per block of the walk back through the parents |
| `LogParser` | the five log parsers and `LogParser::parse` | five state machines over the items of a line |
| `SlotBlocks` | `parse_transaction_meta`, L1 attributes, deposits, `create_eth_blocks` | extends `LogParser`; one step per transaction |
| `AdvanceTx` | every `AdvanceTx` of `rome-evm-client/src/tx/` | step machines: the set of outcomes of `advance` |
| `RomeTx` | `Rome`, `TxBuilder`, `ResourceFactory`, `SolanaTower` | extends `AdvanceTx`; tasks that compose, send, confirm and resubmit; implements `IndexPool` |
| `IndexPool` | what a pool of exclusive things promises | abstract specification |
| `Holder` | `Holder`, `HolderFactory` | every access to the atomic word a step; implements `IndexPool` |
| `SolanaBlockLoaderProofs`, `RecoveryProofs`, `RollupIndexerProofs`, `BlockParserProofs`, `SlotBlocksProofs`, `RomeTxProofs`, `HolderProofs` | | theorems about the module of that name |
| `NatLemmas` | | least and greatest elements, induction over an interval, the order of a finite set, running totals, iterated functions, recursive functions that agree |
| `MCSolanaBlockLoader`, `MCRollupIndexer`, `MCRomeTx`, `MCBlockParser`, `MCSlotBlocks` | | values of the constants for TLC |

### SolanaBlockLoader

`pc` names the await the task is at: `get_confirmed` and `get_finalized` are the
two calls of `get_latest_slots`, `load` the concurrent `load_block` calls of a
batch, `set_finalized`, `recheck`, `update` and `send_event` the parts of
`update_finalized_slot`. A block is its fork version (equal versions, equal
blockhash) and its parent slot. The confirmed and finalized slots are answered by
whichever provider is first, so each may lag by up to `MaxLag`. Err values follow
the code: in the first synchronisation they end the task, later the loop starts
again from the slot of the last successful one. A crash keeps `rows` only.

The client makes `Ok(None)` of a response it cannot read, of code -32007 and of any
`RpcError`, also for a slot that has a block, and panics on -32011. Both are faults of
the model: `LoadBlockNone` (the slot is taken for a skipped one), `RecheckNone` (the
block is taken for unchanged) and `ProviderPanics` (the task ends). Two history
variables say where this happened: `none` holds the slots a `load_block` answered
`Ok(None)` for, `unrepaired` those marked Finalized whose recheck was not brought to
its end. The code keeps neither: it cannot tell these slots from sound ones.

`UpsertWorks` chooses between the contract of the storage trait and what the
PostgreSQL `update_finalized_blocks` does with a non-empty map (it fails, see
Known deviations).

Rechecks are one step: the slots are final, so the answers do not depend on the
time at which each arrives.

### RollupIndexer

An Ethereum block's content is the slot, the position in the slot and the version
of the Solana block it was parsed from. A blockhash is the sequence of all
contents up to the block, which makes hashes collision-free and makes "built on"
the prefix relation. `head`, `known` and `gethFinal` are what `op-geth` keeps.
`advance_rollup_state` is two steps, because its first forkchoice update moves
the head to the parent and a crash in between leaves it there; `getPayload` and
`newPayload` only add a block nobody refers to and are one step with the second
update. `blocks_produced` is two steps, because it is two database transactions.
`register_parse_results` is also several statements, but a crash between them is
repaired by parsing the same slots again, and one step stands for them. The rows it
adds to `eth_block_txs` when a replaced slot is parsed again are left out.

The loader appears as in its own model: it stores slots, marks them final, replaces
changed blocks, sends the event, each as a separate step. A slot may be stored
directly as Finalized above Confirmed ones, as the loader does after a pause. With
`Orphans` a slot may stand on a fork the chain has left; with `Gaps` the loader may
pass over a slot (a false `Ok(None)`) and store it later, when a synchronisation is
repeated. With `UpsertWorks` the update of a changed block succeeds or fails, without
it (PostgreSQL) it fails and no event is sent. Three history variables name what the
properties exempt: `missed`, the changed slots whose event nobody received; `late`,
the slots stored below the last one; `cut`, the blocks whose registration a fault cut
between its two transactions.

Not modelled here: `retain_storages`, a no-op in both PostgreSQL storages; the
refresh of the Engine API token.

### SolanaClient and Recovery

A call of the client is the set of results it can return: the first `Ok` of any
provider, or after all retries what `process_plex_result` makes of the error of the
last provider in the list (a value, nothing, an error, a panic). For every slot, with a
block or without, a provider may answer `SerdeJson`, `RpcError` or a failed request,
-32004, -32005 and -32011, and below its tip -32007 and -32009. `Recovery` begins
with a storage a loader may have left behind (stale and missing blocks) and
Ethereum rows made from it. `pc` is the checking task: `start` reads the tip, `walk`
collects a batch along stored parents and loads what is missing, `recheck` answers
one block at a time while the chain moves (a changed block takes two calls, and
`Ok(None)` of either leaves it as it is: `unanswered`), `send` announces the lowest
changed slot. The second task applies `clean_from_slot`. `Return` is the `select!`: either
result when both are ready; the process may then exit with events still queued.
`NewRun` starts recovery again. `lost` is a history variable, as `missed` in
`RollupIndexer`.

### TxParser and BlockParser

The bytes of a transaction sent through a holder are the set of the chunk numbers
found; a decoder succeeds exactly on all of them. `is_data_complete` only sees a
gapless prefix, as in the code. Registering the transactions of a slot stops at the
first error, and a `HashMap` gives them in any order, so the set of hashes visited
before it is chosen with `\E`. `InOrder` of `Ordered` is the order in which a
`BTreeMap` gives its keys. The empty entry the code keeps for a hash none of whose logs
in a block can be read is left out of `ParsedTxs`. The parse of a slot walks from the block to its
parents, at most `MaxParseBehind` blocks, until the slot is complete. The
environment stores blocks in order of slots, replaces one and sends the event.
`out` keeps the results by slot, which `RollupIndexer` abstracts to versions.

### LogParser and SlotBlocks

A log line is a sequence of items with a length, a tag or a value, which is what
the parsers tell apart; `consume` feeds the items of a line to a parser and
`parse` the lines of a log to the five of them, both as recursive functions. Solana
executes transactions with one of several outcomes. The events are logged first, in
order, then exit reason, gas value, price and recipient in one of the orders of
`Orders`, with lines of other programs and lines of text between them; the log may be
cut. An item that is not there (`Present`) is left out of its line. A transaction of the
rollup is executed once and named by its turn, a deposit may be repeated. Hashes are
the records of what is hashed. `Join`, `SameRecipient`,
`FirstRecipient`, `NewRecipient` and `Close` are the branches of
`create_eth_blocks`, `SingleBlock` its other parse mode.

### AdvanceTx and RomeTx

A transaction is the record of the steps of its parts. `advance` has a set of
outcomes because every emulation can fail; an early `?` keeps what was assigned
before it. A task of `RomeTx` locks a resource, builds, sends step after step,
and drops its resource at the end or on any error path; cross-rollup compositions
hold one resource while they lock the next. A resource on Solana is a holder
account (hash and chunks) and a lookup table: the task that allocated it (its
session), the parts of its keys, and those added in the current slot.

The Solana transactions of a step are on the `wire` and land one by one, in any
order: chunks, the dealloc of other sessions' tables, every part of the alloc,
iterations, the execution. The tower may give up at any time; what has not landed
then is lost, except for at most `MaxLate` transactions that stay in flight (`late`)
and land at any later time, also when the resource belongs to another task.
`get_alt` is given holder and chain id only, so `advance` finds whatever table there
is, one of an earlier transaction or filled in part, and `read` is what it read.
`disturbed` is a history variable: the accounts of a task that a late transaction of
another task has changed since it got the resource. After an error the caller may
submit the same transaction again. What the programs do (a chunk or a part of another
transaction starts the account anew, dealloc frees the tables of other sessions) is
external and inferred from the instructions the code sends.

### Holder

The 64-bit word is the set of positions of its one bits, `N` the number of
positions. The memory orderings do not matter for one location. The weak
compare-exchange of `drop` may fail at any time. A future that waits can be
dropped at its only await.

## 3. Runs

Passing:

| Run | Question | Bounds |
|---|---|---|
| `loader` | no hole below the highest stored block or the cursor but slots answered `Ok(None)`; every slot left behind is asked for, or the task has ended | 3 slots, batches of 2, one fork switch, two faults at any await (failed call, false `Ok(None)`, panic, crash), the PostgreSQL upsert as it is |
| `loader_fresh` | Finalized rows are the finalized blocks of the chain unless their recheck is under way or was cut off; no stored block is lost, demoted or wrongly replaced | 4 slots, lag 1, a working upsert, one fault anywhere |
| `recovery` | a completed check leaves only fresh blocks behind but where a recheck was answered `Ok(None)`, Ethereum blocks of old content stay only for a lost event, recovery returns | 3 slots, batches of 2, one fork switch, two providers, one emergency provider, two attempts, one fault, two runs |
| `rollup_crash` | storage and `op-geth` agree, no number twice, no slot lost, receipts missing only where a fault came between the two transactions, finality only advances, every stored slot below the last is produced or the task has ended | 4 slots, one block each, two faults anywhere (crash, failed call, lost blocks of `op-geth`, end of the loader) |
| `rollup_fork` | one chain, no slot lost, only blocks on the branch of a Finalized slot become final | 4 slots with abandoned slots, slots passed over and stored later, slots stored directly as Finalized, empty slots and slots of two blocks, no fault |
| `rollup_reorg` | one chain, the one `op-geth` has, and stale blocks only where an event was lost | 3 slots, two replaced blocks, two queued events, two faults of any kind, an upsert that works or fails |
| `block_parser` | the results of a slot are what its block says; the indexer stops only for want of data or for a named flaw of the reassembly | 7 slots, four of them with blocks of six kinds, two chunks, two blocks back, one replaced block, one restart, pruning after one slot |
| `slot_blocks` | results are read back as executed, blocks partition a slot, hashes are unique | 3 transactions over 2 slots, three outcomes, two orders of lines, cut logs, a deposit, both parse modes |
| `rome_tx` | success means executed, and so does the panic on an empty list of signatures; holder and table are whole and the task's own when used, unless a late transaction of another task changed them | 2 tasks, one payer, every shape of transaction, three chunks, two batches, two parts of a table, two iterations, two calls, one transaction in flight after an error |
| `rome_compose` | resources form a pool, none is lost on an error path, every task ends | 2 tasks, 2 rollups, one unknown chain, 3 resources |
| `holder` | the pool is implemented, no index leaks, every request is served | 3 tasks, 2 indices, 2 locks per task |

Expected violation (section 5): `loader_reload`, with 3 slots, one fork switch and no
fault.

Why the bounds are enough. Three or four slots and batches of two give a full
batch, a cut batch, a skipped slot and a range that starts in the middle. One fork
switch makes a stored block stale; a second would only make it stale again. A
fault can hit every await, and the state after a restart is a function of the
tables alone; the indexer gets two, so that a crash meets a crash and a loss of
`op-geth`'s blocks follows a failed registration. Recovery runs twice, so that the
second run meets what the first left. The parser needs a block, the two behind it
that may hold chunks, and one that prunes them; two chunks make a whole, a prefix
and a suffix. Two tasks on one payer are what makes a holder or a table change
hands between two submissions; three chunks with batches of two give a full and a
partial batch, two parts make a table partial, and one late transaction is enough to
change what the next owner of a resource has prepared. With three tasks on two indices one task of the holder's model loses
a race while another drops, a request finds no index, and a value of the word can
come back (A-B-A).

Fairness. `loader`, `rollup_crash` and `recovery` assume weak fairness of the tasks'
own steps: the runtime polls a task that can run, and every call is answered or
fails. The chain, faults and restarts get none, so an ended task may stay ended,
which the properties allow for. `rome_compose` assumes it of each task and of the
passing of slots. `holder` assumes weak fairness of each task (owners drop their
holder in the end) and strong fairness of the successful weak compare-exchange
(spurious failures end). Each task locks a bounded number of times: with unbounded
competitors a task can lose every race.

Deadlock is not checked where everything may be done: `holder`, `rome_tx`,
`rome_compose`, `recovery`, `block_parser`, `slot_blocks`. The loader and the
indexer can always take a step.

## 4. Proofs

`SolanaBlockLoaderProofs` proves, for every chain length, start slot, batch size,
lag, set of fault points and number of faults and forks (`ChainAssumption`,
`LoaderAssumption`):

* `LoaderInvariant`: `Spec => []LoaderInv`;
* `TypeCorrect`, `NoGapsCorrect`, `RowsOnlyGrowCorrect`, `FinalizedRowsFreshCorrect`:
  the safety properties of `loader` and both properties of `loader_fresh`, without
  conditions, with an upsert that works and with the PostgreSQL one. What the code
  takes for a skipped slot or an unchanged block by mistake, and a recheck that was
  cut off, are exempted by the history variables `none` and `unrepaired`, and by
  nothing else.

`NoGaps` is not inductive. What has to be added is, in `LoaderInv`: every cursor,
the one a failed synchronisation falls back to included, has only covered slots
below it (`CursorInv`); a batch's slots each wait, have a block or were answered
`Ok(None)`, as long as no answer was an error (`BatchInv`); the finalized slot is not
above the confirmed one (`ChainInv`); parents are lower than their slots, so that
the fork walk stays below the finalized slot (`RowsInv`); the blocks under recheck
are Finalized and at most the finalized slot read (`RecheckInv`). `FreshInv` adds
that Finalized rows are at most the finalized slot, and that an answer at or below
the finalized slot read before it is the chain's and cannot become stale.

`RecoveryProofs` proves, for every chain, batch size, number of providers, retries,
faults and runs: `RecoveryInvariant`, and from it `RecoveryTypeCorrect`,
`CheckedBlocksFreshCorrect` and `StaleOnlyIfLostCorrect`, the safety properties of
`recovery`, without conditions (the first exempts the slots in `unanswered`).
`CheckedBlocksFresh` speaks of completed checks only;
`FreshInv` follows a slot there: while a batch is collected its versions are those of
the storage, an answered slot is final and equal to the chain or among the updated
ones (unless an answer was an error or `Ok(None)`), and after the batch every slot walked over is
final and fresh. A final slot cannot become stale again, so the moving chain does no
harm. What the client returns after all retries is shown to be an answer of one of
the providers (by induction over the retries).

`RollupIndexerProofs` proves, for every table, batch size, number of blocks per slot,
of reorgs, of queued events and of faults (`StorageAssumption`,
`IndexerAssumption`):

* `IndexerInvariant`, `RollupTypeCorrect`, `StaleOnlyIfMissedCorrect`: without
  conditions. `StaleInv` says that every Ethereum row *and every parse result in hand*
  that differs from the stored Solana block has a changed slot at or below it that
  was announced, is about to be, or was missed; the property alone, which speaks of
  rows in sync, is not inductive;
* `ReceiptsStoredCorrect`: without conditions. A block lacks receipts only while they
  are being written, or because a crash or a failed call came between the two
  transactions of its registration; restored, reproduced and re-parsed blocks included;
* `NoSlotLostCorrect`: when `MaxReorgs = 0`, with every fault, abandoned forks and
  slots passed over; a slot inserted below the last one is exempted (section 5). `PassedInv` adds to the
  cursor of the main loop those of the other points: what is below a slot with
  Ethereum rows is complete, which is what a restart relies on, and the parse results
  in hand are exactly those of the batch up to the slot parsed last. With reorgs a
  second event moves the cursor back up (section 5).

The same module proves six more properties of the indexer under `OneChain`: no
replaced block, no fork of confirmed blocks, no slot passed over, at most one Ethereum
block per slot, with every fault and with slots stored as Finalized in any order: `RegisteredAsBuiltCorrect`, `OneBlockPerNumberCorrect`,
`StorageFollowsProducerCorrect`, `FinalizedOnFinalBranchCorrect`,
`ProducedFormOneChainCorrect`, and the action property
`FinalityNeverRevertedCorrect`. These are the conditions of `rollup_crash`, for every
number of slots and faults; each of the conditions excludes a known deviation
that breaks one of the properties. The argument of `ChainInv`: on one chain a hash is
determined by its length, so the block numbers say everything. Rows are produced from
the first slot on, without a gap (`OnChain`); `op-geth` holds the same chain, closed
under parents (`ProducerInv`); blocks are rebuilt only while it is behind
(`ReproduceInv`); in the main loop the storage is never ahead of it, the blocks left
to produce are those above the parent and the unregistered ones those up to it
(`BuildInv`), which is why `restore_blocks`, matching blocks by counting, takes the
right ones after a crash at any point; what `op-geth` was told is final has a
Finalized slot with blocks at or above it and is never above what the next forkchoice update will send
(`FinalInv`).

`BlockParserProofs` proves, for every set of block contents, walk length, batch size
and history, and for any number of replaced blocks, events and restarts
(`TxParserAssumption`, `BlockParserAssumption`):

* `ParseInvariant`, `ParserTypeCorrect`: without conditions;
* `PanicsOnlyAfterWarning`: the panic of `is_slot_complete` needs a registration that
  failed with a warning; pruning, restarts and replaced blocks alone never lead to it;
* `ParsedAsStoredCorrect`: for contents (`PlainBlocks`) in which the instructions of
  one Solana transaction for one hash are of one kind, and a deposit has no result in
  the log. Otherwise the parser, which keeps the first instruction for a hash, may
  report nothing for an execution, or the default result instead of the logged one;
* `StopsOnlyWithoutDataCorrect`: under `OneWay` (a hash that is finished whole by some
  block is not sent through a holder by any, and a Solana transaction with a chunk of a
  hash has no other instruction for it, of which the parser would keep only the first)
  and `FromFirstBlock` (no block is stored below `StartSlot`). TLC finds the property
  violated without either. Blocks
  below `StartSlot` are known to the parser only as far as a walk back has reached
  them, so that it may take the first chunks for the whole with nothing forgotten; a
  hash of which chunks came first is put together from chunks also when it is finished
  whole.

The conditions of both are an assumption of `MCBlockParser`, which TLC evaluates: the
contents of `block_parser` meet them, and still have a transaction with an unfinished
whole step beside its chunks, whose registration fails with a warning.

The slots before the cursor are not enough for `ParsedAsStored`. `RegisteredInv` says that
while the walk goes back, the results kept for the slot at hand are exactly those of
its block (`RegisterExact`: a registration without error leaves nothing of an earlier
block of the slot behind), that registering another slot does not touch them, and
that every hash among them is known. For `StopsOnlyWithoutData`, `KnownInv` follows the
chunks: as long as no registration failed, the parser has every chunk in the blocks
walked over for the slot at hand (`WalkInv`) and, as long as nothing was forgotten, in
every block behind the cursor (`BehindInv`), except where a reorg event waits or was
skipped. When the walk ends, after `max_blocks` blocks or at a block without a stored
parent, it has been over the whole window (`WindowWalked`, `MaxBlocksExhausts`), so a
chunk the parser does not have is not in the window either (`ChunkMissing`). When it
ends before, a run of first chunks has passed for the whole, which needs blocks the
parser has not read or has forgotten.

`SlotBlocksProofs` proves, for any number of slots and transactions, any outcomes,
orders of lines, cuts, deposits and recipients, in both parse modes
(`SlotBlocksAssumption`):

* `SlotBlocksInvariant`: `Spec => []SlotInv`;
* `ReportedAsExecutedCorrect`, `BlocksPartitionSlotCorrect`, `HashesUniqueCorrect`: the
  properties of `slot_blocks`, without conditions.

The first half is about the log parsers. For each of the five a closed form gives its
state after any number of items of a line (`EventAt` and its like), from which it
follows that a line is read as it was written and that the lines of other programs and
lines of text leave the parser alone. `After` does the same for `LogParser::parse` after
any number of lines: a whole log yields the events, the exit reason and the gas of the
execution (`WholeLog`), a cut one an error or the exit reason of the execution
(`CutLog`). The second half is `SlotInv`. `Executed` says that the log of every
execution so far reads as `WholeLog` or `CutLog` says and that no transaction of the
rollup is executed twice in a slot, `Apart` that it is in no other slot either;
`Reported`, `Distinct`, `FreshTx` and `FinalTx` speak of the transactions taken from the
slot, before and after the round of `create_eth_blocks` that writes the hash of a
deposit. `Built` says that the closed blocks and the block at hand cut the transactions
so far into runs, each with the gas of its members; `Changes` that a block ends where
the recipient changes. For `HashesUnique`: the blocks put every transaction of a slot in
one place, a slot has no transaction twice, and two slots differ in the blockhash in the
source of a deposit or of the L1 attributes, and in the turn of a rollup transaction.

`HolderProofs` proves, for any set of tasks and any number of indices:

* `HolderInvariant`, `HolderTypeCorrect`, `BitsAreOwnedCorrect`;
* `HolderImplementsPool`: `Holder` refines `IndexPool`. `HolderInv` adds to the
  equality of word and owners that no index has two owners. A successful
  compare-exchange sees the word in which its bit was zero; by the invariant nobody
  owns that index, even when the word has changed and changed back.

`RomeTxProofs` proves, for any tasks, rollups, number of payers, jobs, transaction
sizes and number of calls (`AdvanceTxAssumption`, `RomeTxAssumption`):

* `RomeInvariant`: `Spec => []RomeInv`. `PoolInv` says that the stacks of the
  factories and the hands of the tasks share the resources out: a stack has no item
  twice, an item is in its stack exactly when nobody has it, and no two hands have
  the same one. It is not inductive alone: a task that locked into a hand it still
  uses would lose a resource. `ControlInv` says which of the two hands (the first
  resource, and `current_resource`) is in use at each point of a composition;
* `FactoriesImplementPool`: the resources of `RomeTx` refine `IndexPool`, a locked
  resource being one hand's index;
* `NothingLeakedCorrect`: when all tasks are done, every stack is full again, on the
  error paths too;
* `HolderWholeCorrect`: `HolderWholeWhenExecuted`. `TransactionInv` adds that a
  transaction of a holder type has a resource, and that an executing step under way
  was handed out for a whole holder. Another task's step writes only to the holder of
  its own resource, which by `PoolInv` is another one; only a late transaction reaches
  the holder of a task, its own ones leave it whole, and those of others are recorded
  in `disturbed`;
* `OkMeansExecutedCorrect`: `OkMeansExecuted`. `OkTask` says that a machine that has
  reached its end either has its last transaction under way, or is executed, or
  has failed before and starts the new call without signatures; `AdvanceEnds` shows
  for every machine, wrapped with a lookup table or not, that it gets to its end
  only with its last transaction, its confirmation or an error;
* `TowerInvariant` and from it `RomeTypeCorrect`, `TableReadyCorrect` and
  `PanicMeansExecutedCorrect`: the remaining invariants of `rome_tx`. `TableTask` says
  how far a machine with a lookup table is and what it has on the wire. `FirstTask` and
  `TableSeen` are about the first call: as long as nothing disturbed the account, each
  part of the table has landed or is on the wire while the allocation is, and the table
  is the task's own, whole and as it was read afterwards; a task with parts of its own
  in flight after an error is past its first call (`LateAfterFirst`); with one batch of chunks transmission is over when the allocation
  is, so that `join_parallel` does not lose the `WaitNextSlot`; a machine at its end is
  executed, so that the list of signatures is empty only after success.

Two refinements are stated with `INSTANCE`: `Holder` and `RomeTx` (its resources)
both implement `IndexPool`. Both are checked by a run (`holder`, `rome_compose`) and
proved.

Recursive functions are within reach: `NatLemmas` has an induction over an interval
that takes the *set* of the numbers done so far in the place of a predicate. The
retries of the client, the walk along parents (`Branch`), the sorting of a finite set
(`InOrder`), the window of blocks of `StopsOnlyWithoutData` (`Window`, `WindowIs`) and
the steps of the log parsers are reasoned about with it. From it follow also that two
recursive functions with equal steps are equal (`SameRecursion`, `AlikeEqual`), that a
function can be iterated (`IterationExists`) and that a running total exists for every
sequence of numbers (`TotalsExist`), with which the gas of a block is compared with the
gas of its transactions.

Only model-checked:

* all liveness properties (liveness under fairness is out of the prover's reach);
* the properties of `RollupIndexer` that hold beyond the conditions above
  (`ProducedFormOneChain` and `FinalizedOnFinalBranch` with abandoned forks, slots
  passed over and slots of two blocks in `rollup_fork`, `StorageFollowsProducer` with reorgs in
  `rollup_reorg`).

## 5. Known deviations

Where the code does not do what its comments or assertions say, or does less than
one would expect. The first is a run. The others of the first table are properties
the modules define that do not hold with the constants given, which no run has; a
configuration with these values reproduces each. Those about reorg events need
`UpsertWorks = TRUE`, as the PostgreSQL storage lets none be sent.

| What happens | Where | Shown by |
|---|---|---|
| `update_finalized_blocks` binds the previous blockhash as text to a `BIGINT` parameter (and its upsert names no conflict target) and fails for every non-empty map, after the slots were marked Finalized; the changed block is never reloaded | `pg_storage/solana_block_storage.rs:83` | run `loader_reload` |
| after a pause, slots are stored directly as Finalized and hide Confirmed slots below them from the fork walk | `2025-05-06-124637_fix_queries/up.sql:29` | `BlocksBelowFinalFresh`, `UpsertWorks = TRUE`, no lag, no fault |
| a failure after `set_finalized_slot` and before the end of the recheck is never repaired; nor is a changed block whose recheck was answered `Ok(None)` | `solana_block_loader.rs:494`, `:594` | `ChangedBlocksReloaded`, `UpsertWorks = TRUE`, one fault |
| after a reorg that removes two or more produced blocks the old blocks of `op-geth` are "restored" for the new content; masked at this commit, because the PostgreSQL `update_finalized_blocks` fails before any event is sent | `rollup_indexer.rs:346` | `RegisteredAsBuilt`, 4 slots, one reorg, no fault, `UpsertWorks = TRUE` |
| when a crash follows the registration of a part of the highest slot, the rest is built on the wrong parent | `2025-05-06-124637_fix_queries/up.sql:59` | `ProducedFormOneChain`, `Count <- TwoBlocks`, `Faults <- Crashes`, one fault |
| a second queued event moves the cursor above slots the first one asked to regenerate | `rollup_indexer.rs:220` | `UpdatedSlotsRegenerated`, two reorgs, two queued |
| a crash between the replacement of a block and its event leaves blocks of the old content | `solana_block_loader.rs:540` | `StaleOnlyIfMissed` with an empty `missed` on the right |
| a reorg of the first produced slot, or a crash before the first registration, makes every start panic | `engine_api_block_producer.rs:134` | `ParentKnown`, one reorg or one crash |
| a failure between the two transactions of `blocks_produced` leaves blocks without receipts | `pg_storage/ethereum_block_storage.rs:719` | `ReceiptsStored` without `cut`, one crash |
| a slot the loader passed over and stores later, below the indexer's cursor, is never parsed, or parsed after its descendants: its blocks are then built on theirs | `rollup_indexer.rs:237` | `NoSlotLost` and, with 5 slots, `ProducedFormOneChain`, both without `late`, `Gaps` |
| `restore_blocks` matches blocks by counting, so a slot inserted before a crash gets the hash of another one | `rollup_indexer.rs:346` | `RegisteredAsBuilt`, 5 slots, batches of 4, `Gaps`, one crash |
| blocks of an abandoned fork keep their numbers, which are then given out twice | `pg_storage/ethereum_block_storage.rs:626` | `OneBlockPerNumber`, `Orphans` |
| expected results are keyed by block number, produced ones by position in the slot: a correct reproduction is reported as a failure | `pg_storage/ethereum_block_storage.rs:261` | `ReproductionRecognised`, a crash and a loss of blocks |
| recovery loads a missing block, compares it with itself and does not store it, although it is to reload blocks "missed in DB" | `solana_block_loader.rs:365` | `MissedBlocksReloaded`, constants of `recovery` |
| with two or more batches of chunks `join_parallel` drops the `WaitNextSlot` of the lookup table, which is then used in the slot it was extended in | `rome-evm-client/src/tx/alt_composed_holder.rs` | `TableWaitsForNextSlot`, one rollup job, atomic, with table and holder, three chunks, `BatchLimit = 2` |
| cross-rollup compositions wait for each other's resources for ever | `rome.rs:199` | `EveryTaskEnds`, `rome_compose` with `NumItems = 2` |

What the models follow and the properties make room for (the exceptions in `NoGaps`,
`EverySlotLoaded`, `FinalizedRowsFresh`, `CheckedBlocksFresh`, `StaleOnlyIfLost`,
`NoSlotLost`, `ProducedFormOneChain`, `ReceiptsStored`, `StopsOnlyWithoutData`,
`ParsedAsStored`, `PanicMeansExecuted`, `HolderWholeWhenExecuted`,
`TableReadyWhenUsed`):

* Recovery. The walk follows the parent stored with a stale block, so the parent
  of the new block may never be checked. `select!` may return `Ok` although the
  check has failed, when both tasks are ready; events still queued are lost when
  the process then exits. A tip that is not final fails the check.
* Client. A response the client cannot read (`SerdeJson`), code -32007 and any
  `RpcError` of the last provider become `Ok(None)`
  (`multiplexed_solana_client.rs:84-97`): a slot that has a block reads as an empty
  one and is left out for good, a changed block as unchanged; a transaction answered
  in this way is dropped from its block (by reading). -32011 is a panic and ends the
  task. A slot a provider reports as missing from long-term
  storage (-32009) is an error, so it never loads if all say so.
* Sending. An error of `send_and_confirm` says nothing of the transactions in flight
  (`tower.rs:61-99`): when the caller gives the resource back, a chunk that lands late
  starts the holder of the next task anew, and a late dealloc or part of a table frees
  or replaces the next task's table. `get_alt` finds any table of the holder and chain
  id (`alt.rs:120`): after an error, when the dealloc or a part of the alloc was lost,
  the machine goes on with a stale or partial table.
* The unwrap. `send_and_confirm` unwraps the last signature of a list that is empty
  after a resubmission, or when an executed transaction got no `Ok` answer
  (`rome.rs:295`): it panics after success. The slack of a fifth on iterations is
  truncated and vanishes below five (`RomeTx!IterationsSent`).
* Reassembly. `is_data_complete` accepts a gapless prefix; after a restart, or when
  pruning has forgotten the transaction, the walk stops there, decoding fails and
  every later attempt fails in the same way. A hash sent both whole and through a
  holder aborts `register_slot_transactions` at a point that depends on the order
  of a `HashMap`; other transactions of the slot are lost with a warning, and a later
  parse may panic (`default_tx_parser.rs:222`).
* Logs. A cut log loses the transaction, or only its gas. The first result of a
  hash in a Solana transaction is kept, the later ones are dropped.

By reading only (not reachable in the models' inputs, or not modelled):

* `num_retries = 0` underflows in `plex_with_retries`; `start_slot = 0` makes the
  recovery walk loop (the parent of slot 0 is 0); a program instruction without data
  would panic in `register_block`;
* two hashes finished in one Solana transaction share an index in `finalize_slot`,
  so one survives; the log of a Solana transaction with several executions gives
  all of them the last result and all events; identical deposits in one slot
  collapse, deposits of a slot share `l1_log_index`;
* `build_svm_tx` constructs `SvmCompositeTxError` and does not return it;
* `retain_from_slot` of both PostgreSQL storages is a no-op;
* `join_all` in `start_indexing` reports the failure of one task only when the other
  has ended as well (`standalone_indexer.rs:52`);
* `ServiceRunner::run` runs a service again that has returned `Ok`, and
  `SolanaBlockIndexer::index_slots` then starts from the same slot or, without one,
  from the current slot: blocks are sent twice or left out;
* `available_holders`, "the number of available holders", counts the ones in use
  (`rome-utils/src/holder/factory.rs:22`).

The passing runs of `RollupIndexer` state what holds in spite of these: where a
property fails in one of these cases, it is listed in the runs in which the case
is excluded by the constants (no reorgs, one fork, no slot passed over, one block per
slot) or exempted by a history variable, and the weaker property that survives
(`StaleOnlyIfMissed`, `ProducedFormOneChain`) in the others. `rollup_crash` and
`rollup_reorg` have an upsert that works or fails, so that the paths of a reorg are
checked for the storage the trait promises and for the one there is.

## 6. Plan

The order followed so far: loader and its storage; indexer and its storage; holder;
transactions and resources; parsers; client and recovery. What is left, in this
order:

1. Proofs: `OneChain` weakened, so that the theorems of `RollupIndexerProofs` that
   assume it cover slots of several blocks and abandoned forks.
2. Composition of the loader's model and the indexer's: the loader's environment
   steps in `RollupIndexer` as a refinement of `SolanaBlockLoader`.
3. `SolanaBlockIndexer` and the clock under `ServiceRunner`, with the pending
   transaction indexer of `op-geth` as a client.
4. The relayer's storage, whose finalization is a loop of its own.

## 7. What is left out, and why

* `op-geth`, PostgreSQL, the programs on Solana and the Solana network are external;
  they are modelled by what the code relies on (a deterministic block builder, atomic
  transactions, instructions applied in order, a chain whose final part does not
  change).
* Byte-level decoding of instructions, RLP, ABI, base64 and JSON, and the wording of
  revert reasons: large data without control.
* The read queries for RPC clients (`client.rs`, the header and transaction queries of
  the storages) change no state.
* Relayer storage, Solana block indexer and clock, services, pending transaction
  indexer: planned (section 6).
* The single-state and dummy producers and the in-memory storage are stubs.
* Data availability clients, observability and configuration are pure I/O.
