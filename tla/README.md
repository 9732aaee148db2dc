# A TLA+ model of the Telcoin explorer indexer

The program (crate `tn-block-explorer-indexer`) runs inside a Telcoin observer
node as an execution extension. It derives a SQLite index from the blocks the
node executes and serves it, together with direct reads of the node's own
databases, over HTTP. The question this project asks: **is what the API serves
always an exact image of a whole prefix of the chain**, whatever replay, a
lagging notification channel, loop errors, shutdown, kill -9, power loss and
schema upgrades do? And, of the answers that are put together from several
reads of a node that keeps moving: **do the parts of one answer fit together**?

## Inventory

| Component | State | Operations | Talks to |
|---|---|---|---|
| Block extraction (`extract.rs`) | none | `extract_block`, `decode_transfer_log`, `decode_consensus_fields` | called by the loop |
| SQLite block write (`storage.rs`: `Writer`) | seven tables, `meta.last_indexed` is the cursor | `token_fetch_states`, `index_block`/`apply_block`, `last_indexed` | written by the loop only |
| Schema migration (`storage.rs`: `open`, `configure`, `migrate`) | tables and `meta` rows of the file | inspect, drop, create, stamp, chain-id check | once, at start |
| Indexing loop (`exex.rs`) | control point, the block in hand | start, `catch_up`, `index_chain`, live/`Lagged`/closed notifications, `report_progress` | node channel, Writer, NodeReader, status |
| Status (`status.rs`) | `last_indexed`, `node_tip`, `live` | monotonic stores, `lag`, `LiveGuard` | written by the loop, read by `/health`, `/txs/{hash}` |
| SQLite-backed routes (`api.rs`, read side of `storage.rs`) | none; each request holds what it has read | page, count, token metadata, hydrate, number batches | ReadPool, status, NodeReader |
| Read pool (`storage.rs`: `ReadPool`) | connections, permits, queue | `with_conn` | routes |
| Node reader (`node_reads.rs`) | permits, queue | `read`, `hydrate_pointers`, page arithmetic, epoch and consensus reads, contract calls | routes and loop |
| Node-backed routes (`api.rs`) | none; each request holds what it has read | feeds, leader board, epochs, consensus outputs | NodeReader |
| Stats cache (`api.rs`) | the cached answer and its time | read, refresh, write back | NodeReader |
| Wire types (`types.rs`), entry (`main.rs`) | none | formatting; installation | |

What is hard here: the loop, the node, the channel and every API request are
separate tasks; the replay range and the live channel overlap and may both miss
blocks; commits are atomic but not synced one by one; the migration is not a
transaction; every API answer is put together from reads made at different
moments. PROJECT.json lists these as hazards, each with its line and its
properties.

## Modules

| Module | What it is |
|---|---|
| `Extract` | `extract.rs` as pure operators on a block record. Vectors of rows are sets: each row carries its position. `Option` is a set of at most one element. |
| `ChainRef` | The chain, and what each block has to contribute, stated independently of `Extract`; the assumptions about the node's chain. |
| `Storage` | The file's content as a record of tables; `apply_block` and the SQL conflict clauses as operators. |
| `ExactIndex` | When a content is right, table by table, compared with `ChainRef`. |
| `Status` | `IndexerStatus`. |
| `Indexer` | The loop with node, channel, file, status and crashes. One action per operation. |
| `IndexWriter` | The same, as the API's SQLite reads can observe it: execute, open, index one block, publish, close, checkpoint, restart. |
| `DerivedIndex` | The promise to readers: the view is always that of a whole prefix. |
| `ApiReads` | One API client beside `IndexWriter`; each SQL statement is a step. |
| `Migration` | Opening the file, statement by statement. |
| `BlockingReads` | The two gates of blocking reads: `ReadPool::with_conn` and `NodeReader::read`, with queues, permits, connections, detached closures, panics and disconnects. |
| `Paging` | The page arithmetic, with the width of its integers. |
| `Feeds` | `/blocks`, `/txs`, `/txs?type=` and `/validators/leaders` over a growing chain. |
| `EpochReads` | The epoch and consensus routes over the node's counters, records, packs and EVM state. |
| `StatsCache` | `/stats` and its cache. |
| `ContractReads` | The metadata fetch of the loop, call by call. |
| `StorageProofs`, `IndexerProofs`, `ApiReadsProofs`, `MigrationProofs`, `BlockingReadsProofs`, `NodeReadsProofs` (`Paging`, `EpochReads` and `Feeds`), `StatsCacheProofs`, `ContractReadsProofs` | Theorems and proofs. |
| `SampleChain`, `MC...` | The instances the runs use. |

`Indexer` implements `IndexWriter` and `DerivedIndex` (both proved and checked),
and `ApiReads` composes the routes with
`IndexWriter`: what is checked of the routes beside the small writer holds
beside the loop. `Feeds` and `EpochReads` are built on `Paging`, `ContractReads`
on the token table of `Storage`.

### How state and actions correspond to the code

`Indexer`. `pc` is the control point of `indexer_exex` with the calls it makes
inlined: `down`, `api_up` (API spawned), `catch_up`, `replay_from`, then
`segment`/`fetch`/`set_last_indexed`/`set_node_tip` for `index_chain`, and
`live` (awaiting `next_notification`); `failed` (open errored), `dead` (the loop
returned an error or panicked; the API lives on) and `stopped`. `next` and `hi`
are the block in hand and the end of the replay or live segment. Every await
point of the loop separates two actions, so blocks are executed, announced or
dropped, checkpoints happen and the process dies between any two of them.
`index_block` is one action: it is one SQLite transaction on the only writing
connection. `db` is the committed content; `wal` holds every committed content
a power loss may fall back to (`synchronous = NORMAL`), a checkpoint empties it.

`Migration`. Each statement of the DROP and the DDL batch is a step, since both
batches run in autocommit mode. Losing unsynced statements in a power loss
leaves a file an earlier kill could have left, so `Restart` covers it.
`StatementFails` is any statement's error (disk full, a lock held past the busy
timeout, a stored chain id that does not parse): `open` returns it, and what ran
before stays in the file. `bailed` is the refusal of another network's file.

`ApiReads`. `req` is one request in progress. Rows, count and token lookups see
the content committed at their own step. `owed` and `seen` record what a client
walking the pages was owed and has been shown, `claimed` the height `/health`
showed before it asked for the page; they are for the properties only. A walk is
the client's, so it survives the process: a restart breaks the request under way,
the client asks for the same page again (`Retry`), and goes on from there over
whatever the new process serves. If that restart was a power loss, the newest
blocks are gone; `lost` counts the rows it took back from the list. A request
for a single object is dropped with the process that was answering it.

`BlockingReads`. A client is a connection that makes one request after another;
`rest` is the gates its handler still has to pass. `Acquire` is the semaphore
handing a permit to its oldest waiter, `Run`, `Work` and `Leave` are the closure
on the blocking pool, `Disconnect` drops the handler: a waiter leaves the queue,
a closure that was spawned runs on with its permit. The SQLite closure returns
its connection before it ends and its result with its end; the node closure
sends its result first and drops its permit afterwards.

`Feeds`. `tip` and `indexed` grow between any two reads. `fetch` is one request;
the total and the rows are separate steps, and the rows are computed from the
total by the code's arithmetic, never filtered from a list. Transactions are
numbered through the chain as in the node's database: `FirstTx` gives the first
number of each block. A pointer to a block the node does not have is an error of
the page, as in `hydrate_pointers`. The leader board reads its headers one step
at a time, into counts per beneficiary, and is sorted at the end. `owed` and
`seen` are those of `ApiReads`, for a client that walks a feed.

`EpochReads`. Every await of a handler separates two steps, and the node moves
between them: it writes an output to its pack (`tail`), then counts it
(`latest`), executes its blocks (`canonical`) and persists them (`committed`),
writes the epoch's record while the epoch is still the latest one, and its
certificate later. `missing` is the sealed epochs whose pack the observer does
not hold, `Burns` the validators removed from the registry in mid-epoch.

`StatsCache`. The reads of a refresh are single steps, `taken` is when it began.
Time is a counter; `MaxRefresh` is the longest a refresh may take, a parameter
the staleness bound is stated in, not a promise of the code.

`ContractReads`. Returned bytes are described by what the two decoders make of
them: ABI string, text of the 32-byte word, integer. The three calls of a fetch
are steps; the contract may be upgraded, and the process may stop, in between.

Small deliberate abstractions: addresses, digests and amounts are opaque; token
name, symbol and decimals are reduced to the status byte; hex encodings are
injective and left out; columns no property reads (`fetched_at`) are left out.

### External behaviour taken as given

From how `src/` uses the node: blocks are committed before they are announced;
heights never rewind (`status.rs`: "TN heights never rewind") and the node's
database survives a crash; `replay_from(start)` yields `[start, tip at the
call]` in order; a slow receiver loses the oldest notifications and then sees
`Lagged`; consecutive live segments continue each other; the batches of one
consensus output are executed as consecutive blocks (`ContiguousOutputs`), the
n-th batch as the n-th block (`BatchesInOrder`); a stored block has one receipt
per transaction, and genesis has no transaction (`NodeAssumption`); transactions
are numbered through the chain in 64 bits, and a receipt's cumulative gas adds
its own to that of the receipt before it (`TablesInOrder`).

Of the consensus store (`EpochsInOrder`, `BlocksInOrder`, `SeatsAreLive`): epochs
follow one another, each closed by the last of its outputs; outputs execute in
order, and a closing output always has a block (`extract.rs` 150: "the empty
epoch-closing block"); a validator removed before an epoch began has no seat in
it. Of the contract calls (`AnswersAreTheContracts`, `AnswersDecode`): a
contract's own answer is never a fault of the node, and of all 32-byte words
only the zero word decodes as an ABI string (`node_reads.rs` 899-901). TLC
evaluates all of these on the instances.

## Runs

The sample chain has genesis, two blocks of output D1 and one of D2; a
self-send, a contract creation, four kinds of log of which only one is an ERC-20
transfer, a token that transfers in every block (so its metadata can fail, be
retried and become terminal) and one that joins later.

| Run | Result |
|---|---|
| `indexer` | All ten properties hold, the two refinements included; 228,628 states. |
| `indexer_live` | Every executed block is eventually indexed while the loop runs; chain of three blocks, 41,980 states. |
| `api_reads` | Seven properties of the SQLite-backed routes, walks over restarts included; 2.6 million states. |
| `migration` | Four properties of opening; 6,342 states. |
| `blocking_reads` | Occupancy, exclusive connections, no refusal before a panic; 134,000 states. |
| `blocking_reads_live` | Everyone is served, the loop too; 113,000 states. |
| `feeds` | Pages, gas, walks and the leader board against their references; 12,669 states. |
| `epoch_reads` | Six properties of the epoch and consensus routes; 136,079 states. |
| `stats_cache` | Bounded staleness of every answer given, cached or fresh, and coherent answers; 1.8 million states. |
| `contract_reads` | Deserved token rows, no contract ends the loop; 2,864 states. |
| `dead_loop_lag`, `foreign_file` | Violations: see findings. |

Bounds. `MaxHeight` 3: two blocks of one output and the start of another, so a
range is seen growing, ending and being followed, and a token goes through
first failure, retry and terminal failure. Overflows, crashes, loop deaths and
checkpoints are not bounded. Page size 1 makes every list several pages long.
`MaxLost` 2 bounds how many rows restarts take back from one walk: enough for one
loss of two rows and for two losses of one, the same row twice included.
`MaxRestarts` 3 lets a migration be interrupted, interrupted again in its repair
and finished. `U64_MAX`, `ROUND_SPAN` and `WORKER_SPAN` are scaled down; the
theorems hold for every value. The liveness run uses one block less. Deadlock
is checked except for `Migration`, which ends in `open`, `bailed` or `failed`.

`blocking_reads` has two connections and one node permit for three clients, so
that both gates have a queue, and more names for closures than permits, so that
abandoned ones can pile up if they are let. One panic is enough to empty half
the pool. The liveness run has one permit at each gate: the tightest there is.
`Paging` runs with `MAX_U64` 63 and `MAX_I64` 31, and page numbers at and beyond
both; the theorems about `Paging` cover the real widths. `feeds` has four blocks, one of them
empty and one with several transactions, split over pages. `epoch_reads` has six
outputs in three epochs, starts from genesis or in mid-history, and pages of one
to four rows; `stats_cache` two clients and time enough for two expiries;
`contract_reads` an ERC-20, a token with 32-byte names, a contract that answers
zero to everything, one that is no token and a proxy that becomes one.

Fairness. `indexer_live` and `dead_loop_lag` assume weak fairness of the loop
(tokio polls a ready task) and of announcing committed blocks. Nothing is
assumed of starting, execution, overflow, crashes or errors.
`blocking_reads_live` assumes that the runtime polls a ready handler, that the
semaphore hands a free permit on (tokio's is first in, first out), that the
blocking pool runs what was spawned and that a read of a database ends; nothing
is assumed of clients asking, disconnecting or of panics.

## Findings

1. *A dead loop does not show a growing lag* (`dead_loop_lag`). `exex.rs` 13-16
   and `status.rs` 4-6 say lag grows; `node_tip` is stored by the loop only, so
   it freezes. `indexing_live` does become false.
2. *A foreign file of an old schema is taken over* (`foreign_file`). The drop
   precedes the chain-id check that README line 136 calls a hard error. The rows
   served are still right (`OpenRowsAreOurs`): the foreign ones are gone.

Observations. Reading the code for the models showed other places where a
document says more than the code does. They are not checked by a run of their
own; where a property touches them it is stated so that the code keeps it.

* `/health` reports lag 0 between the API's start and the first `catch_up`
  (`exex.rs` 59-74 and 126), over an index that may have nothing of the chain;
  README line 146 takes `lag == 0` for completeness.
* A page whose row offset exceeds `2^63 - 1` is an internal error on the
  SQLite-backed lists (`api.rs` 159: the product saturates, and `rusqlite` cannot
  bind it), while `/blocks` and `/txs` answer an empty page.
* A client that pages through a list by number while the node loses power may
  miss rows that are still indexed: the newest blocks are taken back, so every
  later row moves towards the first page (`api.rs` 156-161: the offset is page
  times page size). With rows r3, r2, r1 and one row a page: page 0 shows r3,
  its block is lost, page 1 shows r1. `WalkMissesAtMostLost` says how far this
  goes: the walk misses no more rows than were taken back, one that is lost,
  indexed again and lost again counting twice.
* `closes_epoch` of the outputs of epoch 0 is `false`, not `null`, while the
  chain has only the seeded record of epoch 0 (`api.rs` 1093-1099; README line
  121). `OutputExact` therefore excepts epoch 0 from its last part.
* `/epochs/current` reads its epoch at the canonical tip and `latest_block` from
  the database, which may be behind (`node_reads.rs` 447-448, 823-825).
* `POST /call` to a contract that halts is an internal error: a halt comes back
  as one (`node_reads.rs` 876-878), and only the metadata fetch tells the two apart.

## Proofs

Proved by TLAPS for every chain that satisfies `ChainAssumption` (numbered
blocks, natural difficulty, finitely many transactions per block) and
`ContiguousOutputs`, every height, every value of the widths
(`WidthAssumption`):

* `StorageProofs`: extraction yields the reference rows (`AddressRowsExact`,
  `TxTypeRowsExact`, `TransferRowsExact`, `ConsensusRowExact`); the counter
  upsert (`CountsStep`) and the range upsert (`RangesStep`) keep their tables
  exact; and `WriteBlockExact`: the transaction of block cursor + 1, with a row
  for each token that needed a fetch, takes an exact file to an exact file.
* `IndexerProofs`: the inductive invariant `IInv`, and from it `TypeOK`,
  `IndexIsPrefix`, `CountsExact`, `RangesExact`, `TokensExact`, `NeverAhead`,
  `NoGap` (the block in hand is never beyond cursor + 1), `CursorStepwise` and `TokenStatusMachine`.
* `IndexerProofs`: `Spec => ImplementsIndexWriter` and
  `Spec => ImplementsDerivedIndex`: an exact file shows the view of its own
  cursor (`ExactView`), so a block transaction is the abstract `Index` and a
  power loss, which falls back to an exact and earlier content, is `Lose`.

For every chain as above whose blocks have receipts (`NodeAssumption`,
`BatchesInOrder`), every page size and every set of selections
(`PageAssumption`):

* `ApiReadsProofs`: all seven properties of the SQLite-backed routes:
  `TxDetailExact`, `TotalCoversAnswer`, `TokensFromCache`, `NoDanglingPointer`,
  `WalkMissesAtMostLost`, `BatchNumbering`, `NoHoleInPage`. See below for the
  invariant.

For every history of files, versions and restarts (`MigrationAssumption`):

* `MigrationProofs`: `OpenMeansCurrentSchema`, `CursorMatchesRows`,
  `OpenRowsAreOurs`, `RefusalHarmless`. The invariant says, for each statement of the drop and of
  the DDL, which tables are gone or made so far; `meta` is dropped after the
  derived tables, so a file whose drop was cut off still shows its old version
  and is dropped again. A failed statement stops where a kill could have
  stopped. That a refused file is whole: a chain id is written only after
  the version is stamped, behind all the tables, and goes with `meta`, so one
  that is still there at the check was met over a finished schema.

For any number of clients, permits, connections, outputs, epochs and contracts,
from the assumptions named in the modules:

* `BlockingReadsProofs` (`PoolAssumption`): `TypeOK`, `OccupancyBounded`,
  `ConnsExclusive`, `RefusedOnlyAfterPanic`. Occupancy is bounded because every
  closure on the pool and every free permit together are the permits of the gate
  (`PermitsKept`), which a disconnect does not touch; a permit is worth a
  connection because pooled, borrowed and lost connections together are all of
  them (`ConnsKept`) and only a running SQLite closure, which holds a permit,
  borrows one (`RunningHoldsConn`).
* `NodeReadsProofs`, on `Paging` (`PagingAssumption`): a page is exactly its
  slice (`PageExact`), pages are disjoint and cover the feed (`PagesDisjoint`,
  `PagesCover`), growth moves an item to the same or a later page
  (`GrowthOnlyDelays`), and what a page of outputs names passes the bounds check
  of the detail route (`NumbersStored`).
* `NodeReadsProofs`, on `EpochReads` (`EpochAssumption`, `EpochsInOrder`,
  `BlocksInOrder`, `SeatsAreLive`): all six properties of the run:
  `EpochRowsExact`, `CurrentIffOpen`, `PinnedCommittee`, `NoTipRace`,
  `ShownIsReachable`, `OutputExact`.
* `NodeReadsProofs`, on `Feeds` (`FeedAssumption`, `TablesInOrder`), for every
  chain, page, page size and window: all three properties of the run,
  `PageIsSlice`, `FeedWalkMissesNothing`, `LeadersExact`.
* `StatsCacheProofs` (`StatsAssumption`): `StalenessBound`, `StatsCoherent`. The
  age of a refresh in progress is bounded (`AgeInv`), and each value read so far
  bounds the ones still to be read (`ReadInv`), because tip, transactions and
  epoch only grow.
* `ContractReadsProofs` (`ContractAssumption`, `AnswersAreTheContracts`,
  `AnswersDecode`): `RowsAreDeserved`, `DiesOfFaultsOnly`. What has been decoded
  of a token so far is answered by some version, and a field every version
  answers is never missed by a call that was made (`FetchInv`); what is staged or
  committed is deserved (`RowsInv`), and the escalation of the upsert touches
  failures only (`UpsertDeserved`).

Why the loop's `IInv` is needed. "The index is a prefix" is not inductive: the write is
right only for block cursor + 1, which the code does not check. `SegmentInv`
says the block in hand is at most that, and `DeliveryInv` why: unless `Lagged`
is pending, whatever the channel delivered or dropped is indexed or part of the
segment in hand. `DiskInv` asks exactness of every content a power loss may
restore, and `FetchInv` that the fetch loop leaves no needed token out. The
range upsert needs `ContiguousOutputs`: a stored output that block n continues
ended at n - 1.

The invariant of `ApiReads`. No statement of a handler sees the content another
one saw, so the invariant says of everything a request holds that it is still
true of the content now. `WriterInv` is the loop's: the file, and every content
a restart may bring back, is exact (from `WriteBlockExact`). `RowsInv` bounds the
rows of a page by what is committed, `TotalInv` the total from below by the rows
read before it and by what the client had been told when it asked for the page, `TxInv` says that a
transaction whose block was published has all its transfers, because the status
follows the commit. `WalkInv` is the heart: the place of a row is the number of
rows that come before it in the order of the page. Of the owed rows that have not
been shown, at most `lost` have slipped, that is, are gone from the index or have
a place before the offset of the next page; all others are still to come. While
the index grows none slips, since it only adds rows that come before and places
only grow. A power loss takes back the newest rows, which come before all that
are kept (`KeptByBlock`, `NewestFirst`), so it moves every kept row forward by
the number of rows taken back at most. A row that newly slips, gone or moved, had
a place at most that far behind the offset (`ShiftBounded`), and no two rows share
a place, so no more slip than were taken back (`Slippage`). An empty page has no row at or
behind its offset. `NumbersInv` and `PageRangesInv` say the ranges read so far
are of committed blocks and that an older output was complete when a newer one
had a block.

The invariant of `EpochReads`. The argument is one sentence in code comments and
takes five awaits to go wrong: every epoch below the snapshot of the current
epoch has its own record, at any later moment too. `NodeInv` has it as: no output
follows a closing one before the record is written. `EpochInv` then keeps each
finished row, the record in hand and the pin final under all the node writes;
`BoundInv` does it for the numbers about to be read, `BlockInv` for the output of
a block, `OutputInv` for the keys. The pinned committee needs arithmetic on the
registry: at the last block of epoch e - 1 the number of closed epochs is e
(`PinnedRegistry`), and `SeatsAreLive` keeps the burns out.

The invariant of `Feeds`. `WalkInv` says of every page in progress that it shows
a feed as it was at some moment, no longer than it is now, and that what the
client is owed and has not been shown lies at or behind the page's offset in
that feed (`Remaining`). Growth only pushes items back (`RemainingGrows`), a
page takes exactly the items at its offset (`ItemsAreSlice`, from `PageExact`),
and a page is empty only when nothing lies at or behind its offset. That the
walk never meets a block the node lacks follows from the same bound on the
feed's length. Where a transaction number lies in the chain is found with the
least-number principle (`TxLocated`), and one step of the cumulative gas gives a
row its own (`RowIsExact`), so nothing here needs a fold. `LeaderInv` says the
counts are the cardinalities over the headers read so far; reading one more adds
one element to one of those sets (`CountHeaderKeeps`).

The inductive invariants of `ApiReads`, `EpochReads`, `Feeds`, `Migration` and
`ContractReads` were also checked by TLC on the instances of their runs.

Model-checked only: liveness (`EventuallyIndexed`, `EveryoneServed`), which rests on fairness and is out of the prover's reach.

## Not modelled

Hex, base58 and display amounts, the remaining wire types; CORS, routing and
request parsing (400); `main.rs`; `/validators` and `POST /call`, single reads
without state; torn reads of the three relaxed atomics by `/health`; SQLite corruption; BLS
verification; I/O errors of the node's databases, except where a property is
about them (`BlockingReads`, `StatsCache`, `ContractReads`). `PROJECT.json` gives
the reason per component.

## Plan

Everything that keeps state or is put together from several reads is modelled,
and every safety property of a run is proved. What is left is to follow the
code: a change to a handler is a change to its action, and the run says at once,
the proof step of that action soon after, whether the argument still holds. The
parts above that are not modelled become worth it when they get state of their
own.
