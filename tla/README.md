# Spectraplex: a TLA+ verification project

Spectraplex is a self-hosted blockchain indexer. An HTTP API accepts work and
stores it in Postgres; background workers of the same process, or of other
processes on the same database, carry it out. The server may be stopped, killed
or paused at any moment and the providers and sinks it calls may fail, so the
code's correctness rests on a small number of SQL guards, heartbeats and file
renames. This project models those, checks them with TLC and proves what matters
most with TLAPS.

All source paths below are under `src/`.

## 1. Inventory

### The parts, their state and their operations

| part | source | state | operations |
|---|---|---|---|
| Ingestion queue and worker | `api/src/worker.rs`, `adapters/src/v2_repo.rs` 4881-5190, `adapters/src/workbench_repo.rs` 81-123 | `ingestion_jobs`, `ingestion_job_attempts`, `ingestion_runs`, the v2 checkpoints; per worker the job it executes, its heartbeat task and its `lease_lost` token | enqueue, claim, heartbeat, mark running, create run, backfill, lease-fenced commit, complete, fail, callback, shutdown |
| Solana history connector | `adapters/src/solana_history.rs` | the two-ended checkpoint (`last_signature`, `before_signature`, `history_exhausted`) | page signatures, probe for overflow, build the next checkpoint |
| EVM connector | `adapters/src/evm.rs` | the block checkpoint; the chain, which may reorganise | confirmed window, chunked scans, retries, enrichment with header check |
| Hyperliquid connector | `adapters/src/hyperliquid.rs` | a millisecond cursor per event stream | window paging, cut pages, market rates |
| Materialization runs and worker | `api/src/materialize_worker.rs`, `v2_repo.rs` 5847-6000, 6362-6390 | `materialization_runs`, `dataset_watermarks` | create, claim, heartbeat, normalize, complete, fail, watermark upsert |
| Silver and gold materialization | `adapters/src/dual_write.rs`, `adapters/src/ledger_derivation.rs`, `core/src/materializer.rs` | Silver tables, `wallet_ledger`, `balance_history`, the Hyperliquid tables, `dataset_completeness` | extract Silver, replace ledger slices, replay balances, rebuild analytics |
| Parsers and analytics | `adapters/src/*_parser.rs`, `hl_analytics.rs`, `protocol_analytics.rs` | none of their own | payload to rows, rows to ledger, trades, summaries |
| Export queue and worker | `api/src/export_worker.rs`, `api/src/export_stream.rs`, `v2_repo.rs` 5549-5719 | `export_jobs`, temp files, artifacts, provenance files, what sinks received; the page channel and its token | enqueue, claim, heartbeat, select, page and write rows, confirm the lease, publish by rename, deliver, complete, fail |
| Stream subscriptions and orchestrator | `api/src/stream_worker.rs`, `v2_repo.rs` 5250-5460 | `stream_subscriptions`, the orchestrator's running set, batches in memory | claim, heartbeat, release, fail, set desired status, flush a batch, update the cursor |
| Stream sources | `adapters/src/solana_grpc.rs`, `adapters/src/hyperliquid_ws.rs` | the slot checkpoint, retries, the channel to the stream task | connect, deliver, back off, resume, give up |
| HTTP API | `api/src/main.rs`, `api/src/workbench.rs` | `api_keys`, `index_targets`, the job tables; rate-limiter buckets, semaphores | authenticate, check ownership, create, list, read, import |
| Configuration and provider registry | `core/src/config.rs`, `core/src/provider.rs`, `core/src/connector.rs` | the registry of one process | merge, resolve, preflight |
| CLI and compatibility layer | `cli/src/main.rs`, `adapters/src/repo.rs`, `adapters/src/compat.rs` | the V1 tables | ingest, normalize |

### How they interact

The API writes a job row and returns. Each process starts one ingestion worker,
one export worker, one materialize worker and one stream orchestrator
(`api/src/main.rs` 335-391), each with an id made of a fresh UUID. They share
nothing in memory except `job_semaphore` (exports and materializations) and the
shutdown token. They meet in the database:

- an ingestion commit queues a materialization run for the rows it stored;
- a materialization moves the dataset watermark and completeness of the wallet;
- every row is claimed by an `UPDATE` guarded by status and heartbeat age (five
  minutes), kept by a heartbeat every 30 seconds, and finished by an `UPDATE`
  guarded by worker id and status;
- a heartbeat that is refused cancels `lease_lost`, which the executing task
  looks at between steps.

### What is hard here

- *Interleaving.* A worker presumed dead may be alive: paused, cut off from the
  database, or merely slow. Two workers then execute one job at once.
- *Stale flags.* `lease_lost` lags the row by up to a heartbeat, and for ever
  while heartbeats fail.
- *Fencing by worker id.* Guards compare the worker id and not the attempt, so
  a worker that reclaims a job it once had cannot be told from its former self.
- *Partial failure.* A statement that returns an error may have been applied;
  operations of two statements may stop between them; shutdown drops
  `worker_tick` at whichever `await` it is in.
- *Last writer wins.* Overlapping jobs on one target read a checkpoint, page for
  minutes, and write it back whole.
- *Progress.* Abandoned work must be taken up again in every phase; a writer and
  a reader joined by a bounded channel must not wait on each other.
- *Checked in one statement, used in another.* Ownership, checkpoints, balances,
  coverage and the provider registry are read before what they guard.
- *Two accounts of one thing.* V1 and V2, the pipeline's ledger and the
  library's, PnL summaries and trades are written separately and must agree.

`PROJECT.json` lists the hazards one by one, at their lines, with the properties
that would catch them.

### What makes each part correct

- *Ingestion*: a cursor never passes data that is not stored and queued for
  materialization; effects belong to the newest attempt; reported success is
  durable; every job ends.
- *Connectors*: nothing up to a checkpoint is missing, whatever overlaps, is cut
  or reorganised; repeated jobs reach the end of the history.
- *Exports*: no partial file is ever downloadable or delivered; a completed job
  has its artifact and provenance, and was delivered by the claim that completed
  it; every job ends.
- *Materialization*: what a completed run produced is whole, and the watermark
  never steps back; balances add up whatever the order of the runs; the ledger of
  a transaction is what it did to the wallet, once.
- *Streams*: every running stream can be stopped and a stopped one stops, an
  active one is streamed, the cursor never counts a message that was not stored,
  and a broken connection resumes without a hole or is reported.
- *API*: a tenant changes only what is its own and sees besides only transactions its
  wallets take part in, and no key gets more
  requests than the limit.
- *Configuration*: work is read from the network it was accepted for.
- *CLI*: V1 has everything up to a checkpoint, and what normalize heals into V2 is
  visible there and on a network where it happened.

## 2. The modules

| module | models |
|---|---|
| `FencedQueue` | abstract: what a durable job queue promises |
| `IngestionJobs` | ingestion queue, worker, heartbeat task, commit, shutdown |
| `SolanaHistory`, `EvmBackfill`, `HyperliquidBackfill` | the connectors' paging and checkpoints |
| `MaterializationRuns` | materialization runs, the worker loop and its tasks, the watermark |
| `GoldMaterialization` | what a run writes: Silver, ledger, balances, analytics, completeness |
| `SilverLedger` | one payload of each chain through Silver to ledger and balances, and the two V1 parsers |
| `WalletAnalytics`, `ActivityAnalytics` | trades, PnL and market analytics; forensics, protocol activity, TVL |
| `ExportJobs` | export queue, worker, files and sinks |
| `ExportStream` | which rows an export or a query selects, and how they reach the file |
| `StreamSubscriptions` | stream leases, the orchestrator and its stream tasks |
| `StreamSource` | the connection of a stream, its channel and its cursor |
| `TenantApi` | requests of tenants and of the administrator, statement by statement |
| `RateLimiter` | the token buckets |
| `Providers` | configuration, registry, preflight checks, endpoints |
| `DualWrite` | the command line's ingest and normalize over V1 and V2 |
| `CommandLine` | the command line as one program: commands, a payload and the configuration side by side |
| `ApiService` | the API as one service: requests, limiter and analytics side by side |
| `CountingLemmas` | facts the proofs share: least and greatest elements, ranks and stable sorts, sums over sets, loops |
| `IngestionJobsProofs` | the theorems about `IngestionJobs` |
| `MaterializationRunsProofs` | about `MaterializationRuns`, `GoldMaterialization` and `SilverLedger` |
| `StreamProofs` | about `StreamSubscriptions` and `StreamSource` |
| `BackfillProofs` | about `SolanaHistory`, `EvmBackfill` and `HyperliquidBackfill` |
| `ExportJobsProofs` | about `ExportJobs` and `ExportStream` |
| `DualWriteProofs` | about `DualWrite`, `Providers` and `CommandLine` |
| `ApiProofs` | about `TenantApi`, `RateLimiter`, `ActivityAnalytics`, `WalletAnalytics` and `ApiService` |
| `MC*` | instances for TLC. `MCConnectors`, `MCMaterialization`, `MCNormalize`, `MCApi` and `MCProgress` hold several modules that share no variable: `part` says which one runs, and the others rest |

A step is one SQL statement or transaction, one file operation, or one look at a
token. Between two steps everything else may happen. Three conventions are
common to the queue modules:

- **Faults.** A call that returns an error may have taken effect or not: both
  outcomes are disjuncts. They, and leases that expire under a live worker, are
  counted in `faults` and bounded by `MaxFaults`. Errors the code handles as
  ordinary results (a provider error, a refused update) are not bounded.
- **Leases.** Time is not a number: `fresh` says whose heartbeat is under five
  minutes old, and `Expire` makes one old. Expiry of an attended lease (its
  worker or heartbeat task is alive) is a fault; of an unattended one it is
  expected, and under fairness certain.
- **Processes.** `Shutdown` is the cancellation token dropping `worker_tick`
  wherever it is; the detached heartbeat task lives on until `Exit`. A kill is
  the two in a row. Worker ids are fresh UUIDs per start, so a stopped worker
  does not return.

### FencedQueue

`phase`, `epoch` and `effects` of each job; `Submit`, `Lease`, `Effect`,
`Complete`, `Fail`. Only the current epoch makes effects and a job is completed
only by an epoch that made its own.

### IngestionJobs

| TLA+ | code |
|---|---|
| `status`, `lastNum` | `ingestion_jobs.status`, `MAX(attempt_num)` |
| `open`, `fresh` | attempts with `finished_at IS NULL`; those with a recent `heartbeat_at` |
| `runs`, `queued`, `checkpoint` | `ingestion_runs`, `materialization_runs`, the v2 checkpoint |
| `commits` | the batches of `raw_transactions` with their run links |
| `pc`, `att`, `cursor`, `batch` | locals of `execute_job` / `run_connector_backfill` |
| `heartbeat`, `leaseLost` | the spawned heartbeat task and its token |
| `Enqueue`, `Claim`, `Expire`, `Heartbeat`, `MarkRunning` | the statements of `v2_repo.rs` 4881-5100 |
| `CreateRun` .. `Leave` | `execute_job` from top to bottom, early returns included |
| `CommitBatch` | `commit_connector_batch`, one transaction |

A batch is abstracted to the cursor positions it covers; what a connector
fetches between them is `SolanaHistory`'s subject. The SQL `EXISTS` sub-queries
compare the worker id only, and so does `OwnsAttempt`.

### SolanaHistory

Signatures are positions `1..tip`, oldest first, and 0 is `None`. An execution
reads the checkpoint (`Start`), pages (`FetchPage`), perhaps probes (`Probe`),
and commits rows and next checkpoint together (`Commit`), over whatever the
checkpoint has become since. `Newest` and `Available` are the RPC node: it
answers with the newest signatures between two exclusive bounds.

### EvmBackfill and HyperliquidBackfill

An EVM scan reads the checkpoint, derives its window from the confirmed head
(`ScanWindow`), asks each of its queries chunk by chunk (`ScanChunk`, with
`RetryRequest` halving on an error), compares headers (`Enrich`) and commits rows
and checkpoint. The chain mines and, above the confirmations, reorganises at any
moment. A Hyperliquid backfill fetches each kind of event from its own cursor
(`FetchKind`); `BoundedTimeWindow` is the function of that name, which drops the
events of the last millisecond of a full page. A market's cursor is derived from
its rows (`Latest`).

### ExportJobs

`status`, `owner`, `fresh` are the row; `temp`, `final`, `sidecar` the files;
`delivered` what sinks got. `lease` counts claims, tags the files and is read by
no guard: the row has no attempt number, and the properties need one. The
actions follow `execute_export_job` from `Prepare` to `Complete`. The processes
are assumed to share the export directory: with separate ones the file races
vanish. A rename runs on a blocking thread, so a shutdown during it is a
shutdown after it.

### ExportStream

| TLA+ | code |
|---|---|
| `table`, `covered` | a dataset's table; what `dataset_completeness` accounts for |
| `writer`, `file`, `writeErr`, `meta` | `write_export_to_file`, from `fetch_export_metadata` to the flush |
| `reader`, `snap`, `page`, `streamed` | `stream_export_snapshot`, its transaction and its paging |
| `channel`, `cancelled` | the bounded `mpsc` channel, the cancellation token |
| `Joined`, `ExportFilter`, `Unscoped`, `Direct`, `Queried*` | the `WHERE` clauses, one operator per builder |

One table stands for every dataset, and a request says which builder selects its
rows. `ExportJobs` sees all of this as one step that writes a whole or a partial
file.

### MaterializationRuns

| TLA+ | code |
|---|---|
| `status`, `owner`, `fresh` | the `materialization_runs` row |
| `tasks` | the tasks spawned by `worker_tick`, each with its place and its `lease_lost` |
| `written`, `watermark`, `callbacks` | rows stored by a run; `dataset_watermarks`; callbacks sent |
| `Claim` | list, permit, claim and spawn, as `worker_tick` does for one run |
| `ResolveInput` .. `Notify` | `execute_normalize` and the rest of the task, in order |

Unlike ingestion, one worker runs several tasks under one id, and may reclaim its
own stale run: two tasks of one run then pass every ownership check. An
ingestion run is its rank in `started_at` order. What a run writes is one step
here, stored or not: the statements of that step are `GoldMaterialization`.

### StreamSubscriptions

| TLA+ | code |
|---|---|
| `desired`, `owner`, `fresh`, `cursor` | the `stream_subscriptions` row |
| `active`, and a `token` that is `"held"` | `active_streams` and the token in it |
| `loop`, `todo`, `seen`, `releasing` | where the orchestrator's select loop is, and the rows it has listed |
| permits, with `pc`, `sub`, `count`, `batch` | the stream tasks: each holds one permit until it ends |
| `flushed` | history: messages stored |
| `Poll`, `Skip`, `Claim`; `Reconcile`, `CheckStream`; `Drain`, `DrainStream`; `Release` | `poll_and_claim`, `reconcile`, the shutdown drain |
| `Receive` .. `EndFail` | `run_solana_grpc_stream` / `run_hyperliquid_ws_stream`, then `spawn_stream_task` |

Both stream kinds are one task: what differs is how the channel closes.
Messages are counted, not told apart. Reconnects stay inside the adapter
(`StreamSource`) and show as messages or as a closed channel. `list_claimable`'s limit of ten rows is
left out: the instances have fewer.

### StreamSource

| TLA+ | code |
|---|---|
| `conn`, `retries`, `slot` | the connection task with `retry_count` and `SlotCheckpoint` |
| `position`, `held` | external: what the server sends next; the message being sent |
| `queue` | the channel; a full one blocks the gRPC task and drops on the WebSocket |
| `consumer`, `unsaved`, `lastSlot` | the stream task between receive, flush and cursor |
| `saved`, `storedSlot` | `raw_transactions`; `last_slot` in `cursor_state` |
| `firstSent`, `reached` | history |

A server asked for a slot sends all of it again. `"cursor"` is the `Connector`
stream, which takes a stored cursor; nothing in the repository consumes it yet,
and it is given the consumer of the gRPC stream.

### GoldMaterialization

A task is a claimed run; its place `gpc` is the statement of
`materialize_silver_from_bronze` or `materialize_gold_from_silver` it is at.
Inputs are numbered in replay order. `seed` and `suffix` are read before
`Recompute` is written back, so that another task may come between: `raced`
remembers it. `Legacy` inputs were materialized by an earlier release and have a
balance without a delta, which the code refuses to replay over. A failed
statement fails its dataset, not the task, as in the code.

### SilverLedger, WalletAnalytics, ActivityAnalytics

`SilverLedger` takes one payload (fields absent, malformed or a number) through
`validate`, extraction, the unique keys of the Silver tables, the gold ledger and
the balances, as often as `MaxPasses`; beside it run the V1 parsers and the
derivation from Silver. A list of rows is a function of their positions in the
payload, so that dropping rows keeps the positions of the others; `InOrder` lists them
again where the order is compared. The reference is `NetChange`, which reads the
payload and none of the code's operators. `PayloadsAssumption` says what the chains
guarantee of a payload: the accounts of a message and of each side of the token
balances are distinct, so are the log indices, a failed transaction moved no token and
of native balances only its payer's fee.

A token is an address and is booked under a symbol (`Symbol`): a table names the known
ones, several of which have one symbol, and an unknown token is its own. Wrapped SOL is
booked as `SOL`, like lamports, so what `LedgerIsNetChange` says of `SOL` is that the
ledger has the lamports and the wrapped SOL of the wallet together (`SolanaChange`).
Amounts are normalized by `10^decimals`, in quanta so small that the result is an
integer: `Quanta[d]` of them are a raw unit of a token with `d` decimals, and 0 decimals
are an amount left raw. The decimals of an ERC-20 come from three places: what its
contract answered, which the payload carries, a table, and a default of 18 for what is
not in the table. Silver asks the first, then the second, and otherwise keeps the amount
raw and marks it unknown, and the gold ledger leaves it out (`HasDecimals`, `LogAmount`);
V1 asks the table and its default (`ParseEvm`). The two ledgers therefore book the same
raw units of a token, each normalized in its own way, and `DerivedMatchesV1` says so:
V1's amount is to Silver's as `V1Unit` is to `SilverUnit`, equal where both read the same
decimals, off by that power of ten where they do not.

`WalletAnalytics` rebuilds `hl_pnl_summary` and `hl_trade_history` while fills arrive in
any order, and answers requests that read the two one after the other. Rebuilds are tasks
of their own, several of one wallet too: each reads the fills, then the payments
(`LoadFills`, `LoadPayments`), and replaces the summaries and after them the trades, in
two transactions. A transaction deletes the rows its DELETE sees and commits its own
(`DeleteSummaries`, `ReplaceSummaries`; `Committed`), so at `READ COMMITTED` two that
overlap leave rows of both, except where the ids agree and the later one overwrites. Either may fail:
failed summaries are counted and the task goes on with the trades (`SummariesFail`), and a
task may stop anywhere (`TaskEnds`). Rows carry the rebuild that inserted them, `pnlBy`
and `tradesBy` the last to replace each table of a wallet, and `raced` the wallets of
which two replacements overlapped. After a failure or a second rebuild the two tables of
a wallet may be of different reads; the code does not prevent it, and
`TradesExplainPnl` says they agree when one rebuild was the last to replace both.
`ActivityAnalytics` answers from the aggregates over exported rows in the same way.

### TenantApi and RateLimiter

A request authenticates (`Request`), is checked (`CheckTarget`, `CheckWallet`),
and acts; each is one statement, and those of two requests interleave.
`NoRow` is an id whose row was never stored: what `create_index_target` returns
on a conflict. A transaction is stored once and matched to every target whose wallet it
moves (`TxAddrs`, `indexed`), of several tenants perhaps. It stands for the rows that are
read by joining on it; ledger and balance rows are of a wallet as well. The ledger of a
target is read through the join alone (`TargetLedger`), so that it holds the rows of
every indexed wallet in its transactions, while the balance history also asks for the
target's address (`TargetBalances`) and the ledger of a wallet for the wallet
(`WalletLedger`). `TenantSeesOwn` says what this leaves of isolation: transactions that
a wallet of the tenant takes part in and their ledger rows, whosever they are, balances
of its own wallets, and its own targets, streams, jobs and keys. That the ledger is the
target's alone is said in the design document and is not so (section 5).
The limiter
counts time in the ticks that restore one token; the observer's window
(`start`, `since`) is history and opens at any moment.

### Providers

`Synthesized`, `Merged`, `EffectiveProviders` and `FromConfig` are the functions
of `config.rs` and `provider.rs`, a list of entries being a function of their
positions and the stable sort by priority the place of each entry's rank; `StartApi` builds the registry or fails.
Accepted work survives `StopApi` and a start with another configuration.
`Serves` says which network an endpoint really is of; only EVM connectors ask.

### DualWrite

Each process runs one command at a time, a step per statement: `StartIngest` to
`WriteCursor`, or `StartNormalize` to `EndNormalize`. V1 rows do not say which
network they are from, V2 rows do, and `ResolveNetwork` decides. `Ghost` is the
unstored id of `create_index_target` again.

## 3. The runs

| run | instance | shows |
|---|---|---|
| `ingestion_reclaim` | 1 job, 2 workers, cursor up to 1, 2 faults, fair | fencing: `CompletedJobCommitted`, refinement of `FencedQueue` (`ImplementsFencedQueue`), and `EnqueuedJobFinishes` |
| `ingestion_race` | 2 jobs on one wallet, 2 workers, cursor up to 2, 1 fault | `CheckpointCovered`, `SuccessIsCommitted` |
| `ingestion_run_status` | as `reclaim` with 1 fault | violation, finding 1 |
| `connectors` | 2 overlapping executions of each connector, fair | no hole up to a checkpoint (`NoHistorySkipped`, `NoBlockSkipped`, `NoEventSkipped`), no row of a replaced block (`RowsCanonical`), and repeated jobs reach the end (`BackfillsDrain`: `HistoryDrains`, `EvmScanDrains`, `HlEventsDrain`) |
| `materialization` | 2 runs, one empty, 2 workers with 2 permits, 1 fault; and 3 runs of 4 inputs by 2 tasks, 1 failed statement or crash | `CallbackMatchesRow`, `CompletedIsWritten`, `WatermarkIsCompleted`; `BalancesAddUpUnraced`, `GoldConsistent` (`DoneIsRepaired`, `AnalyticsCoverDone`, `SucceedsUnlessFaulted`) |
| `normalize` | 2 processes, 3 commands on 2 EVM networks, 1 fault; 10 900 payloads over 5 tokens and their symbols, each materialized twice; 6 configurations | `NetworkIsReal`, `CheckpointIsInV1`, `HealedIsVisible`; `LedgerIsNetChange`, `SilverIsWhole`, `DerivationsAgree` (`BalancesFollowLedger`, `DerivedMatchesV1`, `LibraryMatchesPipeline`); `ProvidersFollowConfig` (`RegistryFollowsConfig`, `FetchFromOwnNetwork`, `PreflightHolds`); `TypesOK` |
| `api` | 2 requests of 2 tenants and the administrator, 1 failed statement, a transaction between two tenants' wallets; 2 keys in 2 buckets; 3 fills and a payment of 2 wallets, rebuilt by 2 tasks with 1 failure, 5 ledger rows, 3 events, 4 snapshots in any order | `TenantSeesOwn`, `TenantRowsAreOwn`, `AnsweredJobIsReadable`; `RateIsBounded`; `TradesAreSound` (`FillInOneTrade`, `TradesIgnoreArrival`, `TradesExplainPnl`); `ReportsAddUp` (`MarketIsSumOfTraders`, `NetIsSettled`, `ForensicsAddsUp`, `ActivityCountsOnce`, `TvlIsLatest`); `TypesOK` |
| `export_reclaim` | 2 jobs, one with a sink, 2 workers, 1 fault, fair | `DownloadIsWhole`, `CompletedByNewestClaim`, `EnqueuedExportFinishes` |
| `export_publish` | 1 job, 2 workers, 1 fault | violation, finding 2 |
| `stream_control` | 1 subscription, 2 orchestrators with 2 and 1 permits, 1 message, 1 fault | `StreamsAreControlled`, `CursorIsBacked` |
| `stream_recovery` | 1 subscription, 1 orchestrator with 1 permit, 1 fault, fair | violation, finding 3 |
| `progress` | an export of up to 7 rows in pages of 2 over a channel of 1, 1 fault; a source with 4 messages, 2 in one slot, 1 retry, 2 tasks, 2 faults; 1 subscription and 2 permits; 2 runs, one with a bad scope; fair | `ExportFaithful` (`FileIsTheSnapshot`, `CoverageIsInFile`, `RowsAreAboutTarget`), `ExportReturns`; `SourceConsistent` (`NoMessageSkipped`, `CursorSlotIsStored`); `StreamsEnd` (`StopTakesEffect`, `SourceEndIsNoticed`); `CreatedRunFinishes` |

Every property also has a mutant: an operator in the module, marked `Mutant:`,
that changes one definition the way a plausible bug would, and under which TLC
finds the property violated. Properties of one concern are checked as one
conjunction, whose parts are given in brackets, with the type invariant of the
module where it has one. The inductive invariants (`IInv`, `SInv`, `EvmInv`, `HlInv`,
`EInv`, `FileInv`, `MInv`, `GoldInv`, `StreamInv`, `SourceInv`, `ApiInv`, `LimInv`,
`DwInv`, `PvInv`, `AnInv`, `AcInv`) and the action properties `FencedCommit` and `WatermarkAdvances` are in no
run: the theorems of section 4 establish them for every value of the constants. Each
was checked by TLC on the instance of its run before it was proved.

### Why the bounds are enough

- Two workers are an owner and a usurper; one fault lets a job be taken from a
  live worker or a call be lost, and two (in `ingestion_reclaim`) let it come back
  to a worker that once had it. Claims of abandoned jobs are not bounded by faults
  but by the workers left: `Shutdown` is final.
- Two jobs on one target are needed, and enough, for two checkpoints to race;
  a cursor of 2 lets one batch start where another ended or inside it.
- A limit of 2 in pages of 1 makes a full result several pages, and 4 signatures
  leave room for exactly `limit`, `limit + 1`, and two results in a row. Blocks up to
  3 under one confirmation, scanned 2 at a time in chunks of 1, give a window of
  several chunks, one that joins the last, and a reorganisation beside it.
- Two permits let a worker execute one materialization run twice, and an
  orchestrator run a stream beside a cancelled predecessor that still flushes;
  the second orchestrator needs one. One message is enough to tell a counted from
  a stored one.
- Pages of 2 of up to 7 rows under a cap of 5 give a short last page, a full one,
  an empty one and a cut; a channel of one page makes each side wait for the other.
- A source needs two messages in one slot (so that a break falls inside it), an
  unreadable one, a retry that is used up, and a second task to resume.
- Four inputs in three runs are an older run after a newer one, two inputs at one
  time, one rejected and one of the earlier release; two tasks are enough to race.
- Two requests are enough because a request holds no lock and what others do
  between its statements is one change at a time; the rows there at the start
  are those several earlier requests would leave.
- Two rebuilds are enough to overlap and to follow a failed one, over a wallet with an
  open and its close and one with funding in another coin. That a second close is paired
  with the opens after the first takes four fills and is left to the proof.
- Two mints of which one is wrapped SOL, two contracts of one symbol with different
  decimals and one in no table, each with and without an answer of its own, are every
  way in which symbols and decimals can mix.
- Three commands are an ingest whose V2 half fails, one from another network or
  another process, and the normalize that heals. Blocks 1 and 2 on one network
  and 3 on the other with a limit of 2 let a first ingest begin late.
- The safety properties of the queues, the connectors, the export stream, the stream
  sources, the API, the limiter, the analytics, the balances, the ledger, the command
  line and the derivations from a payload are proved for all constants (section 4), so
  the runs mainly serve liveness, the violations and the mutants; the bounds carry the
  weight for those.

Symmetry is used over workers, executions or the permits of one process only, in runs without liveness.
Deadlock is not checked where the system may rightly stop: every worker shut
down, or every job finished, every bound reached and none left to enqueue.

### Fairness

- `WF(ExecuteJob)`, `WF(ExecuteExportJob)`, `WF(Execute)`, `WF(TaskStep)`,
  `WF(LoopStep)`, `WF(RunScan)`, `WF(RunBackfill)`, `WF(WriterStep)`,
  `WF(ReaderStep)`, `WF(ConnStep)`, `WF(ConsumerStep)`: every call of the executing task, or of a poll or reconcile that
  has begun, returns. Provider clients have timeouts (`evm.rs` 109-158,
  `hyperliquid.rs` 212, `solana.rs` 33 and 54), sinks and callbacks too (30 s;
  10 s with 3 retries), and database errors are returned.
- `WF(Claim)`: a worker polls again after `POLL_INTERVAL`, and oldest-first
  order with `SKIP LOCKED` starves nobody in a finite set of jobs. For exports
  it also says that a permit is found: permits are released by tasks that end.
- `WF(Exit)`: `main` returns after shutdown and the process ends.
- `WF` of the expiry of an *unattended* lease: time passes.
- `SF(Poll)`, `SF(Reconcile)`, `SF(Cancelled)`: these are arms of `tokio::select!`,
  which chooses at random among the arms that are ready, so one that is ready
  again and again is taken, whatever ticks or messages keep arriving beside it.
- Nothing is assumed of heartbeats, messages, closed channels, enqueues, new
  transactions, shutdowns or faults. The three parts of `BackfillsDrain` are conditional
  on backfills being asked for again and again, for nothing in the code does so
  by itself.

## 4. The proofs

Each is checked by TLAPS for every value of the constants, from the named ASSUME of
the module. Beside bounds in `Nat` and finite sets, the assumptions say:

| assumption | because |
|---|---|
| `EvmAssumption`: reorganisations are no deeper than the confirmations | this is what the confirmations are for; under it the scan's own check of headers (`evm.rs` 602, in `Enrich`) never finds a difference, and only the confirmed window is put to the test |
| `SourceAssumption`: slots do not decrease along the messages | the order a validator streams them in |
| `GoldAssumption`: inputs are numbered in the order of their times | `ORDER BY timestamp, id` of the balance queries (`v2_repo.rs` 4328, 4357) |
| `ApiAssumption`: the initial jobs refer to initial targets, a match is of a wallet that the transaction moves | foreign keys; a match is written by the ingestion of its target |
| `DualWriteAssumption`: blocks are positive | the genesis block has no transactions |
| `ConfigsAssumption`: a file may hold any names, urls and priorities, and any number of entries; the two fixed Hyperliquid urls exist | the TOML types of `AppConfig`; what is wrong in a file is refused by `Accepts`, not assumed away |
| `AnalyticsAssumption`: fill sizes are positive | the exchange reports no empty fill |
| `PayloadsAssumption`: the fields of a payload have their types; the accounts of a message, of each side of the token balances and the log indices are distinct; a failed transaction moved no token and of native balances only its payer's fee; every token has a symbol and decimals, any tokens the same | what the chains guarantee; texts may be absent or malformed, and `ValidImport` decides what is refused |
| `ActivityAssumption`: amounts are numbers | columns of the gold tables |
| `StreamAssumption`: a target has a network, a request names a stored target or none, `PageSize <= MaxQueryLimit` | `network` is `NOT NULL`; a tenant's target was looked up by `check_target_owner`, and an unknown one of the administrator selects nothing; both constants are 10 000 |

**IngestionJobsProofs.** `CompletedJobCommitted` is not inductive: it needs to
know that a worker that passes the SQL guard is at the newest attempt. The guard
sees only the worker id, so `IInv` adds `OpenIsNewest` (a claim closes every
other attempt, so at most one is open, the newest) and `OwnAttempt` (a worker at
a job has no other open attempt at it, since it executes one job at a time);
`SuccessPath` (a worker on its way to report success has committed) and
`CursorCovered` (the cursor it read was covered then, and coverage is never
undone) carry the rest. From `InductiveInvariant` follow `TypeCorrect`,
`CheckpointSafety`, `CompletionSafety`, `SuccessSafety`, `CommitsAreFenced`, and
`QueueRefinement`: every step is a step of `FencedQueue` or a stutter.

**BackfillProofs.** `NoHistorySkipped` speaks of the stored checkpoint, but
`Commit` writes one derived from a checkpoint read earlier. `SInv` therefore
keeps `Gapless` for every checkpoint an execution still holds (stored
positions are never dropped) and `Collected`: what it fetched is a run of
consecutive positions that joins up with the end it extends, which for an
incremental job is what the probe establishes (`HistoryInvariant`,
`HistorySafety`). The invariants of the other two connectors keep in the same way
what each execution has collected against the stored rows: `EvmCoverage`
(`NoBlockSkipped`), `EvmCanonical` (`RowsCanonical`, for reorganisations within the
confirmations), `HlCoverage` (`NoEventSkipped`, for any ties and page caps), and the
types of all three.

**ExportJobsProofs.** `EInv` adds `OwnsNewest` (owning the row by worker id is
owning it under the newest claim), `TempIsWhole` and `PublishedStays`.
`ExportTypeCorrect`, `ExportInvariant`, `DownloadSafety`, `DeliverySafety`.

For `ExportStream` the lemmas begin with the order of the query: `Before` is a strict
total order because ids are unique, so the rank of a row is an injection of a finite
set into an interval of its size, hence onto (`RankExists`), and `Ordered` lists each
row exactly once (`OrderedIs`). `ExportFaithful` speaks of finished files only;
`FileInv` says where the rows are before that: the file is a prefix of the ordered
snapshot, page `i` of the channel is the page at offset
`Len(file) + (i - 1) * PageSize`, every page but the last one sent is full, and
`streamed` is where they end. A failed write suspends this for the channel, since it
drops a page, and no finished file can follow from it. That rows are about the target
comes from the selection alone (`ExportedAbout`, `QueriedAbout`), and that the file
has what the provenance claims from selections being monotone in the table.
`FileInvariant`, `ExportsAreFaithful`.

**MaterializationRunsProofs**, on `MaterializationRuns`. No guard tells two tasks of one worker apart, so
`MInv` does not try to: `ClosedOnce` says that at most one task of a run is past
its terminal update (which needs status `running` and leaves it), and `TaskPath`
that the row bears what it wrote. From `MaterializationInvariant` follow
`CallbackSafety`, `CompletedSafety`, `WatermarkSafety`; `WatermarkMonotone` is
about the upsert's guard.

**MaterializationRunsProofs**, on `GoldMaterialization`. Between reading a balance and writing
the replay another task may write; the code does not prevent it and the property
excludes it by `raced`. `GoldInv` says what holds otherwise: a task in its section has
the balance before its first event and the snapshots after it as they still are
(`BalanceReadsOK`), or has read every fill whose run is past its analytics
(`AnalyticsOK`). It also says what holds in any case: a repaired slice stays repaired,
and only rows of the earlier release lack a delta. The replay is recursive over the
inputs; that the recursive function exists and what it satisfies is proved by taking a
smallest counterexample, and the rest of the proof uses only its recurrence.
`GoldInvariant`, `BalancesHold` (`BalancesAddUpUnraced`), `GoldReports`
(`GoldConsistent`).

**MaterializationRunsProofs**, on `SilverLedger`. What a table holds after a write depends on which
keys collide, and the properties are about sums. `SlInv` therefore says that each table
is empty or exactly what the payload makes of it (`SilverOf`, `LedgerOf`, `BalancesOf`);
it is inductive because an insert of rows that are all there changes nothing and a
written slice replaces itself. The work is in what those are. First, no list of a
payload's rows or records has two equal keys: distinct accounts, log indices and
instruction numbers, and for token transfers the number within a group of equal sender,
receiver and mint, which is a rank and so an injection. Then a written table is the
range of its list, nothing is lost (`SilverLosesNothing`), and its sum is the sum of the
list. Last, per chain and symbol, that sum is `NetChange`, which splits by the tokens of the
symbol: a token entry is the first of
its account, mint and owner, so each balance of either side is counted once, whether the
account was opened, closed or given away; a payer's change and fee add up to the change;
a transfer to oneself cancels. `SlInvariant`, `SlTypes`, `LedgersAddUp`
(`LedgerIsNetChange`), `SilverLosesNothing` (`SilverIsWhole`).
The derivations are compared by what their lists add up to per asset
(`DerivationsAgree`). `SlInv` says of the V1 entries and of the ones derived from Silver
that they are not there yet or what the payload makes of them. A derivation drops rows,
lists the rest in order, appends lists, flattens a list of lists and keeps a running
balance; each has a lemma that it neither loses nor repeats an amount (`NonZeroNet`,
`InOrderNet`, `ConcatNet`, `FlatNet`, `HistoryNet`), all from the positions in the lists:
`InOrder` is one-to-one onto the positions kept, and the recursive function in the
library's `FlattenSeq` is the loop that appends the lists one by one (`FlattenIs`). The
remaining lemmas give the amount of each row or log in both derivations (`SolanaSameNet`,
`EvmSameNet`, `HlSameEntries`, `LibraryHistoryNet`): a Hyperliquid payload has the same
entries in both, a Solana payer's change is split into transfer and fee in one and not in
the other, an ERC-20 log has the same two sides in both, each in its own unit, a transfer
to oneself cancels. `BalancesAgree` (`BalancesFollowLedger`),
`DerivationsHold` (`DerivationsAgree`).

**StreamProofs**, on `StreamSubscriptions`. `CursorIsBacked` is not inductive: the count
written may come from a poll's listing, through a task's local. `StreamInv`
therefore adds `CountsAreBacked` for both, and `TaskShape` (a cursor is written
with an empty batch). `StreamsAreControlled` is inductive with `TaskShape` alone,
because a claim is refused while the map has the subscription.
`StreamInvariant`, `StreamControl`, `CursorSafety`.

**StreamProofs**, on `StreamSource`. What a resumed connection skips is decided by `slot`, which
runs ahead of what is stored by everything in flight. `SourceInv` follows a message
from the server to the batch: `InSlotOrder` (messages wait in slot order, none above
`slot` and none below the consumer's `lastSlot`), `ConnectionOK` (an open connection
is past the slots it did not ask for) and `ResumeIsSafe` (whatever a reconnection
will not ask for again is stored or in flight). A slot cut in the middle is asked for
again as a whole, and nothing needs to be known of how much of it arrived. The
WebSocket stream does not replay, and `SourceConsistent` promises less of it.
`SourceResumes`.

**DualWriteProofs**, on `DualWrite`. Commands of several processes interleave, so the
proof is organised by who writes what: a step changes the locals of its own process
only, the tables only grow, and each table is written by one or two statements.
What each process knows at its statement (`IngestOK`, `NormalizeOK`) then survives the
others' steps. `Carries` is the point of `CheckpointIsInV1`: below the last block an
ingest has in hand nothing is missing from its batch and V1 together, which holds from
the checkpoint read before the fetch to the cursor written after it, because V1 never
loses a row. `CopiesOK` counts the unowned targets of a wallet together with the
processes about to insert one: it bounds them although the insert has no conflict.
`DwInvariant`, `DualWriteTypes`, `NetworksAreReal`, `CheckpointsAreInV1`,
`HealedRows` (`HealedIsVisible`).

**DualWriteProofs**, on `Providers`. That the registry lists an endpoint exactly when
the configuration gives it goes through the stable sort: the rank of an entry among
those of its network is an injection into an interval, hence onto (`ByPriorityIs`), so
the sort loses and repeats nothing, and the first entry with a capability is one no
other precedes (`ResolveIs`). `PvInv` adds to the property what a preflight has
established when the work was accepted (`Preflighted`), under the configuration of
that moment, which a restart may since have replaced: from it follows that an attempt
finds no endpoint only where `MayMiss` says so. `PvInvariant`, `PvTypes`,
`WorkFollowsConfig` (`ProvidersFollowConfig`).

**DualWriteProofs**, on `CommandLine`. Commands, payload and configuration share no
variable, so a step of one is a stutter of the others and the invariants hold together:
`CliInvariant`, `CliTypes` (`TypesOK`).

**ApiProofs**, on requests and limiter. Ownership is checked in one statement and used in another, with other
requests in between. `ApiInv` is a conjunct per request (`RequestOK`: who is calling,
what was checked for it, which row it has found, what it has answered) and a few about
the tables. A row of targets or jobs never changes its owner and a key that has one
keeps it (`TablesGrow`), so a check that has passed stays passed, and each step is one
lemma on its own request and one on the tables. `ApiInvariant`, `ApiTypes`,
`TenantIsolation` (`TenantSeesOwn`), `JobsReadable` (`AnsweredJobIsReadable`), and the
action property `TenantRows` (`TenantRowsAreOwn`).
For the limiter, `RateIsBounded` counts what was admitted and a bucket says what
still may be. `LimInv` bounds their sum, with the level of a bucket that is not
in the map taken as full, which is what insertion makes it; eviction then changes
nothing because only full buckets are evicted (`EvictedIsFull`). `RateLimitHolds`.

**ApiProofs**, on the analytics. A report is a sum over rows and its reference is a sum
over something else: by the other key, over fills instead of trades, over the latest
snapshots instead of a loop. `CountingLemmas` proves for sums over finite sets what
this needs (`SumPlus`, `SumReindex`, `SumByGroup`) from the recurrence of the library's
fold, by induction over the subsets that have the property, and what a loop computes
from an invariant of its rounds (`LoopKeeps`). With it, `ActivityReports` shows that the
aggregates over gold rows equal their references; `LatestByPool` keeps one snapshot of
each pool, the newest, in whatever order the rows come. For the wallets, `AnInv` says
that every running materialization holds rows of its wallet as they were read, each fill
once, and speaks of the rows of each rebuild, which stay in the tables however others
interleave, overlap or fail (`TaskRowsOK`): the summaries and the trades of one rebuild
agree (`LastAgree`), no two trades of one share a fill, and where no two replacements of
a wallet overlapped a table has the rows of the last one only (`TableOK`).
`TradesIgnoreArrival` follows from ranks: with distinct times the rank of a fill does
not depend on the order of the rows. That trades realize what the summaries report
(`TradesExplainPnl`) follows the loop over the sorted fills: the trades so far have
realized the closes so far, and no two share a fill. `AcInvariant`, `ActivityReports`
(`ForensicsAddsUp`, `ActivityCountsOnce`, `TvlIsLatest`), `AnInvariant`, `AnTypes`,
`TradesSoundAlways` (`TradesAreSound`), `AnswersAddUp` (`MarketIsSumOfTraders`,
`NetIsSettled`).
The service steps one part at a time and the parts share no variable, so a step of one
is a stutter of the others and the invariants hold together: `ServiceInvariant`,
`ServiceTypes` (`TypesOK`), `ReportsAlwaysAddUp` (`ReportsAddUp`).

Only model-checked: the liveness properties (fairness and `ENABLED` are out of
the prover's reach) and the violations. What a recursive function computes for every input
is an induction over data, and the library's induction theorems take an operator as a
parameter, which no installed prover instantiates. The proofs go around it: a recursive
function whose one equation is shown to have a solution is reasoned about by a smallest
counterexample (the replay, flattening), and sums and loops by the set of all subsets or
rounds that have the property.

## 5. Findings

1. `ingestion_run_status`: the lost-lease branch of `execute_job` marks the run
   failed "so it doesn't stay 'running' forever", also when the commit has
   already completed it. The data is durable; the run says `failed`, 0 records.
2. `export_publish`: the rename is said never to publish over the new owner's
   artifact. The `lease_lost` look before it is a flag, so it can.
   The check before the sink delivery (`export_worker.rs` 410-412, "a reclaimed
   worker must not deliver stale output to the sink") reads the same flag.
3. `stream_recovery`: the orchestrator is said to poll for stale subscriptions,
   claim them and spawn streams. A finished task stays in `active_streams`; if its
   `fail_stream_subscription` call fails, the row stays leased to this process,
   every poll skips it and reconcile sees nothing wrong. It is not streamed again
   until the process ends.
Two more statements of the docs do not hold as they are worded. The modules state what
holds instead, and the runs check that:

- Deriving ledger entries from Silver is said to keep "current API output stable"
  (`ledger_derivation.rs` 3-5). The transfer of an ERC-20 that the table does not know is
  divided by 10^18 in V1 (`evm_parser.rs` 43-45, 380) and left raw in Silver (546-565),
  whose derivation takes it as it is; a contract's own answer is read by Silver alone. The
  two differ by that factor (`DerivedMatchesV1`). The gold ledger leaves tokens of unknown
  decimals out (`dual_write.rs` 2975).
- Target-scoped reads and exports are said to "return only the requested target's rows"
  and not to rely on the generic join
  (`design/V2_AUTHORITY_AND_ETL_IMPLEMENTATION_PLAN.md` 36-37, 285-286). The wallet
  ledger does (`v2_repo.rs` 3737, 1467-1548): a transaction is one row for all its
  targets, and the ledger of one has the rows of every indexed wallet in it
  (`TargetLedger`). `TenantSeesOwn` is stated accordingly.

Noted while modelling and stated by no doc:

- `complete_ingestion_job` may be refused or fail and the `completed` callback
  is sent all the same; `SuccessIsCommitted` shows that the batch is durable.
- Overlapping jobs on a target can move its cursor back (the last writer wins).
  The rows are refetched, none is skipped.
- `history_exhausted` is copied by incremental jobs (`solana_history.rs` 169):
  true after an empty first backfill, it stays true when an incremental job
  without a head then stores only the newest `limit` signatures.
- A crash between a completed materialization and its watermark upsert leaves the
  watermark behind for good; it never runs ahead.
- A worker that reclaims its own stale materialization run may have the run closed
  by its older task: both are the same to the database.
- `update_stream_cursor` asks for no lease, so a former owner's late write can move
  the cursor back. A refused heartbeat drops the batch that was not flushed.
- A cancelled stream task releases, or fails, the lease by worker id: after the
  same process has claimed the subscription again it takes the newer task's lease,
  and a late failure withdraws a renewed intent.
- Temp files of a crashed export are never removed. The `LocalFile` copies of a
  stale and of a new owner may interleave (`main.rs` 1250).
- The job status `cancelled` is in the schema and no code writes it.

*Materialization*

- Two runs of one wallet that replay balances at once may leave sums that do not
  add up (`dual_write.rs` 2345), and two rebuilds of the Hyperliquid tables may
  leave the older one. `raced` marks these histories and the properties are
  stated for the others; a later run repairs the analytics, not the balances
  before its first input.
- A batch without ledger rows counts a failed DELETE as zero failures
  (`dual_write.rs` 2191), so the run is reported done with old rows left.
- A completeness row is widened over runs that failed in between.
- `derive_balance_history` numbers snapshots within an asset, so two assets of
  one transaction share an id (`ledger_derivation.rs` 855). The pipeline does not
  call it.
- A Hyperliquid fee in another token than USDC is taken from USDC by the balance
  history and booked in its token by the ledger (`hyperliquid_parser.rs` 369);
  `BalancesFollowLedger` is stated for fees in the settlement currency.
- Fills whose direction names neither open nor close ("Long > Short") are in the
  PnL summary and in no trade.
- V1 charges gas to receivers and counts the value of failed EVM transactions;
  `DerivedMatchesV1` compares the cases both can represent.
- Two rebuilds of a wallet's analytics whose replacements overlap leave the rows of both,
  so that a fill may be in two trades until the next rebuild; one whose summaries fail
  replaces the trades all the same (`dual_write.rs` 2652).

*Streams and exports*

- `retry_count` of the gRPC stream is never reset, an orderly end is not retried,
  and a restarted task does not start at the stored `last_slot`, so what was
  emitted while no task ran is missed. A failed flush of matches, checkpoint or
  materialization is only logged.
- An export that reaches the hard cap is cut, logged and published as complete.
- `query_protocol_events` and `query_pool_snapshots` of a target filter on its
  address alone, unlike the export of the same datasets.

*API, configuration and command line*

- On a conflict `create_index_target` returns the id that was not stored
  (`v2_repo.rs` 2114), and the statement that uses it fails on its foreign key:
  the second of two concurrent first requests for a wallet gets an error. Without
  an owner there is no conflict, so two rows are stored; the comment on the global
  stream's sentinel (`main.rs` 2244) counts on one.
- A batch ingest validates callback and network per wallet, after earlier wallets
  were queued: those jobs stay and are not reported. An ingest whose target could
  not be ensured is queued without one, and its tenant cannot read it. `normalize`
  checks the target of the run and takes the wallet from the payload.
- An administrator's ingest without `user_id` makes up an owner each time.
- A network written as disabled stays on when a section is missing and it is one
  of the three synthesized ones; a provider equal to a synthesized one is dropped
  with its token (`config.rs` 449). Solana streams and the Hyperliquid connector
  fall back to the mainnet or legacy endpoint for a network without a provider,
  where jobs of other chains fail (`worker.rs` 538). `FetchFromOwnNetwork` names
  these exceptions.
- `ingest --network` looks up the resume target without an owner and creates it
  with one, so it resumes only where normalize has made an unowned target. The V1
  checkpoint is one per chain, whatever the network. A first EVM ingest covers the
  last `limit` blocks only. A failed healing insert leaves Silver rows without
  provenance, again with every normalize.

## 6. Not modelled

- Transaction isolation below the statement: `READ COMMITTED` lets an `UPDATE`
  re-evaluate its own row after waiting for a lock but not its sub-queries.
  Statements and transactions are atomic here, but for the two replacements of a
  wallet's analytics, whose DELETE and commit are steps of their own.
- The legacy branch of `run_ingestion` (`worker.rs` 486 ff.): every wallet
  target of the three chain families takes the connector branch.
- `job_semaphore` as shared by exports and materializations: each module has it
  alone, exports as a worker not claiming, materializations as `Permits`.
- The `LocalFile` sink's copy is one step; a half-made copy is its error case.
- EVM traces (`fetch_trace`), the Hyperliquid adapter's legacy `fetch_history`,
  and the V1 Solana adapter (`solana.rs`): straight-line fetches that keep no
  state.
- Encodings: CSV, JSONL and JSON of exports, the digits of decimals, hex, base58, JSON shapes,
  the event signature table, TOML and environment variables. No property tells
  their data apart; a field is absent, malformed or a number.
- Routing, request timeouts, metrics and the static workbench page of the API;
  the CLI commands that send one request or read one table.
- Callback URL validation and the blocking of private addresses
  (`core/src/callback.rs`): a predicate on strings and DNS answers; a request with
  a bad one is an input (`BadUrl`).
- The typed `Materializer` descriptors of `core/src/materializer.rs`: no worker
  goes through them.

## 7. What is left

1. `ExportJobs` refined by `ExportStream`: its `WritePages` as the abstraction of
   a writer and a reader that return.
2. Exports and materializations on one `job_semaphore`: neither starves while the
   other's tasks end.
3. A variant of the claim statements at `READ COMMITTED` granularity, shown to
   implement the atomic ones.
