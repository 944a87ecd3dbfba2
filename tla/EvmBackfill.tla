----------------------------- MODULE EvmBackfill -----------------------------
(***************************************************************************)
(* The EVM connector's block scan (adapters/src/evm.rs), driven by         *)
(* ingestion jobs that may overlap on one target while the chain grows and *)
(* reorganises.                                                            *)
(*                                                                         *)
(* A block holds at most one transaction of the target and is told apart   *)
(* from the block a reorganisation puts at the same height by its fork     *)
(* number (its hash).  Match says which of the connector's queries return  *)
(* that transaction.  -1 stands for None.                                  *)
(***************************************************************************)
EXTENDS Integers, Sequences

CONSTANTS
    EvmJobs,        \* job executions that may overlap
    StartBlocks,    \* the from_block a target may have, -1 for none
    Queries,        \* the scans of the target's kind, in their order
    Match,          \* Match[b][f]: the queries block b of fork f answers
    BlockLimit,     \* ingest_limit
    BlockChunk,     \* blocks per request (block_chunk, NATIVE_TX_BLOCK_CHUNK)
    Confirmations,  \* 12 in the code
    MaxReorg,       \* environment: a reorganisation replaces no more blocks
    MaxLag,         \* environment: how far a provider's height may be behind
    Retries,        \* RPC_MAX_RETRIES
    MaxBlock,       \* bound: blocks of the chain
    MaxReorgs,      \* bound: reorganisations
    MaxEvmErrors    \* bound: errors and lost leases

Blocks == 0..MaxBlock
Forks == 0..MaxReorgs
QueryNames == {Queries[i] : i \in 1..Len(Queries)}

ASSUME EvmAssumption ==
    /\ Queries \in Seq(STRING) /\ Len(Queries) > 0
    /\ BlockLimit \in Nat \ {0} /\ BlockChunk \in Nat \ {0}
    /\ Confirmations \in Nat /\ MaxReorg \in Nat /\ MaxLag \in Nat
    /\ MaxReorg <= Confirmations
    /\ Retries \in Nat \ {0}
    /\ MaxBlock \in Nat /\ MaxReorgs \in Nat /\ MaxEvmErrors \in Nat
    /\ StartBlocks \subseteq Blocks \cup {-1}
    /\ Match \in [Blocks -> [Forks -> SUBSET QueryNames]]

VARIABLES
    height,     \* newest block of the chain
    fork,       \* fork[b]: the fork block b is on
    reorgs,     \* reorganisations so far
    fromBlock,  \* filter_spec.from_block of the target
    lastBlock,  \* checkpoint: last_block
    rawRows,    \* raw_transactions: <<block, fork>> of each transaction
    evmPc,      \* per execution: where it is
    cursor,     \* per execution: the last_block it read
    window,     \* per execution: from_block and latest_block of the scan
    query,      \* per execution: the query it is at
    start,      \* per execution: first block of the next request
    found,      \* per execution: <<query, block, fork>> of each hit
    attempt,    \* per execution: failed attempts of the current request
    evmErrors   \* errors so far

chainVars == <<height, fork, reorgs, fromBlock>>
tableVars == <<lastBlock, rawRows>>
jobVars == <<evmPc, cursor, window, query, start, found, attempt>>
evmVars == <<chainVars, tableVars, jobVars, evmErrors>>

EvmInit ==
    /\ height = 0
    /\ fork = [b \in Blocks |-> 0]
    /\ reorgs = 0
    /\ fromBlock \in StartBlocks
    /\ lastBlock = -1
    /\ rawRows = {}
    /\ evmPc = [x \in EvmJobs |-> "idle"]
    /\ cursor = [x \in EvmJobs |-> -1]
    /\ window = [x \in EvmJobs |-> [from |-> 0, end |-> 0]]
    /\ query = [x \in EvmJobs |-> 1]
    /\ start = [x \in EvmJobs |-> 0]
    /\ found = [x \in EvmJobs |-> {}]
    /\ attempt = [x \in EvmJobs |-> 0]
    /\ evmErrors = 0

Lesser(a, b) == IF a <= b THEN a ELSE b
Greater(a, b) == IF a >= b THEN a ELSE b

\* An execution is over: its local state is gone.
EndScan(x) ==
    /\ evmPc' = [evmPc EXCEPT ![x] = "idle"]
    /\ cursor' = [cursor EXCEPT ![x] = -1]
    /\ window' = [window EXCEPT ![x] = [from |-> 0, end |-> 0]]
    /\ query' = [query EXCEPT ![x] = 1]
    /\ start' = [start EXCEPT ![x] = 0]
    /\ found' = [found EXCEPT ![x] = {}]
    /\ attempt' = [attempt EXCEPT ![x] = 0]

-----------------------------------------------------------------------------
(* The chain *)

MineBlock ==
    /\ height < MaxBlock
    /\ height' = height + 1
    /\ UNCHANGED <<fork, reorgs, fromBlock, tableVars, jobVars, evmErrors>>

\* The newest d blocks are replaced by blocks of another fork.
Reorganise(d) ==
    /\ reorgs < MaxReorgs
    /\ d <= height
    /\ reorgs' = reorgs + 1
    /\ fork' = [b \in Blocks |-> IF height - d < b /\ b <= height THEN reorgs + 1 ELSE fork[b]]
    /\ UNCHANGED <<height, fromBlock, tableVars, jobVars, evmErrors>>

-----------------------------------------------------------------------------
(* backfill(): the window of a scan *)

\* A job reads the checkpoint of its target.
StartScan(x) ==
    /\ evmPc[x] = "idle"
    /\ evmPc' = [evmPc EXCEPT ![x] = "window"]
    /\ cursor' = [cursor EXCEPT ![x] = lastBlock]
    /\ UNCHANGED <<chainVars, tableVars, window, query, start, found, attempt, evmErrors>>

\* Mutant: the newest block counts as confirmed.
UnconfirmedHead(h) == h

ConfirmedHead(h) == Greater(h - Confirmations, 0)

\* cursor_to_from_block: durable progress wins over the target's from_block,
\* which wins over the last BlockLimit confirmed blocks.
CursorToFromBlock(x, head) ==
    CASE cursor[x] # -1 -> cursor[x] + 1
      [] cursor[x] = -1 /\ fromBlock # -1 -> fromBlock
      [] OTHER -> Greater(head - (BlockLimit - 1), 0)

NonEmpty(w) == w.from <= w.end

\* scan_window, by a provider whose height may be behind the chain's.  A window
\* without blocks ends the job with no records and no checkpoint.
ScanWindow(x, lag) ==
    /\ evmPc[x] = "window"
    /\ lag <= height
    /\ LET head == ConfirmedHead(height - lag)
           from == CursorToFromBlock(x, head)
           w == [from |-> from, end |-> Lesser(head, from + BlockLimit - 1)]
       IN IF NonEmpty(w)
          THEN /\ window' = [window EXCEPT ![x] = w]
               /\ start' = [start EXCEPT ![x] = from]
               /\ evmPc' = [evmPc EXCEPT ![x] = "scan"]
               /\ UNCHANGED <<cursor, query, found, attempt>>
          ELSE EndScan(x)
    /\ UNCHANGED <<chainVars, tableVars, evmErrors>>

-----------------------------------------------------------------------------
(* The scans: fetch_logs, fetch_logs_by_topics, fetch_wallet_native_txs *)

ChunkEnd(x) == Lesser(start[x] + BlockChunk - 1, window[x].end)

\* What query q returns for the blocks a..b as they are now.
Hits(q, a, b) == {<<q, n, fork[n]>> : n \in {n \in Blocks \cap a..b : q \in Match[n][fork[n]]}}

\* Mutant: the next request begins one block too far.
NextStartSkips(end) == end + 2

NextStart(end) == end + 1

\* One request answers; after the last block of the window the next query begins.
ScanChunk(x) ==
    /\ evmPc[x] = "scan"
    /\ found' = [found EXCEPT ![x] = @ \cup Hits(Queries[query[x]], start[x], ChunkEnd(x))]
    /\ attempt' = [attempt EXCEPT ![x] = 0]
    /\ IF ChunkEnd(x) < window[x].end
       THEN /\ start' = [start EXCEPT ![x] = NextStart(ChunkEnd(x))]
            /\ UNCHANGED <<evmPc, query>>
       ELSE IF query[x] < Len(Queries)
       THEN /\ query' = [query EXCEPT ![x] = @ + 1]
            /\ start' = [start EXCEPT ![x] = window[x].from]
            /\ UNCHANGED evmPc
       ELSE /\ evmPc' = [evmPc EXCEPT ![x] = "enrich"]
            /\ UNCHANGED <<start, query>>
    /\ UNCHANGED <<chainVars, tableVars, cursor, window, evmErrors>>

\* get_logs_with_retry: a failed request is repeated until its attempts are used
\* up.  Only log queries are retried.
RetryRequest(x) ==
    /\ evmPc[x] = "scan" /\ Queries[query[x]] # "native"
    /\ evmErrors < MaxEvmErrors
    /\ evmErrors' = evmErrors + 1
    /\ IF attempt[x] + 1 < Retries
       THEN /\ attempt' = [attempt EXCEPT ![x] = @ + 1]
            /\ UNCHANGED <<evmPc, cursor, window, query, start, found>>
       ELSE EndScan(x)
    /\ UNCHANGED <<chainVars, tableVars>>

-----------------------------------------------------------------------------
(* enrich_tx_data and the commit *)

\* The log whose block hash is compared with the header of its block: the first
\* one found at that height.
Checked(x) ==
    {l \in found[x] : l[1] # "native" /\
        \A k \in found[x] : k[1] # "native" /\ k[2] = l[2] =>
            \E i, j \in 1..Len(Queries) : Queries[i] = l[1] /\ Queries[j] = k[1] /\ i <= j}

\* "Block changed during ingestion; retry"
Enrich(x) ==
    /\ evmPc[x] = "enrich"
    /\ IF \A l \in Checked(x) : fork[l[2]] = l[3]
       THEN /\ evmPc' = [evmPc EXCEPT ![x] = "commit"]
            /\ UNCHANGED <<cursor, window, query, start, found, attempt>>
       ELSE EndScan(x)
    /\ UNCHANGED <<chainVars, tableVars, evmErrors>>

\* One row per transaction, whichever queries returned it: native transactions
\* join the ones that have log records.
Records(x) == {<<l[2], l[3]>> : l \in found[x]}

\* scan_checkpoint
ScanCheckpoint(x) == window[x].end

\* commit_connector_batch stores the rows with the checkpoint, whatever the
\* checkpoint has become since it was read.
CommitScan(x) ==
    /\ evmPc[x] = "commit"
    /\ rawRows' = rawRows \cup Records(x)
    /\ lastBlock' = ScanCheckpoint(x)
    /\ EndScan(x)
    /\ UNCHANGED <<chainVars, evmErrors>>

\* A missing block or receipt, a removed log, a chain id of another network, a
\* lost lease or a failed commit: nothing is written.
FailScan(x) ==
    /\ evmPc[x] # "idle"
    /\ evmErrors < MaxEvmErrors
    /\ evmErrors' = evmErrors + 1
    /\ EndScan(x)
    /\ UNCHANGED <<chainVars, tableVars>>

RunScan(x) ==
    (\E lag \in 0..MaxLag : ScanWindow(x, lag)) \/ ScanChunk(x) \/ Enrich(x) \/ CommitScan(x)

EvmNext ==
    \/ MineBlock
    \/ \E d \in 1..MaxReorg : Reorganise(d)
    \/ \E x \in EvmJobs : StartScan(x) \/ RunScan(x) \/ RetryRequest(x) \/ FailScan(x)

EvmSpec == EvmInit /\ [][EvmNext]_evmVars

\* Every request has a timeout, so an execution never hangs.
EvmFairness == \A x \in EvmJobs : WF_evmVars(RunScan(x))

-----------------------------------------------------------------------------
(* Properties *)

EvmTypeOK ==
    /\ height \in Blocks /\ reorgs \in Forks
    /\ fork \in [Blocks -> Forks]
    /\ fromBlock \in Blocks \cup {-1}
    /\ lastBlock \in Blocks \cup {-1}
    /\ rawRows \subseteq Blocks \X Forks
    /\ evmPc \in [EvmJobs -> {"idle", "window", "scan", "enrich", "commit"}]
    /\ cursor \in [EvmJobs -> Blocks \cup {-1}]
    /\ window \in [EvmJobs -> [from : Nat, end : Nat]]
    /\ query \in [EvmJobs -> 1..Len(Queries)]
    /\ start \in [EvmJobs -> Nat]
    /\ found \in [EvmJobs -> SUBSET (QueryNames \X Blocks \X Forks)]
    /\ attempt \in [EvmJobs -> Nat]
    /\ evmErrors \in 0..MaxEvmErrors

\* The transaction of block b, if the target has one there, is stored.
Ingested(b) == Match[b][fork[b]] # {} => <<b, fork[b]>> \in rawRows

\* "ensuring no blocks are skipped": up to the checkpoint, every transaction of
\* a target with a start block is stored, whichever query returns it, whatever
\* jobs overlap, fail or overwrite each other's checkpoint.
NoBlockSkipped ==
    fromBlock # -1 => \A b \in Blocks : fromBlock <= b /\ b <= lastBlock => Ingested(b)

\* "A bounded confirmed window": no stored transaction belongs to a block that a
\* reorganisation has replaced.
RowsCanonical == \A r \in rawRows : fork[r[1]] = r[2]

\* If scans keep being asked for, every confirmed block of a target with a start
\* block is ingested in the end, overlapping jobs, reorganisations and errors
\* notwithstanding.
EvmScanDrains ==
    []<><<\E x \in EvmJobs : StartScan(x)>>_evmVars =>
        []<>(fromBlock # -1 => \A b \in Blocks :
            fromBlock <= b /\ b <= height - Confirmations - MaxLag => Ingested(b))

-----------------------------------------------------------------------------
(* The inductive invariant behind NoBlockSkipped and RowsCanonical *)

\* No reorganisation reaches the blocks up to here.
Settled == ConfirmedHead(height)

IngestedUpTo(last) ==
    fromBlock # -1 => \A b \in Blocks : fromBlock <= b /\ b <= last => Ingested(b)

\* What a running scan has found: all there is in the part of its window it has
\* been through, on the fork that stays.
ScanSound(x) ==
    /\ window[x].end <= Settled /\ window[x].from <= window[x].end
    /\ fromBlock # -1 => window[x].from = IF cursor[x] # -1 THEN cursor[x] + 1 ELSE fromBlock
    /\ \A l \in found[x] : l[2] <= Settled /\ fork[l[2]] = l[3]
    /\ \A i \in 1..Len(Queries), b \in Blocks :
        /\ window[x].from <= b /\ b <= window[x].end
        /\ evmPc[x] # "scan" \/ i < query[x] \/ (i = query[x] /\ b < start[x])
        /\ Queries[i] \in Match[b][fork[b]]
        => <<Queries[i], b, fork[b]>> \in found[x]

\* Inductive: the checkpoint a scan read is settled and remains covered, for
\* rows are never dropped and settled blocks never change.
EvmInv ==
    /\ EvmTypeOK
    /\ lastBlock <= Settled /\ IngestedUpTo(lastBlock)
    /\ \A r \in rawRows : r[1] <= Settled /\ fork[r[1]] = r[2]
    /\ \A x \in EvmJobs :
        /\ cursor[x] <= Settled /\ IngestedUpTo(cursor[x])
        /\ evmPc[x] = "idle" => cursor[x] = -1
        /\ evmPc[x] \in {"idle", "window"} => found[x] = {} /\ query[x] = 1
        /\ evmPc[x] \in {"scan", "enrich", "commit"} => ScanSound(x)
=============================================================================
