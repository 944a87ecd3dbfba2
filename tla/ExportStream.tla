---------------------------- MODULE ExportStream ----------------------------
(***************************************************************************)
(* How the rows of one dataset reach an export file, and a dataset query:  *)
(* write_export_to_file of api/src/export_stream.rs (the disk writer) and  *)
(* stream_export_snapshot of adapters/src/v2_repo.rs (the page reader, a   *)
(* task of its own), joined by a bounded channel and a shared cancellation *)
(* token, while ingestion keeps writing to the table they read.            *)
(*                                                                         *)
(* One table stands for all datasets; a request's dataset says which of    *)
(* the five ways of selecting rows applies: "silver" (raw_transactions,    *)
(* the Silver tables and wallet_ledger, joined with target_matches),       *)
(* "balance_history", "hl" (the two Hyperliquid summaries),                *)
(* "protocol_events" and "pool_snapshots".  Columns, CSV and JSON are left *)
(* out: a record is its row id.  A time window is its lower bound; both    *)
(* bounds are compared the same way.                                       *)
(***************************************************************************)
EXTENDS Integers, Sequences, FiniteSets, SequencesExt

CONSTANTS
    Rows,          \* row ids; larger ids are assigned later
    RowOf,         \* columns: [at, net, addr, pool, matches] of each row
    StoredRows,    \* the rows there before the export starts
    Targets, TargetOf,  \* index_targets: [kind, net, addr, spec]
    Requests,      \* [dataset, target, net, since] of the jobs and queries considered
    NoTarget, NoNet, NoAddr,
    PageSize, HardCap, MaxQueryLimit, ChannelCapacity,
    MaxStreamFaults     \* bound: failed statements, writes and lost leases

ASSUME StreamAssumption ==
    /\ Rows \subseteq Nat /\ IsFiniteSet(Rows) /\ StoredRows \subseteq Rows
    /\ \A r \in Rows : RowOf[r].at \in Int
    /\ \A t \in Targets : TargetOf[t].net # NoNet
    /\ \A q \in Requests : q.target \in Targets \cup {NoTarget}
    /\ {PageSize, HardCap, MaxQueryLimit, ChannelCapacity} \subseteq Nat \ {0}
    /\ PageSize <= MaxQueryLimit
    /\ NoTarget \notin Targets /\ MaxStreamFaults \in Nat

VARIABLES
    table,      \* the committed rows of the dataset
    covered,    \* the rows dataset_completeness accounts for
    req,        \* the request being exported
    meta,       \* what fetch_export_metadata found covered
    snap,       \* what the REPEATABLE READ transaction sees
    page,       \* the page fetched and not yet sent
    streamed,   \* offset = records sent so far
    reader,     \* where the snapshot task is
    channel,    \* pages in the channel
    cancelled,  \* the cancellation token
    writer,     \* where write_export_to_file is
    writeErr,   \* write_result.is_err()
    file,       \* the records in the attempt's file
    answer,     \* the last answer of a dataset query
    strFaults

readerVars == <<snap, page, streamed, reader>>
writerVars == <<req, meta, writer, writeErr, file>>
streamVars == <<table, covered, readerVars, channel, cancelled, writerVars, answer, strFaults>>

NoAnswer == [req |-> [dataset |-> "none"], rows |-> {}]

StreamInit ==
    /\ table = StoredRows /\ covered = StoredRows
    /\ req = [dataset |-> "none"] /\ meta = {}
    /\ snap = {} /\ page = <<>> /\ streamed = 0 /\ reader = "idle"
    /\ channel = <<>> /\ cancelled = FALSE
    /\ writer = "idle" /\ writeErr = FALSE /\ file = <<>>
    /\ answer = NoAnswer /\ strFaults = 0

StrFault == strFaults < MaxStreamFaults /\ strFaults' = strFaults + 1

-----------------------------------------------------------------------------
(* Which rows a request selects *)

WindowAndNetwork(r, net, since) ==
    RowOf[r].at >= since /\ net \in {NoNet, RowOf[r].net}

\* build_dataset_filter_query: JOIN target_matches.
Joined(rows, q) ==
    {r \in rows : /\ q.target = NoTarget \/ q.target \in RowOf[r].matches
                  /\ WindowAndNetwork(r, q.net, q.since)}

\* direct_export_network_scope: NoNet also stands for a network that is not the target's.
ExportNetwork(q) ==
    IF q.target = NoTarget THEN q.net
    ELSE IF q.net \in {NoNet, TargetOf[q.target].net} THEN TargetOf[q.target].net
    ELSE NoNet

\* protocol_target_addresses, and the target's own address when the spec has none.
ProtocolAddresses(t, net) ==
    LET n == IF net = NoNet THEN TargetOf[t].net ELSE net
    IN  IF TargetOf[t].spec[n] # {} THEN TargetOf[t].spec[n]
        ELSE {TargetOf[t].addr} \ {NoAddr}

\* direct_export_filter_spec_for_dataset: the kinds of target a dataset is exported for.
FilterKinds(dataset) ==
    IF dataset \in {"balance_history", "hl"} THEN {"wallet"} ELSE {"protocol", "pool"}

\* direct_export_filter_for_target: the column and the values the target stands for;
\* no values means the target is of no use for this dataset.
ExportFilter(q) ==
    LET t == TargetOf[q.target]
    IN  [col  |-> IF t.kind = "pool" THEN "pool" ELSE "addr",
         vals |-> IF t.kind \notin FilterKinds(q.dataset) THEN {}
                  ELSE IF t.kind = "protocol" THEN ProtocolAddresses(q.target, ExportNetwork(q))
                  ELSE {t.addr} \ {NoAddr}]

\* The guard every direct dataset repeats: a target without a filter or with a
\* network that is not its own exports nothing rather than everything.
Unscoped(q) ==
    q.target # NoTarget /\ (ExportFilter(q).vals = {} \/ ExportNetwork(q) = NoNet)

\* build_dataset_filter_query_direct_values: an empty value list adds no condition.
Direct(rows, q) ==
    {r \in rows :
        /\ \/ q.target = NoTarget \/ ExportFilter(q).vals = {}
           \/ RowOf[r][ExportFilter(q).col] \in ExportFilter(q).vals
        /\ WindowAndNetwork(r, ExportNetwork(q), q.since)}

\* stream_export_snapshot, one arm per dataset.
Exported(rows, q) ==
    IF q.dataset = "silver" THEN Joined(rows, q)
    ELSE IF Unscoped(q) THEN {} ELSE Direct(rows, q)

\* query_balance_snapshots: joined through the transaction's matches, of the target's
\* wallet.
QueriedBalances(rows, q) ==
    {r \in Joined(rows, q) : /\ TargetOf[q.target].addr # NoAddr
                             /\ RowOf[r].addr = TargetOf[q.target].addr}

\* query_hl_pnl_summary and query_hl_trade_history, through direct_wallet_scope: a
\* target that is no wallet, or of another network, has no rows.
QueriedHl(rows, q) ==
    LET t == TargetOf[q.target]
    IN  IF t.kind # "wallet" \/ q.net \notin {NoNet, t.net} THEN {}
        ELSE {r \in rows : RowOf[r].addr = t.addr /\ WindowAndNetwork(r, t.net, q.since)}

\* query_protocol_events and query_pool_snapshots filter on the target's address alone.
QueriedProtocol(rows, q) ==
    LET t == TargetOf[q.target]
        Col(r) == IF q.dataset = "pool_snapshots" \/ t.kind = "pool"
                  THEN RowOf[r].pool ELSE RowOf[r].addr
    IN  {r \in rows : t.addr # NoAddr /\ Col(r) = t.addr /\ WindowAndNetwork(r, q.net, q.since)}

\* query_dataset_records
Queried(rows, q) ==
    IF q.dataset = "silver" \/ q.target = NoTarget THEN Joined(rows, q)
    ELSE CASE q.dataset = "balance_history" -> QueriedBalances(rows, q)
           [] q.dataset = "hl" -> QueriedHl(rows, q)
           [] OTHER -> QueriedProtocol(rows, q)

\* ORDER BY order_col DESC, dt.id DESC: a total order.
Before(r, s) == \/ RowOf[r].at > RowOf[s].at
                \/ RowOf[r].at = RowOf[s].at /\ r > s
Ordered(rows) == [i \in 1 .. Cardinality(rows) |->
                     CHOOSE r \in rows : Cardinality({s \in rows : Before(s, r)}) = i - 1]

\* LIMIT page_size OFFSET offset.
PageAt(rows, offset) ==
    LET s == Ordered(rows) IN
    SubSeq(s, offset + 1, IF offset + PageSize < Len(s) THEN offset + PageSize ELSE Len(s))

-----------------------------------------------------------------------------
(* The disk writer *)

\* fetch_export_metadata runs before the file is opened and the snapshot taken.
StartExport(q) ==
    /\ writer = "idle" /\ answer = NoAnswer
    /\ req' = q /\ meta' = covered /\ writer' = "open"
    /\ UNCHANGED <<table, covered, readerVars, channel, cancelled, writeErr, file, answer, strFaults>>

\* open_no_follow truncates the attempt's file; then the snapshot task is spawned.
OpenExport ==
    /\ writer = "open"
    /\ \/ /\ writer' = "write" /\ reader' = "begin" /\ file' = <<>> /\ UNCHANGED strFaults
       \/ /\ StrFault /\ writer' = "failed" /\ UNCHANGED <<reader, file>>
    /\ UNCHANGED <<table, covered, req, meta, snap, page, streamed, channel, cancelled, writeErr, answer>>

\* Mutant: a failed write does not cancel the token.
WritePageNoCancel ==
    /\ writer = "write" /\ channel # <<>>
    /\ channel' = Tail(channel)
    /\ \/ /\ ~cancelled
          /\ file' = file \o Head(channel)
          /\ UNCHANGED <<writer, writeErr, strFaults>>
       \/ /\ \/ cancelled /\ UNCHANGED strFaults
             \/ ~cancelled /\ StrFault
          /\ writer' = "join" /\ writeErr' = TRUE
          /\ UNCHANGED file
    /\ UNCHANGED <<table, covered, req, meta, readerVars, cancelled, answer>>

\* One turn of the write loop: a page is taken off the channel, dropped when the
\* token is cancelled, and otherwise encoded and written.  An error cancels the token.
WritePage ==
    /\ writer = "write" /\ channel # <<>>
    /\ channel' = Tail(channel)
    /\ \/ /\ ~cancelled
          /\ file' = file \o Head(channel)
          /\ UNCHANGED <<writer, writeErr, cancelled, strFaults>>
       \/ /\ \/ cancelled /\ UNCHANGED strFaults
             \/ ~cancelled /\ StrFault
          /\ writer' = "join" /\ writeErr' = TRUE /\ cancelled' = TRUE
          /\ UNCHANGED file
    /\ UNCHANGED <<table, covered, req, meta, readerVars, answer>>

\* recv() returns None: every page was taken and the sender is gone.
DrainChannel ==
    /\ writer = "write" /\ channel = <<>> /\ reader \in {"ok", "error"}
    /\ writer' = "join"
    /\ UNCHANGED <<table, covered, req, meta, readerVars, channel, cancelled, writeErr, file, answer, strFaults>>

\* The snapshot task is awaited, the first error returned, the file flushed.
JoinReader ==
    /\ writer = "join" /\ reader \in {"ok", "error"}
    /\ \/ /\ writeErr \/ reader = "error"
          /\ writer' = "failed" /\ UNCHANGED strFaults
       \/ /\ ~writeErr /\ reader = "ok"
          /\ \/ writer' = "done" /\ UNCHANGED strFaults
             \/ writer' = "failed" /\ StrFault
    /\ UNCHANGED <<table, covered, req, meta, readerVars, channel, cancelled, writeErr, file, answer>>

-----------------------------------------------------------------------------
(* The page reader *)

\* begin and SET TRANSACTION; an unscoped target ends the stream with no page.
BeginSnapshot ==
    /\ reader = "begin"
    /\ \/ /\ snap' = Exported(table, req) /\ reader' = "query" /\ UNCHANGED strFaults
       \/ /\ StrFault /\ reader' = "error" /\ UNCHANGED snap
    /\ UNCHANGED <<table, covered, page, streamed, channel, cancelled, writerVars, answer>>

\* Mutant: every page is a transaction of its own.
LiveRows == Exported(table, req)

\* The rows a page query sees.
SnapshotRows == snap

\* One page query: the token is looked at first; no row ends the stream.
FetchPage ==
    /\ reader = "query"
    /\ \/ /\ cancelled /\ reader' = "error" /\ UNCHANGED <<page, strFaults>>
       \/ /\ ~cancelled /\ StrFault /\ reader' = "error" /\ UNCHANGED page
       \/ /\ ~cancelled
          /\ page' = PageAt(SnapshotRows, streamed)
          /\ reader' = IF page' = <<>> THEN "commit" ELSE "send"
          /\ UNCHANGED strFaults
    /\ UNCHANGED <<table, covered, snap, streamed, channel, cancelled, writerVars, answer>>

\* What follows a page of n records that ends at offset end: a short page is the
\* last one, and the hard cap truncates.
AfterPage(n, end) == IF n < PageSize \/ end >= HardCap THEN "commit" ELSE "query"

\* A channel of PAGE_CHANNEL_CAPACITY pages.
Room == Len(channel) < ChannelCapacity

\* The send races the token; a full channel blocks it.
SendPage ==
    /\ reader = "send"
    /\ \/ /\ cancelled /\ reader' = "error"
          /\ UNCHANGED <<page, streamed, channel>>
       \/ /\ ~cancelled /\ Room
          /\ channel' = Append(channel, page) /\ page' = <<>>
          /\ streamed' = streamed + Len(page)
          /\ reader' = AfterPage(Len(page), streamed')
    /\ UNCHANGED <<table, covered, snap, cancelled, writerVars, answer, strFaults>>

CommitSnapshot ==
    /\ reader = "commit"
    /\ \/ reader' = "ok" /\ UNCHANGED strFaults
       \/ reader' = "error" /\ StrFault
    /\ UNCHANGED <<table, covered, snap, page, streamed, channel, cancelled, writerVars, answer>>

-----------------------------------------------------------------------------
(* Everyone else.  One request per behaviour: a query or an export. *)

\* The heartbeat task lost the lease, or the worker shuts down.
CancelExport ==
    /\ writer \in {"open", "write", "join"} /\ ~cancelled /\ StrFault
    /\ cancelled' = TRUE
    /\ UNCHANGED <<table, covered, readerVars, channel, writerVars, answer>>

\* Ingestion commits a row, and accounts for its rows in dataset_completeness
\* afterwards.  Neither matters to an export that is past reading it.
InsertRow(r) ==
    /\ writer \notin {"join", "done", "failed"} /\ answer = NoAnswer
    /\ r \notin table /\ table' = table \cup {r}
    /\ UNCHANGED <<covered, readerVars, channel, cancelled, writerVars, answer, strFaults>>
CoverRows ==
    /\ writer \in {"idle", "open"} /\ answer = NoAnswer
    /\ covered # table /\ covered' = table
    /\ UNCHANGED <<table, readerVars, channel, cancelled, writerVars, answer, strFaults>>

\* A dataset query reads the live table.
QueryDataset(q) ==
    /\ writer = "idle" /\ answer = NoAnswer
    /\ answer' = [req |-> q, rows |-> Queried(table, q)]
    /\ UNCHANGED <<table, covered, readerVars, channel, cancelled, writerVars, strFaults>>

WriterStep == OpenExport \/ WritePage \/ DrainChannel \/ JoinReader
ReaderStep == BeginSnapshot \/ FetchPage \/ SendPage \/ CommitSnapshot

StreamNext ==
    \/ \E q \in Requests : StartExport(q) \/ QueryDataset(q)
    \/ WriterStep \/ ReaderStep
    \/ CancelExport \/ CoverRows
    \/ \E r \in Rows : InsertRow(r)

StreamFairness == WF_streamVars(WriterStep) /\ WF_streamVars(ReaderStep)

StreamSpec == StreamInit /\ [][StreamNext]_streamVars /\ StreamFairness

-----------------------------------------------------------------------------
(* Properties *)

\* Types of the state, and the bound on the memory of an export: at most
\* ChannelCapacity pages wait and no page is longer than PageSize.
StreamTypeOK ==
    /\ table \subseteq Rows /\ covered \subseteq table /\ meta \subseteq covered
    /\ snap \subseteq table
    /\ reader \in {"idle", "begin", "query", "send", "commit", "ok", "error"}
    /\ writer \in {"idle", "open", "write", "join", "done", "failed"}
    /\ Len(channel) <= ChannelCapacity
    /\ \A i \in DOMAIN channel : Len(channel[i]) \in 1 .. PageSize
    /\ cancelled \in BOOLEAN /\ writeErr \in BOOLEAN
    /\ file \in Seq(Rows) /\ strFaults \in 0 .. MaxStreamFaults

\* stream_export_snapshot promises pages that are disjoint and cover the result
\* exactly once although ingestion writes between them; the sanity check of
\* write_export_to_file is that what was written is what was streamed.  A finished
\* file is the snapshot in order, cut after the page that reaches the hard cap.
FileIsTheSnapshot ==
    writer = "done" =>
        /\ streamed = Len(file)
        /\ IsPrefix(file, Ordered(snap))
        /\ Len(file) < HardCap => Len(file) = Len(Ordered(snap))

\* The provenance of an export is read before its rows: whatever
\* dataset_completeness claimed then is in the finished, untruncated file.
CoverageIsInFile ==
    writer = "done" /\ Len(file) < HardCap =>
        Exported(meta, req) \subseteq {file[i] : i \in DOMAIN file}

\* Whether a row is about a target, by the target's own network and addresses.
About(r, t) ==
    LET k == TargetOf[t] IN
    /\ RowOf[r].net = k.net
    /\ CASE k.kind = "wallet"   -> RowOf[r].addr = k.addr
         [] k.kind = "protocol" -> RowOf[r].addr \in {k.addr} \cup k.spec[k.net]
         [] k.kind = "pool"     -> RowOf[r].pool = k.addr

\* An export of a target's gold dataset, cut short or not, holds only rows about
\* that target, whatever network the request names; a query of the Hyperliquid
\* summaries does so too (direct_wallet_scope).
RowsAreAboutTarget ==
    /\ req.dataset \notin {"none", "silver"} /\ req.target # NoTarget =>
           \A i \in DOMAIN file : About(file[i], req.target)
    /\ answer.req.dataset = "hl" /\ answer.req.target # NoTarget =>
           \A r \in answer.rows : About(r, answer.req.target)

\* A finished file is what the export says it is, while ingestion goes on: the
\* snapshot, with everything the provenance claims, about the target asked for,
\* and made in bounded memory.  export_stream.rs write_export_to_file,
\* v2_repo.rs stream_export_snapshot.
ExportFaithful == StreamTypeOK /\ FileIsTheSnapshot /\ CoverageIsInFile /\ RowsAreAboutTarget

\* Whatever fails, and whoever waits on whom across the bounded channel, an export
\* that started returns: the writer does not wait for a reader that is blocked on it.
ExportReturns == (writer = "open") ~> (writer \in {"done", "failed"})

-----------------------------------------------------------------------------
(* The inductive invariant behind ExportFaithful *)

\* What is asked for, and what a query has answered.
AskedOK ==
    /\ writer # "idle" => req \in Requests
    /\ writer = "idle" => req.dataset = "none"
    /\ answer = NoAnswer \/ \E q \in Requests : answer.req = q /\ answer.rows \subseteq Queried(Rows, q)

\* The snapshot, of which a prefix was sent; all of it, or up to the cap, at the end.
SnapshotOK ==
    /\ writer \in {"idle", "open"} => reader = "idle"
    /\ reader \in {"idle", "begin"} => snap = {} /\ streamed = 0 /\ channel = <<>> /\ file = <<>>
    /\ \A r \in snap : r \in Exported(Rows, req)
    /\ reader \in {"query", "send", "commit", "ok"} => Exported(meta, req) \subseteq snap
    /\ streamed \in 0 .. Cardinality(snap)
    /\ reader = "send" => page = PageAt(snap, streamed) /\ page # <<>>
    /\ reader \in {"commit", "ok"} => streamed >= HardCap \/ streamed = Cardinality(snap)

\* The file is the beginning of the snapshot and, unless a write failed, the pages in
\* the channel are what follows; only the last page that is sent may be short.
DeliveredOK ==
    /\ channel \in Seq(Seq(Rows)) /\ IsPrefix(file, Ordered(snap))
    /\ ~writeErr =>
          /\ \A i \in DOMAIN channel : channel[i] = PageAt(snap, Len(file) + (i - 1) * PageSize)
          /\ \A i \in DOMAIN channel :
                i < Len(channel) \/ reader \in {"query", "send"} => Len(channel[i]) = PageSize
          /\ streamed = IF channel = <<>> THEN Len(file)
                        ELSE Len(file) + (Len(channel) - 1) * PageSize + Len(channel[Len(channel)])
          /\ writer \in {"join", "done"} => channel = <<>>
    /\ writeErr => cancelled /\ writer \in {"join", "failed"}
    /\ writer = "done" => reader = "ok"
    /\ writer = "join" /\ ~writeErr => reader \in {"ok", "error"}

FileInv == StreamTypeOK /\ AskedOK /\ SnapshotOK /\ DeliveredOK
=============================================================================
