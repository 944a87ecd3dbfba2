------------------------- MODULE HyperliquidBackfill -------------------------
(***************************************************************************)
(* The Hyperliquid connector's backfill (adapters/src/hyperliquid.rs): the *)
(* wallet's event streams, each paged by its own millisecond cursor, and a *)
(* market's funding rates, driven by ingestion jobs that may overlap.      *)
(*                                                                         *)
(* An event is <<time, n>>: the n-th of its millisecond.  The events of a  *)
(* millisecond appear together (the chain's block).  Cursor 0 stands for   *)
(* an absent cursor: times begin at 1 and resume_after_ms(0) is 1.         *)
(***************************************************************************)
EXTENDS Integers, Sequences, FiniteSets

CONSTANTS
    HlJobs,       \* job executions that may overlap
    WalletKinds,  \* the event streams of a wallet, in the order they are fetched
    PageCap,      \* PageCap[k]: events a provider's page of kind k holds
    EventLimit,   \* ingest_limit
    MaxTime,      \* bound: milliseconds
    MaxTies,      \* bound: events of a kind in one millisecond
    MaxHlErrors   \* bound: errors and lost leases

\* The streams of a target: a wallet's, or the funding rates of a market.
TargetKinds == {"wallet", "market"}
Streams == [kind \in TargetKinds |-> IF kind = "wallet" THEN WalletKinds ELSE <<"funding_rate">>]
KindNames == {"funding_rate"} \cup {WalletKinds[i] : i \in 1..Len(WalletKinds)}
Events == (1..MaxTime) \X (1..MaxTies)

ASSUME HlAssumption ==
    /\ WalletKinds \in Seq(STRING) /\ Len(WalletKinds) > 0
    /\ "funding_rate" \notin {WalletKinds[i] : i \in 1..Len(WalletKinds)}
    /\ PageCap \in [KindNames -> Nat \ {0}]
    /\ EventLimit \in Nat \ {0}
    /\ MaxTime \in Nat /\ MaxTies \in Nat /\ MaxHlErrors \in Nat

VARIABLES
    targetKind, \* the kind of the target
    clock,      \* the chain's time
    history,    \* history[k]: the events the provider knows
    hlCursor,   \* checkpoint: fills_ms, funding_ms, ledger_ms, last_time_ms
    hlRows,     \* hlRows[k]: the events stored in raw_transactions
    hlPc,       \* per execution: where it is
    kindAt,     \* per execution: the stream it is at
    nextCursor, \* per execution: `next`, the cursor it will write
    batch,      \* per execution: <<kind, time, n>> of the events collected
    hlErrors    \* errors so far

hlJobVars == <<hlPc, kindAt, nextCursor, batch>>
hlVars == <<targetKind, clock, history, hlCursor, hlRows, hlJobVars, hlErrors>>

NoCursor == [k \in KindNames |-> 0]

HlInit ==
    /\ targetKind \in TargetKinds
    /\ clock = 0
    /\ history = [k \in KindNames |-> {}]
    /\ hlCursor = NoCursor
    /\ hlRows = [k \in KindNames |-> {}]
    /\ hlPc = [x \in HlJobs |-> "idle"]
    /\ kindAt = [x \in HlJobs |-> 1]
    /\ nextCursor = [x \in HlJobs |-> NoCursor]
    /\ batch = [x \in HlJobs |-> {}]
    /\ hlErrors = 0

\* An execution is over: its local state is gone.
EndBackfill(x) ==
    /\ hlPc' = [hlPc EXCEPT ![x] = "idle"]
    /\ kindAt' = [kindAt EXCEPT ![x] = 1]
    /\ nextCursor' = [nextCursor EXCEPT ![x] = NoCursor]
    /\ batch' = [batch EXCEPT ![x] = {}]

\* The chain: a millisecond passes with n events of kind k.  A market has one
\* funding rate per millisecond at most.
Happen(k, n) ==
    /\ clock < MaxTime
    /\ k = "funding_rate" => n <= 1
    /\ clock' = clock + 1
    /\ history' = [history EXCEPT ![k] = @ \cup {<<clock + 1, i>> : i \in 1..n}]
    /\ UNCHANGED <<targetKind, hlCursor, hlRows, hlJobVars, hlErrors>>

StartBackfill(x) ==
    /\ hlPc[x] = "idle"
    /\ hlPc' = [hlPc EXCEPT ![x] = "page"]
    /\ nextCursor' = [nextCursor EXCEPT ![x] = hlCursor]
    /\ UNCHANGED <<targetKind, clock, history, hlCursor, hlRows, kindAt, batch, hlErrors>>

-----------------------------------------------------------------------------
(* A page *)

ResumeAfterMs(ms) == ms + 1

Since(k, ms) == {e \in history[k] : e[1] >= ms}

\* External: the info endpoint answers with all events since the given time or,
\* when they do not fit into a page, with the oldest of them; which events of
\* the page's last millisecond it includes is its choice.
Answers(k, ms) ==
    {p \in SUBSET Since(k, ms) :
        \/ p = Since(k, ms) /\ Cardinality(p) <= PageCap[k]
        \/ /\ Cardinality(p) = PageCap[k]
           /\ \A e \in p, f \in Since(k, ms) \ p : e[1] <= f[1]}

Saturated(k, p) == Cardinality(p) >= PageCap[k]

\* Mutant: events of the page's last millisecond are kept.
WithoutLastTimeNot(p) == p

WithoutLastTime(p) == {e \in p : \E f \in p : e[1] < f[1]}

\* The first EventLimit events, and the rest of the last one's millisecond: the
\* events fewer than EventLimit others of the page precede.
TakeLimit(p) == {e \in p : Cardinality({f \in p : f[1] < e[1]}) < EventLimit}

\* bounded_time_window
BoundedTimeWindow(k, p) ==
    TakeLimit(IF Saturated(k, p) THEN WithoutLastTime(p) ELSE p)

\* market_backfill: the first EventLimit rates as they come.
MarketWindow(p) ==
    {e \in p : Cardinality({f \in p : f[1] <= e[1]}) <= EventLimit}

Window(k, p) == IF k = "funding_rate" THEN MarketWindow(p) ELSE BoundedTimeWindow(k, p)

\* "Provider page saturated at one timestamp; cannot advance safely"
Stuck(k, p) == k # "funding_rate" /\ Saturated(k, p) /\ WithoutLastTime(p) = {}

\* The cursor after the events w: the time of the last of them (one number).
Latest(ms, w) == IF w = {} THEN {ms} ELSE {t \in {e[1] : e \in w} : \A e \in w : e[1] <= t}

FetchKind(x) ==
    /\ hlPc[x] = "page"
    /\ LET k == Streams[targetKind][kindAt[x]]
       IN \E p \in Answers(k, ResumeAfterMs(nextCursor[x][k])) :
            IF Stuck(k, p) THEN EndBackfill(x)
            ELSE \E t \in Latest(nextCursor[x][k], Window(k, p)) :
                 /\ batch' = [batch EXCEPT ![x] = @ \cup {<<k, e[1], e[2]>> : e \in Window(k, p)}]
                 /\ nextCursor' = [nextCursor EXCEPT ![x][k] = t]
                 /\ IF kindAt[x] < Len(Streams[targetKind])
                    THEN /\ kindAt' = [kindAt EXCEPT ![x] = @ + 1]
                         /\ UNCHANGED hlPc
                    ELSE /\ hlPc' = [hlPc EXCEPT ![x] = "commit"]
                         /\ UNCHANGED kindAt
    /\ UNCHANGED <<targetKind, clock, history, hlCursor, hlRows, hlErrors>>

\* commit_connector_batch: the rows, keyed by kind and content, and the cursors
\* of all kinds, whatever the checkpoint has become since it was read.
CommitBackfill(x) ==
    /\ hlPc[x] = "commit"
    /\ hlRows' = [k \in KindNames |-> hlRows[k] \cup {<<e[2], e[3]>> : e \in {e \in batch[x] : e[1] = k}}]
    /\ hlCursor' = nextCursor[x]
    /\ EndBackfill(x)
    /\ UNCHANGED <<targetKind, clock, history, hlErrors>>

\* A failed request for any of the streams, an event without a time, a lost
\* lease or a failed commit: nothing is written.
FailBackfill(x) ==
    /\ hlPc[x] # "idle"
    /\ hlErrors < MaxHlErrors
    /\ hlErrors' = hlErrors + 1
    /\ EndBackfill(x)
    /\ UNCHANGED <<targetKind, clock, history, hlCursor, hlRows>>

RunBackfill(x) == FetchKind(x) \/ CommitBackfill(x)

HlNext ==
    \/ \E i \in 1..Len(Streams[targetKind]), n \in 1..MaxTies : Happen(Streams[targetKind][i], n)
    \/ \E x \in HlJobs : StartBackfill(x) \/ RunBackfill(x) \/ FailBackfill(x)

HlSpec == HlInit /\ [][HlNext]_hlVars

\* Every request has a timeout, so an execution never hangs.
HlFairness == \A x \in HlJobs : WF_hlVars(RunBackfill(x))

-----------------------------------------------------------------------------
(* Properties *)

HlTypeOK ==
    /\ targetKind \in TargetKinds
    /\ clock \in 0..MaxTime
    /\ history \in [KindNames -> SUBSET Events]
    /\ hlCursor \in [KindNames -> 0..MaxTime]
    /\ hlRows \in [KindNames -> SUBSET Events]
    /\ hlPc \in [HlJobs -> {"idle", "page", "commit"}]
    /\ kindAt \in [HlJobs -> 1..Len(Streams[targetKind])]
    /\ nextCursor \in [HlJobs -> [KindNames -> 0..MaxTime]]
    /\ batch \in [HlJobs -> SUBSET (KindNames \X (1..MaxTime) \X (1..MaxTies))]
    /\ hlErrors \in 0..MaxHlErrors

\* "Never truncate in the middle of a millisecond": whatever pages the provider
\* cuts off, limits, failures and overlapping jobs, no event of any stream up to
\* the stream's cursor is missing.
NoEventSkipped ==
    \A k \in KindNames : \A e \in history[k] : e[1] <= hlCursor[k] => e \in hlRows[k]

\* Some millisecond of a stream fills a page: the streams are stuck there, all
\* of them, for the job fails as a whole.
Jammed ==
    \E k \in KindNames : k # "funding_rate" /\ \E t \in 1..MaxTime :
        Cardinality({e \in history[k] : e[1] = t}) >= PageCap[k]

\* "Independent cursors prevent a full fills page from starving older funding
\* and ledger updates": if jobs keep being asked for, every event of every
\* stream is stored in the end, unless one millisecond fills a page.
HlEventsDrain ==
    []<><<\E x \in HlJobs : StartBackfill(x)>>_hlVars =>
        []<>(Jammed \/ \A k \in KindNames : history[k] \subseteq hlRows[k])

-----------------------------------------------------------------------------
(* The inductive invariant behind NoEventSkipped *)

\* Inductive: what a running backfill has passed with a cursor of its own is
\* stored or in its batch, and no event is newer than the chain's clock.
HlInv ==
    /\ HlTypeOK
    /\ \A k \in KindNames : \A e \in history[k] : e[1] <= clock
    /\ \A e \in history["funding_rate"] : e[2] = 1
    /\ \A k \in KindNames : hlCursor[k] <= clock
    /\ NoEventSkipped
    /\ \A x \in HlJobs, k \in KindNames :
        /\ nextCursor[x][k] <= clock
        /\ \A e \in history[k] : e[1] <= nextCursor[x][k] =>
            e \in hlRows[k] \/ <<k, e[1], e[2]>> \in batch[x]
=============================================================================
