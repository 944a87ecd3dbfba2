--------------------------- MODULE WalletAnalytics ---------------------------
(***************************************************************************)
(* Hyperliquid analytics (adapters/src/hl_analytics.rs): PnL summaries and *)
(* the grouping of fills into trades, rebuilt from every indexed input of  *)
(* a wallet while older and newer fills keep arriving, and the trader and  *)
(* market analytics an API request computes from the two stored tables.    *)
(* Several materializations run at once, of one wallet too; each replaces  *)
(* the rows of a wallet in a table in one transaction, which may fail.     *)
(* Prices enter as size * price, so a weighted average times its size is   *)
(* the sum it was taken over.                                              *)
(***************************************************************************)
EXTENDS Integers, Sequences, FiniteSets, FiniteSetsExt, SequencesExt

CONSTANTS
    Traders,      \* wallets
    Coins,
    Fills,        \* ids of the fills that exist on the exchange
    FillOf,       \* FillOf[f]: [wallet, coin, time, dir, size, px, has, pnl, fee]
    Payments,     \* ids of the funding payments
    PaymentOf,    \* PaymentOf[p]: [wallet, coin, time, amt]
    Second,       \* the time units of a second: fills carry finer times
    MaxRebuilds,  \* bound: materializations
    MaxAnFaults   \* bound: failed replacements and tasks that stop

ASSUME AnalyticsAssumption ==
    /\ IsFiniteSet(Traders) /\ IsFiniteSet(Coins) /\ IsFiniteSet(Fills) /\ IsFiniteSet(Payments)
    /\ MaxRebuilds \in Nat /\ MaxAnFaults \in Nat /\ Second \in Nat \ {0}
    /\ \A f \in Fills :
          FillOf[f] \in [wallet : Traders, coin : Coins, time : Nat, dir : {"Open", "Close", "Flip", "none"},
                        size : Nat \ {0}, px : Nat, has : BOOLEAN, pnl : Int, fee : Int]
    /\ \A p \in Payments : PaymentOf[p] \in [wallet : Traders, coin : Coins, time : Nat, amt : Int]

VARIABLES
    fillRows,  \* hl_fill_records in the order their rows are read
    funded,    \* hl_funding_payments
    tasks,     \* the materializations: wallet, step, inputs and the rows that
               \* the transaction they are in has deleted
    rebuilds,  \* materializations begun
    anFaults,  \* failures so far
    pnl,       \* hl_pnl_summary: pairs of a rebuild and a row that it inserted
    trades,    \* hl_trade_history, in the same way
    pnlBy,     \* history: the rebuild that replaced a wallet's summaries last
    tradesBy,  \* history: the rebuild that replaced its trades last
    raced,     \* history: wallets of which two replacements of a table overlapped
    answer     \* the analytics request that runs: what it read of each table

anTables == <<pnl, trades, pnlBy, tradesBy, raced>>
anVars == <<fillRows, funded, tasks, rebuilds, anFaults, anTables, answer>>

NoTask == [step |-> "idle"]
NoReply == [step |-> "none"]
Rebuilds == 1 .. MaxRebuilds

\* The rows of a table, without the rebuilds that inserted them.
Rows(table) == {x[2] : x \in table}

Size(f) == FillOf[f].size
Notional(f) == FillOf[f].size * FillOf[f].px

\* Fields of a set of fills added up.
SumOf(S, Amount(_)) == SumFunction([x \in S |-> Amount(x)])

-----------------------------------------------------------------------------
(* compute_pnl_summary: one row per coin of the wallet's fills and funding. *)

SummaryCoins(fs, ps) == {FillOf[f].coin : f \in fs} \cup {PaymentOf[p].coin : p \in ps}

\* The first and the last second of the inputs.
Period(fs, ps) ==
    LET times == {FillOf[f].time \div Second : f \in fs} \cup {PaymentOf[p].time \div Second : p \in ps}
    IN <<Min(times), Max(times)>>

CoinSummary(w, c, fs, ps) ==
    LET own == {f \in fs : FillOf[f].coin = c}
        paid == {p \in ps : PaymentOf[p].coin = c}
        closed == SumOf({f \in own : FillOf[f].has}, LAMBDA f : FillOf[f].pnl)
        fees == SumOf(own, LAMBDA f : FillOf[f].fee)
        funding == SumOf(paid, LAMBDA p : PaymentOf[p].amt)
    IN [wallet |-> w, coin |-> c, period |-> Period(fs, ps), closed |-> closed, net |-> closed + funding - fees,
        fills |-> Cardinality(own),
        wins |-> Cardinality({f \in own : FillOf[f].has /\ FillOf[f].pnl > 0}),
        losses |-> Cardinality({f \in own : FillOf[f].has /\ FillOf[f].pnl < 0})]

PnlSummary(w, fs, ps) == {CoinSummary(w, c, fs, ps) : c \in SummaryCoins(fs, ps)}

-----------------------------------------------------------------------------
(* build_trade_history. *)

\* sort_by_key is stable: ties keep the order of the rows.
Earlier(rows, i, j) == \/ FillOf[rows[i]].time < FillOf[rows[j]].time
                       \/ FillOf[rows[i]].time = FillOf[rows[j]].time /\ i < j

\* The fills of some rows, sorted: each at the place of its rank.
Sorted(rows, at, Before(_, _)) ==
    [k \in 1 .. Cardinality(at) |->
        rows[CHOOSE i \in at : Cardinality({j \in at : Before(j, i)}) = k - 1]]

Realized(f) == IF FillOf[f].has THEN FillOf[f].pnl ELSE 0

\* A trade of the opening fills in `opens` that `close` ends.
Paired(opens, close) ==
    [wallet |-> FillOf[close].wallet, coin |-> FillOf[close].coin, fills |-> Range(opens) \cup {close},
     size |-> SumOf(Range(opens), Size), volume |-> SumOf(Range(opens), Notional),
     realized |-> Realized(close), closed |-> FillOf[close].time]

Standalone(f) ==
    [wallet |-> FillOf[f].wallet, coin |-> FillOf[f].coin, fills |-> {f}, size |-> Size(f),
     volume |-> Notional(f), realized |-> Realized(f), closed |-> FillOf[f].time]

\* The opens that a close leaves to the next one.
AfterClose(opens) == <<>>

\* A close ends the trade of the opens before it, or stands alone.
NextFill(acc, f) ==
    CASE FillOf[f].dir = "Open" -> [acc EXCEPT !.opens = Append(@, f)]
      [] FillOf[f].dir = "Close" /\ acc.opens # <<>> ->
           [opens |-> AfterClose(acc.opens), trades |-> acc.trades \cup {Paired(acc.opens, f)}]
      [] FillOf[f].dir = "Close" /\ acc.opens = <<>> ->
           [acc EXCEPT !.trades = @ \cup {Standalone(f)}]
      [] OTHER -> acc

CoinRows(rows, c) == {i \in DOMAIN rows : FillOf[rows[i]].coin = c}

\* Mutant: the rows are taken in the order they were read.
CoinFillsAsRead(rows, c) == Sorted(rows, CoinRows(rows, c), LAMBDA i, j : i < j)

CoinFills(rows, c) == Sorted(rows, CoinRows(rows, c), LAMBDA i, j : Earlier(rows, i, j))

Directed(seq) == \E i \in DOMAIN seq : FillOf[seq[i]].dir \in {"Open", "Close"}

CoinTrades(seq) ==
    LET upTo[k \in 0 .. Len(seq)] ==
            IF k = 0 THEN [opens |-> <<>>, trades |-> {}] ELSE NextFill(upTo[k - 1], seq[k])
    IN IF Directed(seq) THEN upTo[Len(seq)].trades
       ELSE {Standalone(f) : f \in {g \in Range(seq) : FillOf[g].has}}

TradeHistory(rows) == UNION {CoinTrades(CoinFills(rows, c)) : c \in Coins}

-----------------------------------------------------------------------------
(* Analytics of stored rows. *)

\* build_trader_analytics.
TraderAnalytics(w, ps, ts) ==
    [net |-> SumOf(ps, LAMBDA s : s.net), volume |-> SumOf(ts, LAMBDA t : t.volume),
     trades |-> Cardinality(ts),
     coins |-> [c \in {s.coin : s \in ps} \cup {t.coin : t \in ts} |->
                  [net |-> SumOf({s \in ps : s.coin = c}, LAMBDA s : s.net),
                   volume |-> SumOf({t \in ts : t.coin = c}, LAMBDA t : t.volume),
                   trades |-> Cardinality({t \in ts : t.coin = c})]]]

\* Mutant: traders are counted where they have a PnL summary.
MarketTradersSummarized(c, ps, ts) == {s.wallet : s \in {x \in ps : x.coin = c}}

MarketTraders(c, ps, ts) == {s.wallet : s \in {x \in ps : x.coin = c}} \cup {t.wallet : t \in {x \in ts : x.coin = c}}

\* build_market_analytics.
MarketAnalytics(ps, ts) ==
    LET coins == {s.coin : s \in ps} \cup {t.coin : t \in ts}
    IN [coins |-> [c \in coins |->
                     [volume |-> SumOf({t \in ts : t.coin = c}, LAMBDA t : t.volume),
                      traders |-> Cardinality(MarketTraders(c, ps, ts)),
                      trades |-> Cardinality({t \in ts : t.coin = c}),
                      pnl |-> SumOf({s \in ps : s.coin = c}, LAMBDA s : s.net)]],
        volume |-> SumOf(ts, LAMBDA t : t.volume),
        traders |-> Cardinality(UNION {MarketTraders(c, ps, ts) : c \in coins})]

-----------------------------------------------------------------------------
AnInit ==
    /\ fillRows = <<>> /\ funded = {} /\ tasks = [r \in Rebuilds |-> NoTask] /\ rebuilds = 0 /\ anFaults = 0
    /\ pnl = {} /\ trades = {} /\ raced = {} /\ answer = NoReply
    /\ pnlBy = [w \in Traders |-> 0] /\ tradesBy = [w \in Traders |-> 0]

\* Silver materialization stores a fill; pages of history arrive in any order.
IndexFill(f) ==
    /\ f \notin Range(fillRows)
    /\ fillRows' = Append(fillRows, f)
    /\ UNCHANGED <<funded, tasks, rebuilds, anFaults, anTables, answer>>

IndexFunding(p) ==
    /\ p \notin funded
    /\ funded' = funded \cup {p}
    /\ UNCHANGED <<fillRows, tasks, rebuilds, anFaults, anTables, answer>>

-----------------------------------------------------------------------------
(* materialize_gold of rebuild r.  Each task of the worker runs on its own. *)

\* hl_wallet_inputs: every indexed fill of the wallet, at its row ...
LoadFills(w) ==
    /\ rebuilds < MaxRebuilds
    /\ rebuilds' = rebuilds + 1
    /\ tasks' = [tasks EXCEPT ![rebuilds + 1] =
                  [step |-> "payments", wallet |-> w, payments |-> {}, seen |-> {},
                   fills |-> [i \in {j \in DOMAIN fillRows : FillOf[fillRows[j]].wallet = w} |-> fillRows[i]]]]
    /\ UNCHANGED <<fillRows, funded, anFaults, anTables, answer>>

\* ... then every funding payment.  Without either nothing is rebuilt.
LoadPayments(r) ==
    /\ tasks[r].step = "payments"
    /\ LET ps == {p \in funded : PaymentOf[p].wallet = tasks[r].wallet}
       IN tasks' = [tasks EXCEPT ![r] = IF DOMAIN @.fills = {} /\ ps = {} THEN NoTask
                                      ELSE [@ EXCEPT !.step = "pnl", !.payments = ps]]
    /\ UNCHANGED <<fillRows, funded, rebuilds, anFaults, anTables, answer>>

\* The step after the summaries, whether they were replaced or not.
AfterPnl(j) == IF DOMAIN j.fills = {} THEN NoTask ELSE [j EXCEPT !.step = "trades", !.seen = {}]

\* A replacement deletes the wallet's rows that its statement sees, ...
OwnRows(table, w) == {x \in table : x[2].wallet = w}

\* ... and inserts and commits its own: a row of the same id is overwritten, one
\* that another replacement has committed in between stays.
Committed(table, seen, r, new, Id(_)) ==
    {x \in table \ seen : \A s \in new : Id(s) # Id(x[2])} \cup {<<r, s>> : s \in new}

\* The wallet of a replacement that another one overlaps when it commits.
Overlapped(r) ==
    {w \in {tasks[r].wallet} : \E q \in Rebuilds \ {r} : tasks[q].step = tasks[r].step /\ tasks[q].wallet = w}

AnFault == anFaults < MaxAnFaults /\ anFaults' = anFaults + 1

DeleteSummaries(r) ==
    /\ tasks[r].step = "pnl"
    /\ tasks' = [tasks EXCEPT ![r].step = "insert pnl", ![r].seen = OwnRows(pnl, tasks[r].wallet)]
    /\ UNCHANGED <<fillRows, funded, rebuilds, anFaults, anTables, answer>>

ReplaceSummaries(r) ==
    /\ tasks[r].step = "insert pnl"
    /\ pnl' = Committed(pnl, tasks[r].seen, r, PnlSummary(tasks[r].wallet, Range(tasks[r].fills), tasks[r].payments),
                        LAMBDA s : <<s.wallet, s.coin, s.period>>)
    /\ pnlBy' = [pnlBy EXCEPT ![tasks[r].wallet] = r]
    /\ raced' = raced \cup Overlapped(r)
    /\ tasks' = [tasks EXCEPT ![r] = AfterPnl(@)]
    /\ UNCHANGED <<fillRows, funded, rebuilds, anFaults, trades, tradesBy, answer>>

\* The transaction fails and is rolled back; its rows are counted as failed and
\* the task goes on with the trades of the same inputs.
SummariesFail(r) ==
    /\ tasks[r].step \in {"pnl", "insert pnl"} /\ AnFault
    /\ tasks' = [tasks EXCEPT ![r] = AfterPnl(@)]
    /\ UNCHANGED <<fillRows, funded, rebuilds, anTables, answer>>

DeleteHistory(r) ==
    /\ tasks[r].step = "trades"
    /\ tasks' = [tasks EXCEPT ![r].step = "insert trades", ![r].seen = OwnRows(trades, tasks[r].wallet)]
    /\ UNCHANGED <<fillRows, funded, rebuilds, anFaults, anTables, answer>>

ReplaceHistory(r) ==
    /\ tasks[r].step = "insert trades"
    /\ trades' = Committed(trades, tasks[r].seen, r, TradeHistory(tasks[r].fills),
                           LAMBDA t : <<t.wallet, t.coin, t.fills>>)
    /\ tradesBy' = [tradesBy EXCEPT ![tasks[r].wallet] = r]
    /\ raced' = raced \cup Overlapped(r)
    /\ tasks' = [tasks EXCEPT ![r] = NoTask]
    /\ UNCHANGED <<fillRows, funded, rebuilds, anFaults, pnl, pnlBy, answer>>

\* The trades fail likewise, or the process of a task stops at any step.
TaskEnds(r) ==
    /\ tasks[r] # NoTask /\ AnFault
    /\ tasks' = [tasks EXCEPT ![r] = NoTask]
    /\ UNCHANGED <<fillRows, funded, rebuilds, anTables, answer>>

Rebuild(r) ==
    \/ LoadPayments(r)
    \/ DeleteSummaries(r) \/ ReplaceSummaries(r) \/ SummariesFail(r)
    \/ DeleteHistory(r) \/ ReplaceHistory(r) \/ TaskEnds(r)

-----------------------------------------------------------------------------
\* An analytics request reads the summaries ...
AskSummaries ==
    /\ answer = NoReply
    /\ answer' = [step |-> "summaries", pnl |-> Rows(pnl)]
    /\ UNCHANGED <<fillRows, funded, tasks, rebuilds, anFaults, anTables>>

\* ... then the trades, and answers from both.
AskTrades ==
    /\ answer.step = "summaries"
    /\ answer' = [step |-> "answered", pnl |-> answer.pnl, trades |-> Rows(trades)]
    /\ UNCHANGED <<fillRows, funded, tasks, rebuilds, anFaults, anTables>>

AnNext ==
    \/ \E f \in Fills : IndexFill(f)
    \/ \E p \in Payments : IndexFunding(p)
    \/ \E w \in Traders : LoadFills(w)
    \/ \E r \in Rebuilds : Rebuild(r)
    \/ AskSummaries \/ AskTrades

AnSpec == AnInit /\ [][AnNext]_anVars

-----------------------------------------------------------------------------
(* Properties. *)

\* Types of the analytics rows.
AnTypeOK ==
    /\ Range(fillRows) \subseteq Fills /\ funded \subseteq Payments
    /\ \A r \in Rebuilds : tasks[r].step \in {"idle", "payments", "pnl", "insert pnl", "trades", "insert trades"}
    /\ rebuilds \in 0 .. MaxRebuilds /\ raced \subseteq Traders
    /\ \A s \in Rows(pnl) : s.wallet \in Traders /\ s.coin \in Coins
    /\ \A t \in Rows(trades) : t.wallet \in Traders /\ t.coin \in Coins /\ t.size > 0
    /\ answer.step \in {"none", "summaries", "answered"}

\* A fill belongs to one trade at most: fills that arrive late, and rebuilds of
\* the history that other fills have changed, never leave one counted twice,
\* unless two tasks replaced the wallet's trades at once.
\* hl_analytics.rs build_trade_history, replace_hl_trade_history.
FillInOneTrade ==
    \A x, y \in trades : x # y /\ x[2].wallet \notin raced => x[2].fills \cap y[2].fills = {}

\* The opens of a close, by time alone: those after the close before it.
OpensBefore(fs, c) ==
    {o \in fs : /\ FillOf[o].dir = "Open" /\ FillOf[o].time < FillOf[c].time
                /\ ~\E d \in fs : /\ FillOf[d].dir = "Close" /\ FillOf[d].time < FillOf[c].time
                                  /\ FillOf[o].time < FillOf[d].time}

\* Fills of one coin with pairwise different times.
Timed(fs) == \A f, g \in fs : FillOf[f].time = FillOf[g].time => f = g

\* The trades of a wallet depend on its fills and not on the order in which
\* their rows arrive: each close is paired with the opens since the one before.
TradesIgnoreArrival ==
    \A r \in Rebuilds : tasks[r].step = "trades" =>
        \A c \in Coins :
            LET fs == {f \in Range(tasks[r].fills) : FillOf[f].coin = c}
                closes == {f \in fs : FillOf[f].dir = "Close"}
            IN Timed(fs) /\ Directed(CoinFills(tasks[r].fills, c)) =>
                 {t.fills : t \in CoinTrades(CoinFills(tasks[r].fills, c))} =
                 {OpensBefore(fs, d) \cup {d} : d \in closes}

\* Only closes realize PnL among the fills fs of a summary's wallet and coin.
OnlyClosesRealize(fs, s) ==
    \A f \in fs : FillOf[f].wallet = s.wallet /\ FillOf[f].coin = s.coin /\ Realized(f) # 0 => FillOf[f].dir = "Close"

RealizedBy(ts, s) == SumOf({t \in ts : t.wallet = s.wallet /\ t.coin = s.coin}, LAMBDA t : t.realized)

\* Where only closes realize PnL, the trades of a wallet's coin realize what its
\* summary reports.
Explained(s) == OnlyClosesRealize(Range(fillRows), s) => RealizedBy(Rows(trades), s) = s.closed

\* The two tables of a wallet agree when one rebuild was the last to replace
\* both.  They need not when its other replacement failed or the task stopped,
\* when another rebuild came between the two, or overlapped one of them.
TradesExplainPnl ==
    \A w \in Traders \ raced :
        pnlBy[w] = tradesBy[w] => \A s \in Rows(OwnRows(pnl, w)) : Explained(s)

\* Trades account for the fills they are made from, in whatever order and
\* batches these arrive and however rebuilds of a wallet interleave and fail:
\* build_trade_history pairs each close with its opens, counts no fill twice and
\* realizes the PnL of the summaries that the same rebuild wrote.
TradesAreSound == FillInOneTrade /\ TradesIgnoreArrival /\ TradesExplainPnl

\* An answer adds up though its tables are read one after the other while
\* wallets are rebuilt: the market is the sum of its traders, coin by coin.
MarketIsSumOfTraders ==
    answer.step = "answered" =>
        LET m == MarketAnalytics(answer.pnl, answer.trades)
            one == [w \in Traders |-> TraderAnalytics(w, {s \in answer.pnl : s.wallet = w},
                                                         {t \in answer.trades : t.wallet = w})]
            Active(w) == DOMAIN one[w].coins # {}
        IN /\ m.volume = SumOf(Traders, LAMBDA w : one[w].volume)
           /\ m.traders = Cardinality({w \in Traders : Active(w)})
           /\ \A c \in DOMAIN m.coins :
                LET in == {w \in Traders : c \in DOMAIN one[w].coins}
                IN /\ m.coins[c].pnl = SumOf(in, LAMBDA w : one[w].coins[c].net)
                   /\ m.coins[c].trades = SumOf(in, LAMBDA w : one[w].coins[c].trades)
                   /\ m.coins[c].traders = Cardinality(in)

\* A trader's total is what the exchange settled for the wallet: closed PnL and
\* funding less fees, over every coin, whether traded or only funded.  It is what
\* the rebuild read that replaced the summaries last.
NetIsSettled ==
    \A r \in Rebuilds : tasks[r].step = "trades" =>
        LET w == tasks[r].wallet
        IN pnlBy[w] = r /\ w \notin raced =>
             SumOf(Rows(OwnRows(pnl, w)), LAMBDA s : s.net) =
               SumOf(Range(tasks[r].fills), LAMBDA f : Realized(f) - FillOf[f].fee)
               + SumOf(tasks[r].payments, LAMBDA p : PaymentOf[p].amt)

-----------------------------------------------------------------------------
\* A table of summaries.
SummariesOK(ps) ==
    IsFiniteSet(ps) /\ \A s \in ps : s.wallet \in Traders /\ s.coin \in Coins /\ s.closed \in Int /\ s.net \in Int

\* A trade is made of fills of its wallet and coin.
TradeOK(t) ==
    /\ t.wallet \in Traders /\ t.coin \in Coins /\ t.size \in Nat \ {0} /\ t.volume \in Int /\ t.realized \in Int
    /\ t.fills \subseteq Fills
    /\ \A f \in t.fills : FillOf[f].wallet = t.wallet /\ FillOf[f].coin = t.coin

TradesOK(ts) == IsFiniteSet(ts) /\ \A t \in ts : TradeOK(t)

\* What a running materialization holds: rows of its wallet, each fill once.
TaskOK(r) ==
    LET j == tasks[r]
    IN /\ r <= rebuilds
       /\ j = [step |-> j.step, wallet |-> j.wallet, payments |-> j.payments, seen |-> j.seen, fills |-> j.fills]
       /\ j.step \in {"payments", "pnl", "insert pnl", "trades", "insert trades"}
       /\ j.wallet \in Traders /\ j.payments \subseteq Payments
       /\ DOMAIN j.fills \subseteq DOMAIN fillRows
       /\ \A i \in DOMAIN j.fills : j.fills[i] = fillRows[i] /\ FillOf[fillRows[i]].wallet = j.wallet
       /\ \A p \in j.payments : PaymentOf[p].wallet = j.wallet

\* Its rows are in the tables when it has inserted them: all of them as long as
\* it was the last to replace the wallet's.
TaskRowsOK(r) ==
    LET w == tasks[r].wallet
        own == {x \in OwnRows(pnl, w) : x[1] = r}
        all == {<<r, s>> : s \in PnlSummary(w, Range(tasks[r].fills), tasks[r].payments)}
    IN /\ \A x \in tasks[r].seen : x[2].wallet = w
       /\ tradesBy[w] # r /\ \A x \in trades : x[1] # r
       /\ tasks[r].step \in {"payments", "pnl", "insert pnl"} => pnlBy[w] # r /\ \A x \in pnl : x[1] # r
       /\ tasks[r].step \in {"trades", "insert trades"} => own \subseteq all /\ (pnlBy[w] = r => own = all)
       /\ tasks[r].step = "insert pnl" /\ w \notin raced => OwnRows(pnl, w) \subseteq tasks[r].seen
       /\ tasks[r].step = "insert trades" /\ w \notin raced => OwnRows(trades, w) \subseteq tasks[r].seen

\* A table of rows by the rebuilds that inserted them; where no two replacements
\* of a wallet overlapped, all its rows are the last one's.
TableOK(table, by) ==
    /\ IsFiniteSet(table) /\ \A x \in table : x = <<x[1], x[2]>> /\ x[1] \in 1 .. rebuilds
    /\ by \in [Traders -> 0 .. rebuilds]
    /\ \A x \in table : x[2].wallet \notin raced => x[1] = by[x[2].wallet]

AnswerOK ==
    /\ answer.step = "summaries" => SummariesOK(answer.pnl)
    /\ answer.step = "answered" => SummariesOK(answer.pnl) /\ TradesOK(answer.trades)

\* What the rebuild that replaced both tables of a wallet last wrote in them.
LastAgree ==
    \A x \in pnl : LET w == x[2].wallet
                   IN x[1] = pnlBy[w] /\ pnlBy[w] = tradesBy[w] /\ OnlyClosesRealize(Range(fillRows), x[2]) =>
                        RealizedBy(Rows({y \in trades : y[1] = tradesBy[w]}), x[2]) = x[2].closed

\* The inductive invariant: the rows of each rebuild agree, whatever else the
\* tables hold.
AnInv ==
    /\ fillRows \in Seq(Fills) /\ \A i, j \in DOMAIN fillRows : fillRows[i] = fillRows[j] => i = j
    /\ funded \subseteq Payments /\ rebuilds \in 0 .. MaxRebuilds /\ raced \subseteq Traders
    /\ tasks = [r \in Rebuilds |-> tasks[r]] /\ \A r \in Rebuilds : tasks[r] = NoTask \/ (TaskOK(r) /\ TaskRowsOK(r))
    /\ TableOK(pnl, pnlBy) /\ SummariesOK(Rows(pnl))
    /\ TableOK(trades, tradesBy) /\ TradesOK(Rows(trades))
    /\ \A x, y \in trades : x # y /\ x[1] = y[1] => x[2].fills \cap y[2].fills = {}
    /\ LastAgree
    /\ answer.step \in {"none", "summaries", "answered"} /\ AnswerOK
=============================================================================
