------------------------- MODULE GoldMaterialization -------------------------
(***************************************************************************)
(* What a materialization run writes (adapters/src/dual_write.rs,          *)
(* materialize_silver_from_bronze and materialize_gold_from_silver): the   *)
(* Silver tables, the wallet ledger, the balance history, the Hyperliquid  *)
(* analytics and the completeness rows of one wallet target, by tasks that *)
(* may overlap, fail at any statement and be retried.                      *)
(*                                                                         *)
(* An input is a raw transaction.  Inputs are numbered in the replay order *)
(* of the balance history (timestamp, snapshot id) and each has one        *)
(* balance event of the wallet's one asset.                                *)
(***************************************************************************)
EXTENDS Integers, FiniteSets, FiniteSetsExt

CONSTANTS
    GoldTasks,   \* concurrent tasks: permits of the materialization workers
    GoldRuns,    \* ingestion runs of the wallet
    NoRun,       \* the run of an idle task
    Inputs,      \* raw transactions
    RunInputs,   \* RunInputs[r]: the inputs of run r
    TimeOf,      \* TimeOf[i]: timestamp of an input
    DeltaOf,     \* DeltaOf[i]: what input i adds to the balance
    InLedger,    \* inputs that move value of the wallet
    FillInputs,  \* inputs that are Hyperliquid fills or funding payments
    Rejected,    \* inputs validate_import_payload rejects
    Legacy,      \* inputs an earlier release has materialized: ledger rows of
                 \* its parser, a balance without a stored delta
    MaxGoldFaults  \* bound: failed statements and crashes

ASSUME GoldAssumption ==
    /\ Inputs \subseteq Nat /\ IsFiniteSet(Inputs)
    /\ RunInputs \in [GoldRuns -> SUBSET Inputs]
    /\ \A r \in GoldRuns : RunInputs[r] # {}
    /\ TimeOf \in [Inputs -> Nat] /\ DeltaOf \in [Inputs -> Int]
    /\ \A i, j \in Inputs : i < j => TimeOf[i] <= TimeOf[j]
    /\ InLedger \subseteq Inputs /\ FillInputs \subseteq Inputs
    /\ Rejected \subseteq Inputs /\ Legacy \subseteq Inputs
    /\ MaxGoldFaults \in Nat

VARIABLES
    silverOf,  \* inputs whose Silver rows are stored
    goldLedger, \* goldLedger[i]: "none", or rows of the "old" or the "new" parser
    balance,   \* balance[i]: the balance of snapshot i
    snaps,     \* snapshots stored in balance_history
    deltas,    \* snapshots stored with their delta
    pnlFrom,   \* inputs the hl_pnl_summary rows are computed from
    tradesFrom, \* inputs the hl_trade_history rows are computed from
    protocol,  \* inputs whose protocol events are stored
    complete,  \* completeness[d]: status and coverage of a Gold dataset
    outcome,   \* outcome[r]: what the last finished task reported of run r
    raced,     \* history: "balance" or "hl" rows were written while another task
               \* stood between its own read and write of them
    gpc,       \* per task: the statement it is at
    gRun,      \* per task: its run
    seed,      \* per task: balance before the first incoming event
    suffix,    \* per task: stored snapshots from the first incoming event on
    hlInputs,  \* per task: hl_wallet_inputs
    touched,   \* per task: datasets in per_dataset_network_written
    failed,    \* per task: what failed: datasets and "silver"
    gFaults    \* failed statements and crashes so far

goldTables == <<silverOf, goldLedger, balance, snaps, deltas, pnlFrom, tradesFrom, protocol, complete>>
goldLocals == <<seed, suffix, hlInputs, touched, failed>>
goldVars == <<goldTables, outcome, raced, gpc, gRun, goldLocals, gFaults>>

GoldDatasets == {"wallet_ledger", "balance_history"}
Datasets == GoldDatasets \cup {"silver"}  \* the Silver tables move together
NoCompleteness == [status |-> "none", from |-> 0, to |-> 0]

\* The replay of a set of events in their order: the balance after each of them,
\* when it was start before the first.
Replay(es, start) ==
    LET running[i \in es] ==
            LET prior == {j \in es : j < i}
            IN  DeltaOf[i] + IF prior = {} THEN start ELSE running[Max(prior)]
    IN  running

GoldInit ==
    /\ silverOf = {}
    /\ goldLedger = [i \in Inputs |-> IF i \in Legacy THEN "old" ELSE "none"]
    /\ balance = [i \in Inputs |-> IF i \in Legacy THEN Replay(Legacy, 0)[i] ELSE 0]
    /\ snaps = Legacy
    /\ deltas = {}
    /\ pnlFrom = {} /\ tradesFrom = {} /\ protocol = {}
    /\ complete = [d \in Datasets |-> NoCompleteness]
    /\ outcome = [r \in GoldRuns |-> "none"]
    /\ raced = {}
    /\ gpc = [x \in GoldTasks |-> "idle"]
    /\ gRun = [x \in GoldTasks |-> NoRun]
    /\ seed = [x \in GoldTasks |-> 0]
    /\ suffix = [x \in GoldTasks |-> {}]
    /\ hlInputs = [x \in GoldTasks |-> {}]
    /\ touched = [x \in GoldTasks |-> {}]
    /\ failed = [x \in GoldTasks |-> {}]
    /\ gFaults = 0

In(x) == RunInputs[gRun[x]]
First(x) == Min(In(x))

GoldGoto(x, l) == gpc' = [gpc EXCEPT ![x] = l]
Fails(x, what) == failed' = [failed EXCEPT ![x] = @ \cup {what}]
GoldFault == gFaults < MaxGoldFaults /\ gFaults' = gFaults + 1

\* The locals of a task whose call ends.
ClearLocals(x) ==
    /\ gRun' = [gRun EXCEPT ![x] = NoRun]
    /\ seed' = [seed EXCEPT ![x] = 0]
    /\ suffix' = [suffix EXCEPT ![x] = {}]
    /\ hlInputs' = [hlInputs EXCEPT ![x] = {}]
    /\ touched' = [touched EXCEPT ![x] = {}]
    /\ failed' = [failed EXCEPT ![x] = {}]

\* The task returns: all_succeeded, or an error that names the run for a retry.
Report(x, verdict) ==
    /\ outcome' = [outcome EXCEPT ![gRun[x]] = verdict]
    /\ GoldGoto(x, "idle")
    /\ ClearLocals(x)

-----------------------------------------------------------------------------
(* materialize_silver_from_bronze *)

\* execute_normalize reads the raw transactions of a run, new or being retried.
\* A payload that does not validate ends it before anything is written.
StartGold(x, r) ==
    /\ gpc[x] = "idle"
    /\ \/ /\ RunInputs[r] \cap Rejected # {}
          /\ outcome' = [outcome EXCEPT ![r] = "failed"]
          /\ UNCHANGED <<gpc, gRun>>
       \/ /\ RunInputs[r] \cap Rejected = {}
          /\ gRun' = [gRun EXCEPT ![x] = r]
          /\ GoldGoto(x, "silver")
          /\ UNCHANGED outcome
    /\ UNCHANGED <<goldTables, goldLocals, raced, gFaults>>

\* The Silver rows are inserted unless present, table by table.  A failed table
\* fails the run but not its Gold records, which are derived from the parsed rows.
SaveSilver(x) ==
    /\ gpc[x] = "silver"
    /\ \/ /\ silverOf' = silverOf \cup In(x)
          /\ UNCHANGED <<failed, gFaults>>
       \/ GoldFault /\ Fails(x, "silver") /\ UNCHANGED silverOf
    /\ GoldGoto(x, "canonical")
    /\ UNCHANGED <<goldLedger, balance, snaps, deltas, pnlFrom, tradesFrom, protocol, complete, outcome,
                   gRun, raced, seed, suffix, hlInputs, touched>>

\* canonical_decoded_events: without the persisted ids nothing of Gold is derived.
ResolveCanonical(x) ==
    /\ gpc[x] = "canonical"
    /\ \/ GoldGoto(x, "ledger") /\ UNCHANGED <<outcome, gRun, goldLocals, gFaults>>
       \/ GoldFault /\ Report(x, "failed")
    /\ UNCHANGED <<goldTables, raced>>

-----------------------------------------------------------------------------
(* materialize_gold_from_silver: the wallet ledger *)

\* The ledger records of the batch; their number is what a failure is counted by.
LedgerBatch(x) == In(x) \cap InLedger

\* Mutant: records are inserted without deleting those of the input slice.
ReplaceLedgerAdds(x) ==
    [i \in Inputs |-> IF i \in In(x) /\ i \in InLedger /\ goldLedger[i] = "none" THEN "new" ELSE goldLedger[i]]

\* replace_wallet_ledger_records: one transaction deletes and inserts.
ReplaceLedger(x) ==
    [i \in Inputs |-> IF i \in In(x) THEN IF i \in InLedger THEN "new" ELSE "none" ELSE goldLedger[i]]

WriteLedger(x) ==
    /\ gpc[x] = "ledger"
    /\ \/ goldLedger' = ReplaceLedger(x) /\ UNCHANGED <<failed, gFaults>>
       \/ /\ GoldFault
          /\ IF LedgerBatch(x) # {} THEN Fails(x, "wallet_ledger") ELSE UNCHANGED failed
          /\ UNCHANGED goldLedger
    /\ touched' = [touched EXCEPT ![x] = IF LedgerBatch(x) # {} THEN @ \cup {"wallet_ledger"} ELSE @]
    /\ GoldGoto(x, "seed")
    /\ UNCHANGED <<silverOf, balance, snaps, deltas, pnlFrom, tradesFrom, protocol, complete, outcome,
                   gRun, raced, seed, suffix, hlInputs>>

-----------------------------------------------------------------------------
(* The balance history *)

\* A balance read fails: the asset is skipped and counted as failed.
SkipBalances(x) ==
    /\ Fails(x, "balance_history")
    /\ touched' = [touched EXCEPT ![x] = @ \cup {"balance_history"}]
    /\ GoldGoto(x, "hl")

\* get_latest_balance_snapshot_before_order: no row is a balance of zero.
BalanceBefore(i) ==
    LET before == {j \in snaps : j < i}
    IN  IF before = {} THEN 0 ELSE balance[Max(before)]

ReadSeed(x) ==
    /\ gpc[x] = "seed"
    /\ \/ /\ seed' = [seed EXCEPT ![x] = BalanceBefore(First(x))]
          /\ GoldGoto(x, "suffix")
          /\ UNCHANGED <<touched, failed, gFaults>>
       \/ GoldFault /\ SkipBalances(x) /\ UNCHANGED seed
    /\ UNCHANGED <<goldTables, outcome, gRun, raced, suffix, hlInputs>>

\* get_balance_snapshots_at_or_after_order
ReadSuffix(x) ==
    /\ gpc[x] = "suffix"
    /\ \/ /\ suffix' = [suffix EXCEPT ![x] = {i \in snaps : i >= First(x)}]
          /\ GoldGoto(x, "deltas")
          /\ UNCHANGED <<touched, failed, gFaults>>
       \/ GoldFault /\ SkipBalances(x) /\ UNCHANGED suffix
    /\ UNCHANGED <<goldTables, outcome, gRun, raced, seed, hlInputs>>

\* Every stored snapshot of the suffix is incoming or has its delta stored.
Recomputable(x) == suffix[x] \ In(x) \subseteq deltas

\* balance_snapshot_deltas, and the check that the suffix can be recomputed.
ReadDeltas(x) ==
    /\ gpc[x] = "deltas"
    /\ \/ Recomputable(x) /\ GoldGoto(x, "balances") /\ UNCHANGED <<touched, failed, gFaults>>
       \/ ~Recomputable(x) /\ SkipBalances(x) /\ UNCHANGED gFaults
       \/ GoldFault /\ SkipBalances(x)
    /\ UNCHANGED <<goldTables, outcome, gRun, raced, seed, suffix, hlInputs>>

\* Mutant: only the incoming events are recomputed, not the rows after them.
RecomputeIncoming(x) == In(x)

\* The events to recompute: the incoming ones and the stored ones after the first.
Recompute(x) == In(x) \cup suffix[x]

\* The section of a task between its read of a table and its write.
Section(what) == IF what = "balance" THEN {"suffix", "deltas", "balances"} ELSE {"pnl", "trades"}
Races(x, what) == raced' = IF \E y \in GoldTasks \ {x} : gpc[y] \in Section(what)
                           THEN raced \cup {what} ELSE raced

\* save_balance_snapshots_with_deltas, in one transaction.
WriteBalances(x) ==
    /\ gpc[x] = "balances"
    /\ \/ /\ LET es == Recompute(x)
             IN /\ balance' = [i \in Inputs |->
                      IF i \in es THEN Replay(es, seed[x])[i] ELSE balance[i]]
                /\ snaps' = snaps \cup es
                /\ deltas' = deltas \cup es
          /\ UNCHANGED <<failed, gFaults>>
       \/ GoldFault /\ Fails(x, "balance_history") /\ UNCHANGED <<balance, snaps, deltas>>
    /\ touched' = [touched EXCEPT ![x] = @ \cup {"balance_history"}]
    /\ Races(x, "balance")
    /\ GoldGoto(x, "hl")
    /\ UNCHANGED <<silverOf, goldLedger, pnlFrom, tradesFrom, protocol, complete, outcome, gRun,
                   seed, suffix, hlInputs>>

-----------------------------------------------------------------------------
(* Hyperliquid analytics *)

\* hl_wallet_inputs: all fills and funding payments indexed for the wallet.
HlWalletInputs(x) == silverOf \cap FillInputs

\* A failed read ends the Gold phase before the completeness rows.
ReadHlInputs(x) ==
    /\ gpc[x] = "hl"
    /\ \/ In(x) \cap FillInputs = {} /\ GoldGoto(x, "protocol") /\ UNCHANGED <<hlInputs, failed, gFaults>>
       \/ /\ In(x) \cap FillInputs # {}
          /\ hlInputs' = [hlInputs EXCEPT ![x] = HlWalletInputs(x)]
          /\ GoldGoto(x, IF HlWalletInputs(x) = {} THEN "protocol" ELSE "pnl")
          /\ UNCHANGED <<failed, gFaults>>
       \/ In(x) \cap FillInputs # {} /\ GoldFault /\ Fails(x, "hl") /\ GoldGoto(x, "report") /\ UNCHANGED hlInputs
    /\ UNCHANGED <<goldTables, outcome, gRun, raced, seed, suffix, touched>>

\* replace_hl_pnl_summary, then replace_hl_trade_history: all rows of the wallet.
ReplacePnl(x) ==
    /\ gpc[x] = "pnl"
    /\ \/ pnlFrom' = hlInputs[x] /\ UNCHANGED <<failed, gFaults>>
       \/ GoldFault /\ Fails(x, "hl") /\ UNCHANGED pnlFrom
    /\ Races(x, "hl")
    /\ GoldGoto(x, "trades")
    /\ UNCHANGED <<silverOf, goldLedger, balance, snaps, deltas, tradesFrom, protocol, complete, outcome,
                   gRun, seed, suffix, hlInputs, touched>>

ReplaceTrades(x) ==
    /\ gpc[x] = "trades"
    /\ \/ tradesFrom' = hlInputs[x] /\ UNCHANGED <<failed, gFaults>>
       \/ GoldFault /\ Fails(x, "hl") /\ UNCHANGED tradesFrom
    /\ Races(x, "hl")
    /\ GoldGoto(x, "protocol")
    /\ UNCHANGED <<silverOf, goldLedger, balance, snaps, deltas, pnlFrom, protocol, complete, outcome,
                   gRun, seed, suffix, hlInputs, touched>>

\* save_protocol_events and save_pool_snapshots, keyed by the decoded events.
SaveProtocol(x) ==
    /\ gpc[x] = "protocol"
    /\ \/ protocol' = protocol \cup In(x) /\ UNCHANGED <<failed, gFaults>>
       \/ GoldFault /\ Fails(x, "protocol") /\ UNCHANGED protocol
    /\ GoldGoto(x, "status")
    /\ UNCHANGED <<silverOf, goldLedger, balance, snaps, deltas, pnlFrom, tradesFrom, complete, outcome,
                   gRun, raced, seed, suffix, hlInputs, touched>>

-----------------------------------------------------------------------------
(* Completeness *)

\* gold_wallet_dataset_status
DatasetStatus(x, d) == IF d \in failed[x] THEN "partial" ELSE "complete"

Coverage(x, d) ==
    [status |-> DatasetStatus(x, d),
     from |-> Min({TimeOf[i] : i \in In(x)}), to |-> Max({TimeOf[i] : i \in In(x)})]

\* build_dataset_completeness_upsert: the coverage grows to span both, and a
\* partial row becomes complete only by a run that covers all of it.
MergeCompleteness(old, new) ==
    IF old.status = "none" THEN new
    ELSE [status |-> IF /\ old.status # "complete" /\ new.status = "complete"
                        /\ new.from > old.from \/ new.to < old.to
                     THEN old.status ELSE new.status,
          from |-> Min({old.from, new.from}), to |-> Max({old.to, new.to})]

\* update_gold_completeness: one upsert per dataset touched; the ones that fail
\* are only logged.
UpdateCompleteness(x) ==
    /\ gpc[x] = "status"
    /\ \E ds \in SUBSET touched[x] :
        /\ complete' = [d \in Datasets |->
             IF d \in ds THEN MergeCompleteness(complete[d], Coverage(x, d)) ELSE complete[d]]
        /\ IF ds = touched[x] THEN UNCHANGED gFaults ELSE GoldFault
    /\ GoldGoto(x, "report")
    /\ UNCHANGED <<silverOf, goldLedger, balance, snaps, deltas, pnlFrom, tradesFrom, protocol, outcome,
                   gRun, raced, goldLocals>>

\* The Silver tables are recorded as partial, best effort, and the task returns.
FinishGold(x) ==
    /\ gpc[x] = "report"
    /\ LET new == [Coverage(x, "silver") EXCEPT !.status = "partial"]
       IN \/ complete' = [complete EXCEPT !["silver"] = MergeCompleteness(@, new)] /\ UNCHANGED gFaults
          \/ GoldFault /\ UNCHANGED complete
    /\ Report(x, IF failed[x] = {} THEN "done" ELSE "failed")
    /\ UNCHANGED <<silverOf, goldLedger, balance, snaps, deltas, pnlFrom, tradesFrom, protocol, raced>>

\* The process of the task exits, or its lease is lost and it is told to stop.
CrashGold(x) ==
    /\ gpc[x] # "idle"
    /\ GoldFault
    /\ GoldGoto(x, "idle")
    /\ ClearLocals(x)
    /\ UNCHANGED <<goldTables, outcome, raced>>

Materialize(x) ==
    \/ SaveSilver(x) \/ ResolveCanonical(x) \/ WriteLedger(x)
    \/ ReadSeed(x) \/ ReadSuffix(x) \/ ReadDeltas(x) \/ WriteBalances(x)
    \/ ReadHlInputs(x) \/ ReplacePnl(x) \/ ReplaceTrades(x) \/ SaveProtocol(x)
    \/ UpdateCompleteness(x) \/ FinishGold(x)

GoldNext ==
    \E x \in GoldTasks : (\E r \in GoldRuns : StartGold(x, r)) \/ Materialize(x) \/ CrashGold(x)

GoldSpec == GoldInit /\ [][GoldNext]_goldVars

-----------------------------------------------------------------------------
(* Properties *)

\* Types of the tables and of the tasks.
GoldTypeOK ==
    /\ silverOf \subseteq Inputs /\ snaps \subseteq Inputs /\ deltas \subseteq snaps
    /\ goldLedger \in [Inputs -> {"none", "old", "new"}]
    /\ balance \in [Inputs -> Int]
    /\ pnlFrom \subseteq Inputs /\ tradesFrom \subseteq Inputs /\ protocol \subseteq Inputs
    /\ complete \in [Datasets -> [status : {"none", "partial", "complete"}, from : Nat, to : Nat]]
    /\ outcome \in [GoldRuns -> {"none", "done", "failed"}]
    /\ gpc \in [GoldTasks -> {"idle", "silver", "canonical", "ledger", "seed", "suffix", "deltas",
                              "balances", "hl", "pnl", "trades", "protocol", "status", "report"}]
    /\ gRun \in [GoldTasks -> GoldRuns \cup {NoRun}]
    /\ seed \in [GoldTasks -> Int]
    /\ suffix \in [GoldTasks -> SUBSET Inputs]
    /\ hlInputs \in [GoldTasks -> SUBSET Inputs]
    /\ touched \in [GoldTasks -> SUBSET GoldDatasets]
    /\ failed \in [GoldTasks -> SUBSET (GoldDatasets \cup {"silver", "hl", "protocol"})]
    /\ gFaults \in 0..MaxGoldFaults

\* "split ingestion runs ... still seed from, and apply after, already-materialized
\* ... rows": whatever the order in which runs are materialized, retried or fail,
\* each balance is the one before it plus its own delta.
BalancesAddUp ==
    \A i \in deltas : balance[i] = DeltaOf[i] + BalanceBefore(i)

\* The same of every history in which no task wrote balances while another stood
\* between its read of the rows and its write.
BalancesAddUpUnraced == "balance" \notin raced => BalancesAddUp

\* "Replace this wallet's input slice atomically, also repairing prior parser
\* output": a run reported done has no row of the earlier parser left and every
\* row of its own, overlapping tasks notwithstanding.  (A batch without ledger
\* records counts its failed DELETE as zero failures, so it is left out.)
DoneIsRepaired ==
    \A r \in GoldRuns : outcome[r] = "done" /\ RunInputs[r] \cap InLedger # {} =>
        \A i \in RunInputs[r] : goldLedger[i] = IF i \in InLedger THEN "new" ELSE "none"

\* "Rebuild analytics from all indexed Silver inputs, never a single batch": the
\* fills and funding of every run reported done are in both analytics tables,
\* unless two tasks rebuilt them at once.
AnalyticsCoverDone ==
    "hl" \notin raced =>
        \A r \in GoldRuns : outcome[r] = "done" => RunInputs[r] \cap FillInputs \subseteq pnlFrom \cap tradesFrom

\* Without a failed statement every run without a malformed payload succeeds,
\* unless it precedes rows of the earlier release that it does not replace.
SucceedsUnlessFaulted ==
    \A r \in GoldRuns :
        gFaults = 0 /\ RunInputs[r] \cap Rejected = {} /\ Legacy \subseteq RunInputs[r]
            => outcome[r] # "failed"

\* What the report of a run means: a run reported done is repaired and in the
\* analytics, a failed one met a failed statement, a malformed payload or rows it
\* could not follow, and every dataset and task is in a state the code knows.
\* dual_write.rs, materialize_gold and its callers.
GoldConsistent ==
    GoldTypeOK /\ DoneIsRepaired /\ AnalyticsCoverDone /\ SucceedsUnlessFaulted

-----------------------------------------------------------------------------
(* The inductive invariant: what is true of the tables at each statement of a task *)

\* A task at work has a run.
TasksOK ==
    \A x \in GoldTasks : gpc[x] # "idle" => gRun[x] \in GoldRuns

\* Past its Silver statement a task that did not fail there has stored its rows.
SilverOK ==
    /\ \A x \in GoldTasks :
          gpc[x] \notin {"idle", "silver"} /\ "silver" \notin failed[x] => In(x) \subseteq silverOf
    /\ \A r \in GoldRuns : outcome[r] = "done" => RunInputs[r] \subseteq silverOf

\* The rows of the inputs are those of this release's parser.
Repaired(inputs) == \A i \in inputs : goldLedger[i] = IF i \in InLedger THEN "new" ELSE "none"

\* Past its ledger statement a task that did not fail there has repaired its slice,
\* and no other task undoes that.
LedgerOK ==
    \A x \in GoldTasks :
        /\ gpc[x] \notin {"idle", "silver", "canonical", "ledger"}
        /\ "wallet_ledger" \notin failed[x] /\ LedgerBatch(x) # {}
        => Repaired(In(x))

\* As long as nobody wrote balances inside another's section, a task in its section
\* has the balance before its first event and the snapshots after it as they are.
BalanceReadsOK ==
    \A x \in GoldTasks :
        /\ gpc[x] \in Section("balance") => seed[x] = BalanceBefore(First(x))
        /\ gpc[x] \in {"deltas", "balances"} => suffix[x] = {i \in snaps : i >= First(x)}

\* A run whose fills are in both analytics tables: done, or past those statements.
Settled(r) ==
    \/ outcome[r] = "done"
    \/ \E x \in GoldTasks :
          /\ gRun[x] = r /\ gpc[x] \in {"protocol", "status", "report"}
          /\ "hl" \notin failed[x] /\ "silver" \notin failed[x]

Fills(r) == RunInputs[r] \cap FillInputs

\* As long as nobody rebuilt the analytics inside another's section, a task in its
\* section has read every settled fill and its own, and what it wrote is there.
AnalyticsOK ==
    /\ \A r \in GoldRuns : Settled(r) => Fills(r) \subseteq pnlFrom \cap tradesFrom
    /\ \A x \in GoldTasks :
          gpc[x] \in Section("hl") =>
              /\ \A r \in GoldRuns : Settled(r) => Fills(r) \subseteq hlInputs[x]
              /\ "silver" \notin failed[x] => In(x) \cap FillInputs \subseteq hlInputs[x]
              /\ gpc[x] = "trades" /\ "hl" \notin failed[x] => pnlFrom = hlInputs[x]

\* Only rows of the earlier release are stored without their delta; without a failed
\* statement a task fails only over those.
FailuresOK ==
    /\ snaps \subseteq Legacy \cup deltas
    /\ \A x \in GoldTasks : suffix[x] \subseteq snaps
    /\ gFaults = 0 =>
          \A x \in GoldTasks :
              /\ failed[x] \subseteq {"balance_history"}
              /\ gpc[x] # "idle" /\ Legacy \subseteq In(x) => failed[x] = {}
              /\ gpc[x] = "idle" => failed[x] = {}

GoldInv ==
    /\ GoldTypeOK /\ TasksOK /\ SilverOK /\ LedgerOK /\ DoneIsRepaired
    /\ "balance" \notin raced => BalancesAddUp /\ BalanceReadsOK
    /\ "hl" \notin raced => AnalyticsOK
    /\ FailuresOK /\ SucceedsUnlessFaulted
=============================================================================
