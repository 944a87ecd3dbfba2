------------------------- MODULE MaterializationRuns -------------------------
(***************************************************************************)
(* Materialization runs and the workers that execute them: the             *)
(* materialization_runs and dataset_watermarks statements of v2_repo.rs    *)
(* and api/src/materialize_worker.rs.  A worker's loop claims runs and     *)
(* spawns one task for each, as many at a time as it has permits; every    *)
(* task writes under the worker's id, so tasks of one worker are alike to  *)
(* the database.  A step is one statement or one look at lease_lost.       *)
(*                                                                         *)
(* All runs concern one wallet, hence one watermark.  An ingestion run is  *)
(* known by its rank in started_at order, counted from 1.  lease is        *)
(* history: no guard reads it.  Dataset completeness rows are left out.    *)
(***************************************************************************)
EXTENDS Integers, FiniteSets

CONSTANTS
    Workers,    \* materialize workers, one per process start
    NoWorker,   \* worker_id IS NULL
    Runs,       \* materialization_runs rows that may be created
    IngestionRun,  \* the ingestion run named by each run's scope
    BadScope,   \* the runs whose scope does not parse
    EmptyRuns,  \* the runs whose ingestion run has no raw transactions
    Permits,    \* permits of job_semaphore left to materializations
    MaxFaults   \* bound: failed calls and leases that expire under a live task

ASSUME ConstantsAssumption ==
    /\ Workers # {} /\ NoWorker \notin Workers
    /\ IngestionRun \in [Runs -> Nat \ {0}]
    /\ BadScope \subseteq Runs /\ EmptyRuns \subseteq Runs
    /\ Permits \in Nat \ {0}
    /\ MaxFaults \in Nat

VARIABLES
    status,     \* materialization_runs.status ("absent": no row)
    owner,      \* materialization_runs.worker_id
    fresh,      \* the runs whose heartbeat_at is under five minutes old
    lease,      \* history: how often each run was claimed
    written,    \* the ingestion runs whose Silver and Gold rows are all stored
    watermark,  \* dataset_watermarks.last_ingestion_run_id (0: no row)
    loop,       \* each worker's loop: "running", "stopped" or "exited"
    tasks,      \* the spawned tasks
    callbacks,  \* callbacks fired
    faults      \* faults so far

rowVars == <<status, owner, fresh, lease>>
vars == <<rowVars, written, watermark, loop, tasks, callbacks, faults>>

Terminal == {"completed", "failed"}

\* execute_normalize (resolve, check, write), the look at lease_lost after it
\* (settle), the terminal update and what follows it.  "reject" is the loop
\* itself failing a run whose scope does not parse.
Locations == {"reject", "resolve", "check", "write", "settle_ok", "settle_err",
              "complete", "fail", "watermark", "notify_ok", "notify_err"}

Tasks == [run : Runs, num : Nat, worker : Workers, pc : Locations, lost : BOOLEAN]

Init ==
    /\ status = [r \in Runs |-> "absent"]
    /\ owner = [r \in Runs |-> NoWorker]
    /\ fresh = {}
    /\ lease = [r \in Runs |-> 0]
    /\ written = {}
    /\ watermark = 0
    /\ loop = [w \in Workers |-> "running"]
    /\ tasks = {}
    /\ callbacks = {}
    /\ faults = 0

Fault   == faults < MaxFaults /\ faults' = faults + 1
NoFault == UNCHANGED faults

Goto(t, l) == tasks' = (tasks \ {t}) \cup {[t EXCEPT !.pc = l]}
End(t)     == tasks' = tasks \ {t}

-----------------------------------------------------------------------------
(* The queue *)

Create(r) ==
    /\ status[r] = "absent"
    /\ status' = [status EXCEPT ![r] = "pending"]
    /\ UNCHANGED <<owner, fresh, lease, written, watermark, loop, tasks, callbacks, faults>>

\* Mutant: a run whose task died is never taken up again.
ClaimableIfPending(r) == status[r] = "pending"

\* Mutant: a run is claimable whatever its status, once its heartbeat is old.
ClaimableIfStale(r) == status[r] # "absent" /\ r \notin fresh

Claimable(r) ==
    status[r] = "pending" \/ (status[r] = "running" /\ r \notin fresh)

\* The loop is busy with one run at a time, and needs a permit first.
HasPermit(w) ==
    /\ loop[w] = "running"
    /\ \A t \in tasks : t.worker = w => t.pc # "reject"
    /\ Cardinality({t \in tasks : t.worker = w}) < Permits

\* claim_materialization_run and the spawn.  A claim reported as failed, or
\* the loop dropped by shutdown at that await, leaves a claim without a task.
Claim(w, r) ==
    /\ HasPermit(w)
    /\ Claimable(r)
    /\ status' = [status EXCEPT ![r] = "running"]
    /\ owner' = [owner EXCEPT ![r] = w]
    /\ fresh' = fresh \cup {r}
    /\ lease' = [lease EXCEPT ![r] = @ + 1]
    /\ \/ /\ tasks' = tasks \cup
               {[run |-> r, num |-> lease[r] + 1, worker |-> w, lost |-> FALSE,
                 pc |-> IF r \in BadScope THEN "reject" ELSE "resolve"]}
          /\ NoFault /\ UNCHANGED loop
       \/ Fault /\ UNCHANGED <<tasks, loop>>
       \/ loop' = [loop EXCEPT ![w] = "stopped"] /\ NoFault /\ UNCHANGED tasks
    /\ UNCHANGED <<written, watermark, callbacks>>

\* The guard of the heartbeat and of both terminal updates.
Owns(t) == owner[t.run] = t.worker /\ status[t.run] = "running"

\* The heartbeat task runs until it is refused or the terminal write is done.
Beating(t) == ~ t.lost /\ t.pc \notin {"reject", "notify_ok", "notify_err"}

Heartbeat(t) ==
    /\ Beating(t)
    /\ \/ Owns(t) /\ fresh' = fresh \cup {t.run} /\ UNCHANGED tasks
       \/ /\ ~ Owns(t)
          /\ tasks' = (tasks \ {t}) \cup {[t EXCEPT !.lost = TRUE]}
          /\ UNCHANGED fresh
    /\ UNCHANGED <<status, owner, lease, written, watermark, loop, callbacks, faults>>

\* A heartbeat refreshes whatever run bears this worker's id, under any claim;
\* a rejection is one call, over long before the five minutes.
Attended(r) ==
    \E t \in tasks : t.run = r /\ t.worker = owner[r] /\ (Beating(t) \/ t.pc = "reject")

\* heartbeat_at passes the threshold: of an attended run, by a fault.
Expire(r) ==
    /\ r \in fresh /\ status[r] = "running"
    /\ fresh' = fresh \ {r}
    /\ IF Attended(r) THEN Fault ELSE NoFault
    /\ UNCHANGED <<status, owner, lease, written, watermark, loop, tasks, callbacks>>

-----------------------------------------------------------------------------
(* A task *)

\* Resolving the ingestion run and its target; no raw rows is a success.
ResolveInput(t) ==
    /\ t.pc = "resolve"
    /\ Goto(t, IF t.run \in EmptyRuns THEN "settle_ok" ELSE "check") \/ Goto(t, "settle_err")
    /\ UNCHANGED <<rowVars, written, watermark, loop, callbacks, faults>>

\* The look at lease_lost before the writes and the one after them; a lost
\* lease ends the task.
CheckLease(t) ==
    /\ \/ t.pc = "check" /\ ~ t.lost /\ Goto(t, "write")
       \/ t.pc = "settle_ok" /\ ~ t.lost /\ Goto(t, "complete")
       \/ t.pc = "settle_err" /\ ~ t.lost /\ Goto(t, "fail")
       \/ t.pc \in {"check", "settle_ok", "settle_err"} /\ t.lost /\ End(t)
    /\ UNCHANGED <<rowVars, written, watermark, loop, callbacks, faults>>

\* Mutant: records that could not be written do not fail the run.
WriteBestEffort(t) ==
    /\ t.pc = "write"
    /\ written' = written \cup {IngestionRun[t.run]} \/ UNCHANGED written
    /\ Goto(t, "settle_ok")
    /\ UNCHANGED <<rowVars, watermark, loop, callbacks, faults>>

\* materialize_silver_from_bronze: idempotent upserts, in many statements.
\* One of them failing fails the run.
Write(t) ==
    /\ t.pc = "write"
    /\ \/ written' = written \cup {IngestionRun[t.run]} /\ Goto(t, "settle_ok")
       \/ Goto(t, "settle_err") /\ UNCHANGED written
    /\ UNCHANGED <<rowVars, watermark, loop, callbacks, faults>>

\* Mutant: an update of zero rows counts as one.
FinishUnchecked(t, s, next) ==
    /\ status' = [status EXCEPT ![t.run] = IF Owns(t) THEN s ELSE @]
    /\ Goto(t, next)
    /\ NoFault
    /\ UNCHANGED <<owner, fresh, lease, written, watermark, loop, callbacks>>

\* A terminal update; refused or reported as failed, there is no callback.
Finish(t, s, next) ==
    /\ \/ /\ Owns(t) /\ NoFault
          /\ status' = [status EXCEPT ![t.run] = s]
          /\ Goto(t, next)
       \/ ~ Owns(t) /\ NoFault /\ End(t) /\ UNCHANGED status
       \/ /\ Owns(t) /\ Fault /\ End(t)
          /\ \/ /\ status' = [status EXCEPT ![t.run] = s]
                   \/ UNCHANGED status
    /\ UNCHANGED <<owner, fresh, lease, written, watermark, loop, callbacks>>

Complete(t) == t.pc = "complete" /\ Finish(t, "completed", "watermark")

Fail(t) == t.pc = "fail" /\ Finish(t, "failed", "notify_err")

\* The loop fails a run it cannot parse: no task, no callback.
Reject(t) ==
    /\ t.pc = "reject"
    /\ \/ /\ Owns(t)
          /\ status' = [status EXCEPT ![t.run] = "failed"]
          /\ NoFault
       \/ ~ Owns(t) /\ UNCHANGED status /\ NoFault
       \/ Fault /\ UNCHANGED status
    /\ End(t)
    /\ UNCHANGED <<owner, fresh, lease, written, watermark, loop, callbacks>>

\* upsert_dataset_watermark: only a run that started later replaces the run
\* recorded.
NewWatermark(n) == IF n > watermark THEN n ELSE watermark

\* After a completed run; skipped when the scope cannot be resolved, and an
\* error is not fatal.
Watermark(t) ==
    /\ t.pc = "watermark"
    /\ watermark' = NewWatermark(IngestionRun[t.run]) \/ UNCHANGED watermark
    /\ Goto(t, "notify_ok")
    /\ UNCHANGED <<rowVars, written, loop, callbacks, faults>>

\* fire_callback, if the scope has a callback_url; the task ends.
Notify(t) ==
    /\ t.pc \in {"notify_ok", "notify_err"}
    /\ \/ callbacks' = callbacks \cup
            {[run |-> t.run, num |-> t.num,
              status |-> IF t.pc = "notify_ok" THEN "completed" ELSE "failed"]}
       \/ UNCHANGED callbacks
    /\ End(t)
    /\ UNCHANGED <<rowVars, written, watermark, loop, faults>>

TaskStep(t) ==
    \/ ResolveInput(t) \/ CheckLease(t) \/ Write(t) \/ Complete(t) \/ Fail(t)
    \/ Reject(t) \/ Watermark(t) \/ Notify(t)

-----------------------------------------------------------------------------
(* Process exit *)

\* The token ends the loop; spawned tasks go on until the process exits.
Shutdown(w) ==
    /\ loop[w] = "running"
    /\ loop' = [loop EXCEPT ![w] = "stopped"]
    /\ tasks' = {t \in tasks : t.worker = w => t.pc # "reject"}
    /\ UNCHANGED <<rowVars, written, watermark, callbacks, faults>>

Exit(w) ==
    /\ loop[w] = "stopped"
    /\ loop' = [loop EXCEPT ![w] = "exited"]
    /\ tasks' = {t \in tasks : t.worker # w}
    /\ UNCHANGED <<rowVars, written, watermark, callbacks, faults>>

-----------------------------------------------------------------------------

Next ==
    \/ \E r \in Runs : Create(r) \/ Expire(r)
    \/ \E w \in Workers, r \in Runs : Claim(w, r)
    \/ \E t \in tasks : Heartbeat(t) \/ TaskStep(t)
    \/ \E w \in Workers : Shutdown(w) \/ Exit(w)

Spec == Init /\ [][Next]_vars

\* A running loop polls again, every call of a task returns, a stopped process
\* exits, and the lease of a run nobody heartbeats for runs out.
Fairness ==
    /\ \A w \in Workers :
        /\ WF_vars(\E r \in Runs : Claim(w, r))
        /\ WF_vars(Exit(w))
        /\ \A r \in Runs : WF_vars(\E t \in tasks : t.worker = w /\ t.run = r /\ TaskStep(t))
    /\ \A r \in Runs : WF_vars(~ Attended(r) /\ Expire(r))

FairSpec == Spec /\ Fairness

-----------------------------------------------------------------------------
(* Properties *)

TypeOK ==
    /\ status \in [Runs -> {"absent", "pending", "running"} \cup Terminal]
    /\ owner \in [Runs -> Workers \cup {NoWorker}]
    /\ fresh \subseteq Runs
    /\ lease \in [Runs -> Nat]
    /\ written \subseteq Nat
    /\ watermark \in Nat
    /\ loop \in [Workers -> {"running", "stopped", "exited"}]
    /\ tasks \subseteq Tasks
    /\ callbacks \subseteq [run : Runs, num : Nat, status : Terminal]
    /\ faults \in 0..MaxFaults

\* "Fire durable callback only if the terminal DB update succeeded": the
\* callback of a run agrees with the status of its row then and ever after,
\* and no run has two, though several tasks may execute it at once.
CallbackMatchesRow ==
    /\ \A c \in callbacks : status[c.run] = c.status
    /\ \A c, d \in callbacks : c.run = d.run => c = d

\* A run marked completed has all its rows stored, whichever of the tasks that
\* executed it wrote the status (execute_normalize, complete_materialization_run).
CompletedIsWritten ==
    \A r \in Runs : status[r] = "completed" =>
        r \in EmptyRuns \/ IngestionRun[r] \in written

\* The watermark names an ingestion run that was materialized.
WatermarkIsCompleted ==
    watermark # 0 =>
        \E r \in Runs : IngestionRun[r] = watermark /\ status[r] = "completed"

\* "This prevents out-of-order completions from regressing the watermark to an
\* older Bronze position" (upsert_dataset_watermark).
WatermarkAdvances == [][watermark <= watermark']_watermark

\* Every created run ends, while some worker's loop is left.
CreatedRunFinishes ==
    \A r \in Runs : (status[r] = "pending") ~>
        (status[r] \in Terminal \/ \A w \in Workers : loop[w] # "running")

-----------------------------------------------------------------------------
(* The inductive invariant behind the safety properties *)

Closed(t) == t.pc \in {"watermark", "notify_ok", "notify_err"}

\* A task that reports success has stored its rows; past its terminal update
\* the row bears the status it wrote.
TaskPath ==
    \A t \in tasks :
        /\ t.pc \in {"settle_ok", "complete", "watermark", "notify_ok"} =>
            t.run \in EmptyRuns \/ IngestionRun[t.run] \in written
        /\ t.pc \in {"watermark", "notify_ok"} => status[t.run] = "completed"
        /\ t.pc = "notify_err" => status[t.run] = "failed"

\* One task at most is past the terminal update of a run, and while it is
\* there no callback of the run has been fired.
ClosedOnce ==
    /\ \A t, u \in tasks : Closed(t) /\ Closed(u) /\ t.run = u.run => t = u
    /\ \A t \in tasks, c \in callbacks : Closed(t) => t.run # c.run

\* Inductive: it implies the safety invariants and every step keeps it.
MInv ==
    /\ TypeOK
    /\ TaskPath
    /\ ClosedOnce
    /\ CallbackMatchesRow
    /\ CompletedIsWritten
    /\ WatermarkIsCompleted
=============================================================================
