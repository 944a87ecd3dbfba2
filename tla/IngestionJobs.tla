---------------------------- MODULE IngestionJobs ----------------------------
(***************************************************************************)
(* The durable ingestion queue and the workers that drain it:              *)
(* the ingestion_jobs / ingestion_job_attempts statements of v2_repo.rs,   *)
(* the lease-fenced commit of workbench_repo.rs and execute_job of         *)
(* api/src/worker.rs.  Each SQL statement (or transaction) is one step;    *)
(* between two of them other workers, heartbeats, lease expiry and process *)
(* exits interleave.  A call that returns an error may have taken effect   *)
(* or not: the two outcomes are both modelled, and MaxFaults bounds them.  *)
(*                                                                         *)
(* A worker is one process's ingestion worker: the id is a fresh UUID per  *)
(* start, so a process that exits never comes back under the same id.      *)
(***************************************************************************)
EXTENDS Integers, FiniteSets

CONSTANTS
    Workers,    \* worker ids
    Jobs,       \* ingestion_jobs rows that may be enqueued
    Targets,    \* index targets
    Wallets,    \* the targets of kind Wallet, whose batches are materialized
    JobTarget,  \* the target of each job
    MaxCursor,  \* bound: chain activity a provider can report
    MaxFaults   \* bound: failed calls and leases that expire under a live worker

ASSUME ConstantsAssumption ==
    /\ Workers # {} /\ Jobs # {}
    /\ Wallets \subseteq Targets
    /\ JobTarget \in [Jobs -> Targets]
    /\ MaxCursor \in Nat /\ MaxFaults \in Nat

VARIABLES
    status,     \* ingestion_jobs.status ("absent": no row)
    lastNum,    \* MAX(attempt_num) of each job
    open,       \* the attempts with finished_at IS NULL
    fresh,      \* the open attempts whose heartbeat is under five minutes old
    runs,       \* ingestion_runs: the run an attempt opened, and its status
    commits,    \* the batches made durable: attempt, cursor before and after
    queued,     \* the attempts whose run has a queued materialization run
    checkpoint, \* the cursor of each target
    pc,         \* where each worker is in worker_tick / execute_job
    att,        \* the attempt it executes
    heartbeat,  \* whether its heartbeat task runs
    leaseLost,  \* its lease_lost token
    cursor,     \* the checkpoint it read
    batch,      \* the cursor its fetched batch ends at
    callbacks,  \* callbacks sent: <<attempt, outcome>>
    faults      \* faults so far

jobVars    == <<status, lastNum, open, fresh>>
dataVars   == <<runs, commits, queued, checkpoint>>
workerVars == <<pc, att, heartbeat, leaseLost, cursor, batch>>
vars == <<jobVars, dataVars, workerVars, callbacks, faults>>

Attempts == [job : Jobs, num : Nat, worker : Workers]
Active   == {"claimed", "running"}
Terminal == {"completed", "failed"}
Locations == {"idle", "claimed", "start", "load", "fetch", "commit", "ok", "err",
              "complete", "fail", "abort", "complete_close", "fail_close",
              "abort_close", "notify_ok", "notify_err", "leave", "stopped"}

\* The attempt field of a worker that executes nothing (attempts count from 1).
NoAttempt(w) == [job |-> CHOOSE j \in Jobs : TRUE, num |-> 0, worker |-> w]

Init ==
    /\ status = [j \in Jobs |-> "absent"]
    /\ lastNum = [j \in Jobs |-> 0]
    /\ open = {} /\ fresh = {}
    /\ runs = {} /\ commits = {} /\ queued = {}
    /\ checkpoint = [t \in Targets |-> 0]
    /\ pc = [w \in Workers |-> "idle"]
    /\ att = [w \in Workers |-> NoAttempt(w)]
    /\ heartbeat = [w \in Workers |-> FALSE]
    /\ leaseLost = [w \in Workers |-> FALSE]
    /\ cursor = [w \in Workers |-> 0]
    /\ batch = [w \in Workers |-> 0]
    /\ callbacks = {}
    /\ faults = 0

-----------------------------------------------------------------------------
(* Faults and control flow *)

Fault   == faults < MaxFaults /\ faults' = faults + 1
NoFault == UNCHANGED faults

Goto(w, l) == pc' = [pc EXCEPT ![w] = l]

\* execute_job returns: its locals are gone, its heartbeat is cancelled.
Return(w) ==
    /\ pc' = [pc EXCEPT ![w] = "idle"]
    /\ att' = [att EXCEPT ![w] = NoAttempt(w)]
    /\ heartbeat' = [heartbeat EXCEPT ![w] = FALSE]
    /\ leaseLost' = [leaseLost EXCEPT ![w] = FALSE]
    /\ cursor' = [cursor EXCEPT ![w] = 0]
    /\ batch' = [batch EXCEPT ![w] = 0]

KeepLocals == UNCHANGED <<att, heartbeat, leaseLost, cursor, batch>>

\* The EXISTS sub-query of every fenced statement: this worker has an open
\* attempt at the job it executes.
OwnsAttempt(w) == \E a \in open : a.job = att[w].job /\ a.worker = w

\* Mutant: the update checks the status of the job but not whose attempt it is.
FencedByStatus(w) == status[att[w].job] \in Active

\* An update that applies to this worker's job while it is claimed or running.
Fenced(w) == status[att[w].job] \in Active /\ OwnsAttempt(w)

SetStatus(w, s) == status' = [status EXCEPT ![att[w].job] = s]

SetRun(a, s) == {r \in runs : r.att # a} \cup {[att |-> a, status |-> s]}

-----------------------------------------------------------------------------
(* The queue *)

\* A second request with the same idempotency key returns the existing row.
Enqueue(j) ==
    /\ status[j] = "absent"
    /\ status' = [status EXCEPT ![j] = "pending"]
    /\ UNCHANGED <<lastNum, open, fresh, dataVars, workerVars, callbacks, faults>>

\* Mutant: jobs abandoned by their worker are never taken over.
ClaimableIfPending(j) == status[j] = "pending"

\* Mutant: the status filter on abandoned jobs is dropped.
ClaimableIfUnattended(j) == status[j] # "absent" /\ ~ \E a \in fresh : a.job = j

\* Pending, or abandoned: no open attempt with a recent heartbeat.
Claimable(j) ==
    \/ status[j] = "pending"
    \/ status[j] \in Active /\ ~ \E a \in fresh : a.job = j

\* The open attempts a claim closes as 'reclaimed: worker presumed dead'.
Superseded(j) == {a \in open : a.job = j}

\* One transaction.  FOR UPDATE SKIP LOCKED passes over rows that concurrent
\* statements hold, so any claimable row may be the one returned.  The second
\* disjunct is the re-fetch after the commit failing: the claim stands and
\* nobody executes it.
Claim(w, j) ==
    /\ pc[w] = "idle"
    /\ Claimable(j)
    /\ LET a == [job |-> j, num |-> lastNum[j] + 1, worker |-> w] IN
        /\ open' = (open \ Superseded(j)) \cup {a}
        /\ fresh' = (fresh \ Superseded(j)) \cup {a}
        /\ \/ Goto(w, "claimed") /\ att' = [att EXCEPT ![w] = a] /\ NoFault
           \/ Fault /\ UNCHANGED <<pc, att>>
    /\ status' = [status EXCEPT ![j] = "claimed"]
    /\ lastNum' = [lastNum EXCEPT ![j] = @ + 1]
    /\ UNCHANGED <<dataVars, heartbeat, leaseLost, cursor, batch, callbacks>>

\* The attempt is still being worked on, or its heartbeat task still runs.
Attended(a) ==
    /\ att[a.worker] = a
    /\ heartbeat[a.worker] \/ pc[a.worker] \notin {"idle", "stopped"}

\* heartbeat_at passes the five-minute threshold.  Of an attended attempt this
\* takes a pause, or heartbeats that keep failing: a fault.
Expire(a) ==
    /\ a \in fresh
    /\ fresh' = fresh \ {a}
    /\ IF Attended(a) THEN Fault ELSE NoFault
    /\ UNCHANGED <<status, lastNum, open, dataVars, workerVars, callbacks>>

-----------------------------------------------------------------------------
(* The heartbeat task *)

\* Refreshes the open attempts of this worker at the job; finding none, it
\* cancels lease_lost and stops.
Heartbeat(w) ==
    /\ heartbeat[w]
    /\ IF OwnsAttempt(w)
       THEN /\ fresh' = fresh \cup {a \in open : a.job = att[w].job /\ a.worker = w}
            /\ UNCHANGED <<heartbeat, leaseLost>>
       ELSE /\ heartbeat' = [heartbeat EXCEPT ![w] = FALSE]
            /\ leaseLost' = [leaseLost EXCEPT ![w] = TRUE]
            /\ UNCHANGED fresh
    /\ UNCHANGED <<status, lastNum, open, dataVars, pc, att, cursor, batch, callbacks, faults>>

-----------------------------------------------------------------------------
(* execute_job *)

\* claimed -> running, and the heartbeat task starts; a refusal or an error
\* (whether or not the update was applied) goes on to fail the job.
MarkRunning(w) ==
    /\ pc[w] = "claimed"
    /\ \/ /\ status[att[w].job] = "claimed" /\ OwnsAttempt(w)
          /\ SetStatus(w, "running")
          /\ Goto(w, "start")
          /\ heartbeat' = [heartbeat EXCEPT ![w] = TRUE]
          /\ NoFault
       \/ /\ status[att[w].job] = "claimed" /\ OwnsAttempt(w)
          /\ SetStatus(w, "running") \/ UNCHANGED status
          /\ Goto(w, "abort")
          /\ UNCHANGED heartbeat
          /\ Fault
       \/ /\ ~ (status[att[w].job] = "claimed" /\ OwnsAttempt(w))
          /\ Goto(w, "abort")
          /\ UNCHANGED <<status, heartbeat>>
          /\ NoFault
    /\ UNCHANGED <<lastNum, open, fresh, dataVars, att, leaseLost, cursor, batch, callbacks>>

\* create_ingestion_run; on an error the heartbeat is cancelled and the job failed.
CreateRun(w) ==
    /\ pc[w] = "start"
    /\ \/ /\ runs' = SetRun(att[w], "running")
          /\ Goto(w, "load")
          /\ UNCHANGED heartbeat
          /\ NoFault
       \/ /\ runs' = SetRun(att[w], "running") \/ UNCHANGED runs
          /\ Goto(w, "abort")
          /\ heartbeat' = [heartbeat EXCEPT ![w] = FALSE]
          /\ Fault
    /\ UNCHANGED <<jobVars, commits, queued, checkpoint, att, leaseLost, cursor, batch, callbacks>>

\* run_connector_backfill up to get_checkpoint_v2: an unknown target, an
\* unsupported kind, an unconfigured network or a read error is an Err.
LoadCheckpoint(w) ==
    /\ pc[w] = "load"
    /\ \/ Goto(w, "fetch") /\ cursor' = [cursor EXCEPT ![w] = checkpoint[JobTarget[att[w].job]]]
       \/ Goto(w, "err") /\ UNCHANGED cursor
    /\ UNCHANGED <<jobVars, dataVars, att, heartbeat, leaseLost, batch, callbacks, faults>>

\* Connector::backfill: all the activity after the cursor up to some later
\* point, or an error.  Its own rules are SolanaHistory's subject.
Backfill(w) ==
    /\ pc[w] = "fetch"
    /\ \/ \E to \in cursor[w]..MaxCursor :
            Goto(w, "commit") /\ batch' = [batch EXCEPT ![w] = to]
       \/ Goto(w, "err") /\ UNCHANGED batch
    /\ UNCHANGED <<jobVars, dataVars, att, heartbeat, leaseLost, cursor, callbacks, faults>>

Batch(w) == [att |-> att[w], from |-> cursor[w], to |-> batch[w]]

\* What commit_connector_batch makes durable: raw rows with their run links,
\* the checkpoint, a materialization run for a wallet's non-empty batch, and
\* the run's completion.  An empty batch may come without a checkpoint.
CommitTx(w) ==
    LET t == JobTarget[att[w].job] IN
    /\ commits' = commits \cup {Batch(w)}
    /\ \/ checkpoint' = [checkpoint EXCEPT ![t] = batch[w]]
       \/ batch[w] = cursor[w] /\ UNCHANGED checkpoint
    /\ queued' = IF t \in Wallets /\ batch[w] > cursor[w] THEN queued \cup {att[w]} ELSE queued
    /\ runs' = SetRun(att[w], "completed")

\* Mutant: the lease is checked only once the checkpoint has been saved.
CommitCheckpointFirst(w) ==
    /\ pc[w] = "commit"
    /\ \/ Fenced(w) /\ CommitTx(w) /\ Goto(w, "ok") /\ NoFault
       \/ /\ ~ Fenced(w)
          /\ checkpoint' = [checkpoint EXCEPT ![JobTarget[att[w].job]] = batch[w]]
          /\ Goto(w, "err") /\ NoFault
          /\ UNCHANGED <<runs, commits, queued>>
    /\ KeepLocals
    /\ UNCHANGED <<jobVars, callbacks>>

\* Mutant: a commit refused for want of a lease is taken for a success.
CommitRefusalIgnored(w) ==
    /\ pc[w] = "commit"
    /\ \/ Fenced(w) /\ CommitTx(w)
       \/ ~ Fenced(w) /\ UNCHANGED dataVars
    /\ Goto(w, "ok") /\ NoFault
    /\ KeepLocals
    /\ UNCHANGED <<jobVars, callbacks>>

\* The transaction first locks the job row while its lease is this worker's.
CommitBatch(w) ==
    /\ pc[w] = "commit"
    /\ \/ Fenced(w) /\ CommitTx(w) /\ Goto(w, "ok") /\ NoFault
       \/ ~ Fenced(w) /\ Goto(w, "err") /\ NoFault /\ UNCHANGED dataVars
       \/ Fenced(w) /\ (CommitTx(w) \/ UNCHANGED dataVars) /\ Goto(w, "err") /\ Fault
    /\ KeepLocals
    /\ UNCHANGED <<jobVars, callbacks>>

\* After run_ingestion: the heartbeat is cancelled and lease_lost decides.
\* A lost lease marks the run failed and returns; otherwise the run takes the
\* result's status.  The run update is best effort.
RecordRun(w) ==
    /\ pc[w] \in {"ok", "err"}
    /\ IF leaseLost[w]
       THEN /\ \/ runs' = SetRun(att[w], "failed") /\ NoFault
               \/ Fault /\ UNCHANGED runs
            /\ Return(w)
       ELSE /\ \/ /\ runs' = SetRun(att[w], IF pc[w] = "ok" THEN "completed" ELSE "failed")
                  /\ NoFault
               \/ Fault /\ UNCHANGED runs
            /\ Goto(w, IF pc[w] = "ok" THEN "complete" ELSE "fail")
            /\ heartbeat' = [heartbeat EXCEPT ![w] = FALSE]
            /\ UNCHANGED <<att, leaseLost, cursor, batch>>
    /\ UNCHANGED <<jobVars, commits, queued, checkpoint, callbacks>>

\* The first statement of complete_ingestion_job / fail_ingestion_job.
\* Accepted, it is followed by closing the attempt; refused or failed, the
\* caller moves on.
Finish(w, s, accepted, refused) ==
    /\ \/ Fenced(w) /\ SetStatus(w, s) /\ Goto(w, accepted) /\ NoFault
       \/ ~ Fenced(w) /\ Goto(w, refused) /\ NoFault /\ UNCHANGED status
       \/ /\ Fenced(w) /\ (SetStatus(w, s) \/ UNCHANGED status)
          /\ Goto(w, refused) /\ Fault
    /\ KeepLocals
    /\ UNCHANGED <<lastNum, open, fresh, dataVars, callbacks>>

CompleteJob(w) ==
    /\ pc[w] = "complete"
    /\ Finish(w, "completed", "complete_close", "notify_ok")

FailJob(w) ==
    /\ pc[w] = "fail"
    /\ Finish(w, "failed", "fail_close", "notify_err")

\* The early returns of execute_job: fail the job, no callback.
AbortJob(w) ==
    /\ pc[w] = "abort"
    /\ Finish(w, "failed", "abort_close", "leave")

\* The second statement: close this worker's attempt at the job.
CloseAttempt(w) ==
    /\ pc[w] \in {"complete_close", "fail_close", "abort_close"}
    /\ LET mine == {a \in open : a.job = att[w].job /\ a.worker = w} IN
        \/ open' = open \ mine /\ fresh' = fresh \ mine /\ NoFault
        \/ Fault /\ UNCHANGED <<open, fresh>>
    /\ Goto(w, CASE pc[w] = "complete_close" -> "notify_ok"
                 [] pc[w] = "fail_close" -> "notify_err"
                 [] pc[w] = "abort_close" -> "leave")
    /\ KeepLocals
    /\ UNCHANGED <<status, lastNum, dataVars, callbacks>>

\* fire_callback_best_effort, sent whether or not the job row was updated; not
\* sent for a job without callback_url, and perhaps never delivered.
Notify(w) ==
    /\ pc[w] \in {"notify_ok", "notify_err"}
    /\ \/ callbacks' = callbacks \cup
            {<<att[w], IF pc[w] = "notify_ok" THEN "completed" ELSE "failed">>}
       \/ UNCHANGED callbacks
    /\ Return(w)
    /\ UNCHANGED <<jobVars, dataVars, faults>>

Leave(w) ==
    /\ pc[w] = "leave"
    /\ Return(w)
    /\ UNCHANGED <<jobVars, dataVars, callbacks, faults>>

-----------------------------------------------------------------------------
(* Process exit *)

\* The cancellation token drops worker_tick at whichever await it is in.  The
\* spawned heartbeat task lives on until the process exits.
Shutdown(w) ==
    /\ pc[w] # "stopped"
    /\ Goto(w, "stopped")
    /\ KeepLocals
    /\ UNCHANGED <<jobVars, dataVars, callbacks, faults>>

Exit(w) ==
    /\ pc[w] = "stopped" /\ heartbeat[w]
    /\ heartbeat' = [heartbeat EXCEPT ![w] = FALSE]
    /\ UNCHANGED <<jobVars, dataVars, pc, att, leaseLost, cursor, batch, callbacks, faults>>

-----------------------------------------------------------------------------

ExecuteJob(w) ==
    \/ MarkRunning(w) \/ CreateRun(w) \/ LoadCheckpoint(w) \/ Backfill(w)
    \/ CommitBatch(w) \/ RecordRun(w) \/ CompleteJob(w) \/ FailJob(w)
    \/ AbortJob(w) \/ CloseAttempt(w) \/ Notify(w) \/ Leave(w)

Next ==
    \/ \E j \in Jobs : Enqueue(j)
    \/ \E w \in Workers, j \in Jobs : Claim(w, j)
    \/ \E a \in fresh : Expire(a)
    \/ \E w \in Workers : Heartbeat(w) \/ ExecuteJob(w) \/ Shutdown(w) \/ Exit(w)

Spec == Init /\ [][Next]_vars

\* Workers keep polling and every call of execute_job returns (all clients have
\* timeouts); a stopped process exits; the lease of a worker that is no longer
\* at its job runs out.  Nothing is assumed of heartbeats or enqueues.
Fairness ==
    /\ \A w \in Workers :
        /\ WF_vars(\E j \in Jobs : Claim(w, j))
        /\ WF_vars(ExecuteJob(w))
        /\ WF_vars(Exit(w))
    /\ WF_vars(\E a \in fresh : ~ Attended(a) /\ Expire(a))

FairSpec == Spec /\ Fairness
-----------------------------------------------------------------------------
(* Properties *)

TypeOK ==
    /\ status \in [Jobs -> {"absent", "pending"} \cup Active \cup Terminal]
    /\ lastNum \in [Jobs -> Nat]
    /\ open \subseteq Attempts /\ fresh \subseteq open
    /\ runs \subseteq [att : Attempts, status : {"running", "completed", "failed"}]
    /\ commits \subseteq [att : Attempts, from : Nat, to : Nat]
    /\ queued \subseteq Attempts
    /\ checkpoint \in [Targets -> Nat]
    /\ pc \in [Workers -> Locations]
    /\ att \in [Workers -> Attempts]
    /\ heartbeat \in [Workers -> BOOLEAN]
    /\ leaseLost \in [Workers -> BOOLEAN]
    /\ cursor \in [Workers -> Nat] /\ batch \in [Workers -> Nat]
    /\ callbacks \subseteq Attempts \X Terminal
    /\ faults \in 0..MaxFaults

Committed(a) == \E c \in commits : c.att = a

\* "Lease-fenced commit: inputs, lineage, checkpoint and downstream work are
\* durable together.  A crash cannot advance a cursor past unmaterialized
\* data" (commit_connector_batch): at every moment, whichever workers crashed,
\* lost leases or raced on the same target, every record up to a wallet's
\* checkpoint belongs to a committed batch whose materialization is queued.
CheckpointCovered ==
    \A t \in Wallets : \A p \in 1..checkpoint[t] :
        \E c \in commits : /\ JobTarget[c.att.job] = t
                           /\ c.from < p /\ p <= c.to
                           /\ c.att \in queued

\* The batches a step makes durable belong to the newest attempt at a job that
\* is not finished.
NewCommitsAreFenced ==
    \A c \in commits' \ commits :
        c.att.num = lastNum[c.att.job] /\ status[c.att.job] \in Active

\* Fencing by worker id is fencing by attempt: a batch becomes durable only
\* under the newest attempt at its job, while the job is not finished, though
\* the SQL compares the worker id alone and workers reclaim jobs they once
\* had (claim_ingestion_job, commit_connector_batch).
FencedCommit == [][NewCommitsAreFenced]_vars

\* A job row says 'completed' only if the newest attempt at it made a batch
\* durable: completion is never inherited from a superseded attempt
\* (complete_ingestion_job).
CompletedJobCommitted ==
    \A j \in Jobs : status[j] = "completed" =>
        \E c \in commits : c.att.job = j /\ c.att.num = lastNum[j]

\* Observers are told the truth about success: a run marked completed and a
\* 'completed' callback belong to an attempt whose batch is durable, even when
\* the job row itself could not be completed (execute_job).
SuccessIsCommitted ==
    /\ \A r \in runs : r.status = "completed" => Committed(r.att)
    /\ \A m \in callbacks : m[2] = "completed" => Committed(m[1])

\* "Best-effort: mark the ingestion run as failed so it doesn't stay 'running'
\* forever" (execute_job, on a lost lease): the worker that lost its lease fails
\* a run that is still running, not one its own commit already completed.
LostLeaseFailsOnlyRunningRun ==
    [][\A w \in Workers, r \in runs :
        leaseLost[w] /\ r.att = att[w] /\ r.status = "completed" => r \in runs']_vars

\* Every enqueued job reaches a terminal status, through crashes, lost calls
\* and expired leases, as long as one worker is left running.
EnqueuedJobFinishes ==
    \A j \in Jobs : (status[j] = "pending") ~>
        (status[j] \in Terminal \/ \A w \in Workers : pc[w] = "stopped")

\* The queue as its clients see it: an epoch is an attempt, an effect is a
\* committed batch.
Queue == INSTANCE FencedQueue WITH
    phase <- [j \in Jobs |-> CASE status[j] = "pending" -> "queued"
                               [] status[j] \in Active -> "leased"
                               [] OTHER -> status[j]],
    epoch <- lastNum,
    effects <- {<<c.att.job, c.att.num>> : c \in commits}

\* The tables, the workers and their failures implement the fenced queue.
ImplementsFencedQueue == Queue!Spec

-----------------------------------------------------------------------------
(* The inductive invariant behind the safety properties *)

\* Every record of t up to cursor n is durable and queued for materialization.
CoveredUpTo(t, n) ==
    t \in Wallets => \A p \in 1..n :
        \E c \in commits : /\ JobTarget[c.att.job] = t
                           /\ c.from < p /\ p <= c.to
                           /\ c.att \in queued

\* At most one attempt at a job is open, and it is the newest.
OpenIsNewest ==
    /\ \A a \in open : a.num = lastNum[a.job]
    /\ \A a, b \in open : a.job = b.job => a = b

\* A worker at a job has no other open attempt at it: it runs one job at a
\* time, so its id is as good as an attempt number.
OwnAttempt ==
    \A w \in Workers : pc[w] \notin {"idle", "stopped"} =>
        /\ att[w].worker = w
        /\ \A a \in open : a.worker = w /\ a.job = att[w].job => a = att[w]

\* A worker on its way to report success has committed its batch.
SuccessPath ==
    \A w \in Workers :
        pc[w] \in {"ok", "complete", "complete_close", "notify_ok"} => Committed(att[w])

\* The cursor a worker fetched from was covered when it was read, and stays so.
CursorCovered ==
    \A w \in Workers : pc[w] \in {"fetch", "commit"} =>
        /\ CoveredUpTo(JobTarget[att[w].job], cursor[w])
        /\ pc[w] = "commit" => cursor[w] <= batch[w]

\* Inductive: it implies each safety invariant above and every step keeps it.
IInv ==
    /\ TypeOK
    /\ OpenIsNewest
    /\ OwnAttempt
    /\ SuccessPath
    /\ CursorCovered
    /\ CompletedJobCommitted
    /\ SuccessIsCommitted
    /\ CheckpointCovered
=============================================================================
