----------------------------- MODULE ExportJobs -----------------------------
(***************************************************************************)
(* The durable export queue and its workers: the export_jobs statements of *)
(* v2_repo.rs, execute_export_job of api/src/export_worker.rs and the      *)
(* files it publishes for download_export.  A step is one SQL statement,   *)
(* one file operation or one look at the lease_lost token; everything else *)
(* interleaves between them.                                               *)
(*                                                                         *)
(* The row has no attempt number: it is fenced by worker id alone.  lease  *)
(* counts the claims of a job and tags the files with the claim they were  *)
(* written under, so that the properties can tell attempts apart; no guard *)
(* reads it.  The workers share one export directory.                      *)
(***************************************************************************)
EXTENDS Integers

CONSTANTS
    Workers,    \* export workers, one per process start
    NoWorker,   \* worker_id IS NULL
    Jobs,       \* export_jobs rows that may be enqueued
    Sinks,      \* the jobs with a sink_config
    MaxFaults   \* bound: failed calls and leases that expire under a live worker

ASSUME ConstantsAssumption ==
    /\ Workers # {} /\ NoWorker \notin Workers
    /\ Jobs # {} /\ Sinks \subseteq Jobs
    /\ MaxFaults \in Nat

VARIABLES
    status,     \* export_jobs.status ("absent": no row)
    owner,      \* export_jobs.worker_id
    fresh,      \* the jobs whose heartbeat_at is under five minutes old
    lease,      \* history: how often each job was claimed
    temp,       \* the attempt-scoped temp file of each job and worker
    final,      \* the file at the download path of each job
    sidecar,    \* the claim that wrote the provenance file of each job (0: no file)
    delivered,  \* deliveries that reached a sink
    pc,         \* where each worker is in worker_tick / execute_export_job
    job, num,   \* the job it executes, and the claim it executes it under
    heartbeat,  \* whether its heartbeat task runs
    leaseLost,  \* its lease_lost token
    faults      \* faults so far

rowVars  == <<status, owner, fresh, lease>>
fileVars == <<temp, final, sidecar, delivered>>
execVars == <<pc, job, num, heartbeat, leaseLost>>
vars == <<rowVars, fileVars, execVars, faults>>

Active   == {"running", "delivering"}
Terminal == {"completed", "failed"}
Locations == {"idle", "prepare", "open", "write", "written", "confirm", "check",
              "publish", "sidecar", "sidecar_check", "sidecar_publish", "sink_check",
              "sink", "complete", "fail", "discard", "discard_fail", "stopped"}

\* A file: the claim that wrote it and whether it was written to the end.
NoFile == [num |-> 0, full |-> FALSE]
Files  == [num : Nat, full : BOOLEAN]

Init ==
    /\ status = [j \in Jobs |-> "absent"]
    /\ owner = [j \in Jobs |-> NoWorker]
    /\ fresh = {}
    /\ lease = [j \in Jobs |-> 0]
    /\ temp = [j \in Jobs |-> [w \in Workers |-> NoFile]]
    /\ final = [j \in Jobs |-> NoFile]
    /\ sidecar = [j \in Jobs |-> 0]
    /\ delivered = {}
    /\ pc = [w \in Workers |-> "idle"]
    /\ job = [w \in Workers |-> CHOOSE j \in Jobs : TRUE]
    /\ num = [w \in Workers |-> 0]
    /\ heartbeat = [w \in Workers |-> FALSE]
    /\ leaseLost = [w \in Workers |-> FALSE]
    /\ faults = 0

-----------------------------------------------------------------------------
(* Faults and control flow *)

Fault   == faults < MaxFaults /\ faults' = faults + 1
NoFault == UNCHANGED faults

Goto(w, l) == pc' = [pc EXCEPT ![w] = l]

KeepLocals == UNCHANGED <<job, num, heartbeat, leaseLost>>

\* execute_export_job returns: the heartbeat is cancelled, the permit dropped.
Return(w) ==
    /\ Goto(w, "idle")
    /\ num' = [num EXCEPT ![w] = 0]
    /\ heartbeat' = [heartbeat EXCEPT ![w] = FALSE]
    /\ leaseLost' = [leaseLost EXCEPT ![w] = FALSE]
    /\ UNCHANGED job

\* Mutant: the temp path is not scoped by worker, so attempts share it.
SharedTemp(w) == CHOOSE v \in Workers : TRUE

\* attempt_temp_path: whose temp file this worker writes for a job.
AttemptTemp(w) == w

Temp(w) == temp[job[w]][AttemptTemp(w)]

SetTemp(w, f) == temp' = [temp EXCEPT ![job[w]][AttemptTemp(w)] = f]

-----------------------------------------------------------------------------
(* The queue *)

Enqueue(j) ==
    /\ status[j] = "absent"
    /\ status' = [status EXCEPT ![j] = "pending"]
    /\ UNCHANGED <<owner, fresh, lease, fileVars, execVars, faults>>

\* Mutant: only 'running' jobs are reclaimed, not those left 'delivering'.
ClaimableBeforeDelivery(j) ==
    status[j] = "pending" \/ (status[j] = "running" /\ j \notin fresh)

Claimable(j) ==
    status[j] = "pending" \/ (status[j] \in Active /\ j \notin fresh)

\* worker_tick: with a permit, claim a job; any claimable row may be the one
\* that is not locked.  The second disjunct is a commit reported as failed.
Claim(w, j) ==
    /\ pc[w] = "idle"
    /\ Claimable(j)
    /\ status' = [status EXCEPT ![j] = "running"]
    /\ owner' = [owner EXCEPT ![j] = w]
    /\ fresh' = fresh \cup {j}
    /\ lease' = [lease EXCEPT ![j] = @ + 1]
    /\ \/ /\ Goto(w, "prepare")
          /\ job' = [job EXCEPT ![w] = j]
          /\ num' = [num EXCEPT ![w] = lease[j] + 1]
          /\ heartbeat' = [heartbeat EXCEPT ![w] = TRUE]
          /\ NoFault
       \/ Fault /\ UNCHANGED <<pc, job, num, heartbeat>>
    /\ UNCHANGED <<fileVars, leaseLost>>

\* The owner's heartbeat task runs, or it is still at the job.
Attended(j) ==
    \E w \in Workers :
        /\ owner[j] = w /\ job[w] = j /\ num[w] = lease[j]
        /\ heartbeat[w] \/ pc[w] \notin {"idle", "stopped"}

\* heartbeat_at passes the threshold: of an attended job, by a fault.
Expire(j) ==
    /\ j \in fresh /\ status[j] \in Active
    /\ fresh' = fresh \ {j}
    /\ IF Attended(j) THEN Fault ELSE NoFault
    /\ UNCHANGED <<status, owner, lease, fileVars, execVars>>

\* Mutant: the update is guarded by the status of the row but not by worker_id.
OwnsByStatus(w) == status[job[w]] \in Active

\* The guard of update_export_job_status and heartbeat_export_job.
Owns(w) == owner[job[w]] = w /\ status[job[w]] \in Active

\* update_or_abort: a refusal and an error (applied or not) are the same Err.
UpdateOrAbort(w, s, ok, err) ==
    \/ Owns(w) /\ status' = [status EXCEPT ![job[w]] = s] /\ ok /\ NoFault
    \/ ~ Owns(w) /\ UNCHANGED status /\ err /\ NoFault
    \/ /\ Owns(w) /\ Fault /\ err
       /\ status' = [status EXCEPT ![job[w]] = s] \/ UNCHANGED status

\* The heartbeat task; refused once the row is another worker's, or finished.
Heartbeat(w) ==
    /\ heartbeat[w]
    /\ IF Owns(w)
       THEN fresh' = fresh \cup {job[w]} /\ UNCHANGED <<heartbeat, leaseLost>>
       ELSE /\ heartbeat' = [heartbeat EXCEPT ![w] = FALSE]
            /\ leaseLost' = [leaseLost EXCEPT ![w] = TRUE]
            /\ UNCHANGED fresh
    /\ UNCHANGED <<status, owner, lease, fileVars, pc, job, num, faults>>

-----------------------------------------------------------------------------
(* execute_export_job: writing the temp file *)

\* Filters are parsed and the directory made; either can fail the job.
Prepare(w) ==
    /\ pc[w] = "prepare"
    /\ Goto(w, "open") \/ Goto(w, "fail")
    /\ KeepLocals
    /\ UNCHANGED <<rowVars, fileVars, faults>>

\* write_export_to_file: metadata, then a truncating open.
OpenTemp(w) ==
    /\ pc[w] = "open"
    /\ \/ SetTemp(w, [num |-> num[w], full |-> FALSE]) /\ Goto(w, "write")
       \/ Goto(w, "discard_fail") /\ UNCHANGED temp
    /\ KeepLocals
    /\ UNCHANGED <<rowVars, final, sidecar, delivered, faults>>

\* The page loop.  A lease lost before the last page is an error like any other.
WritePages(w) ==
    /\ pc[w] = "write"
    /\ \/ SetTemp(w, [num |-> num[w], full |-> TRUE]) /\ Goto(w, "written")
       \/ Goto(w, "discard_fail") /\ UNCHANGED temp
    /\ KeepLocals
    /\ UNCHANGED <<rowVars, final, sidecar, delivered, faults>>

\* The three looks at lease_lost: after the write, before the rename, and
\* before delivery.
CheckLease(w) ==
    /\ \/ pc[w] = "written" /\ Goto(w, IF leaseLost[w] THEN "discard" ELSE "confirm") /\ KeepLocals
       \/ pc[w] = "check" /\ Goto(w, IF leaseLost[w] THEN "discard" ELSE "publish") /\ KeepLocals
       \/ pc[w] = "sink_check" /\ leaseLost[w] /\ Return(w)
       \/ pc[w] = "sink_check" /\ ~ leaseLost[w] /\ Goto(w, "sink") /\ KeepLocals
    /\ UNCHANGED <<rowVars, fileVars, faults>>

\* The lease-confirming update to 'delivering', with or without a sink.
Confirm(w) ==
    /\ pc[w] = "confirm"
    /\ UpdateOrAbort(w, "delivering", Goto(w, "check"), Goto(w, "discard"))
    /\ KeepLocals
    /\ UNCHANGED <<owner, fresh, lease, fileVars>>

-----------------------------------------------------------------------------
(* Publishing.  A rename runs on a blocking thread and is not undone when its *)
(* future is dropped: a shutdown there is a shutdown after it.                *)

Publish(w) ==
    /\ pc[w] = "publish"
    /\ \/ /\ Temp(w) # NoFile
          /\ final' = [final EXCEPT ![job[w]] = Temp(w)]
          /\ SetTemp(w, NoFile)
          /\ Goto(w, "sidecar")
       \/ Goto(w, "discard_fail") /\ UNCHANGED <<temp, final>>
    /\ KeepLocals
    /\ UNCHANGED <<rowVars, sidecar, delivered, faults>>

\* write_provenance_file: a temp file of its own, ...
WriteSidecar(w) ==
    /\ pc[w] = "sidecar"
    /\ Goto(w, "sidecar_check") \/ Goto(w, "fail")
    /\ KeepLocals
    /\ UNCHANGED <<rowVars, fileVars, faults>>

\* ... lease_lost once more, ...
CheckSidecar(w) ==
    /\ pc[w] = "sidecar_check"
    /\ Goto(w, IF leaseLost[w] THEN "fail" ELSE "sidecar_publish")
    /\ KeepLocals
    /\ UNCHANGED <<rowVars, fileVars, faults>>

\* ... and the rename.
PublishSidecar(w) ==
    /\ pc[w] = "sidecar_publish"
    /\ \/ /\ sidecar' = [sidecar EXCEPT ![job[w]] = num[w]]
          /\ Goto(w, IF job[w] \in Sinks THEN "sink_check" ELSE "complete")
       \/ Goto(w, "fail") /\ UNCHANGED sidecar
    /\ KeepLocals
    /\ UNCHANGED <<rowVars, temp, final, delivered, faults>>

\* deliver_from_file sends what is at the download path; an error may come
\* after the sink has it.
Delivery(w) == [job |-> job[w], num |-> num[w], file |-> final[job[w]]]

Deliver(w) ==
    /\ pc[w] = "sink"
    /\ \/ delivered' = delivered \cup {Delivery(w)} /\ Goto(w, "complete")
       \/ /\ delivered' = delivered \cup {Delivery(w)} \/ UNCHANGED delivered
          /\ Goto(w, "fail")
    /\ KeepLocals
    /\ UNCHANGED <<rowVars, temp, final, sidecar, faults>>

-----------------------------------------------------------------------------
(* Finishing *)

\* The last update; refused, the published files are left to the new owner.
Complete(w) ==
    /\ pc[w] = "complete"
    /\ UpdateOrAbort(w, "completed", Return(w), Return(w))
    /\ UNCHANGED <<owner, fresh, lease, fileVars>>

Fail(w) ==
    /\ pc[w] = "fail"
    /\ UpdateOrAbort(w, "failed", Return(w), Return(w))
    /\ UNCHANGED <<owner, fresh, lease, fileVars>>

\* best_effort_unlink of the temp file, then return or fail the job.
Discard(w) ==
    /\ pc[w] \in {"discard", "discard_fail"}
    /\ \/ SetTemp(w, NoFile) /\ NoFault
       \/ Fault /\ UNCHANGED temp
    /\ IF pc[w] = "discard" THEN Return(w) ELSE Goto(w, "fail") /\ KeepLocals
    /\ UNCHANGED <<rowVars, final, sidecar, delivered>>

\* The cancellation token drops worker_tick; the heartbeat task outlives it
\* until the process exits.
Shutdown(w) ==
    /\ pc[w] # "stopped"
    /\ Goto(w, "stopped")
    /\ KeepLocals
    /\ UNCHANGED <<rowVars, fileVars, faults>>

Exit(w) ==
    /\ pc[w] = "stopped" /\ heartbeat[w]
    /\ heartbeat' = [heartbeat EXCEPT ![w] = FALSE]
    /\ UNCHANGED <<rowVars, fileVars, pc, job, num, leaseLost, faults>>

-----------------------------------------------------------------------------

ExecuteExportJob(w) ==
    \/ Prepare(w) \/ OpenTemp(w) \/ WritePages(w) \/ CheckLease(w) \/ Confirm(w)
    \/ Publish(w) \/ WriteSidecar(w) \/ CheckSidecar(w) \/ PublishSidecar(w)
    \/ Deliver(w) \/ Complete(w) \/ Fail(w) \/ Discard(w)

Next ==
    \/ \E j \in Jobs : Enqueue(j) \/ Expire(j)
    \/ \E w \in Workers, j \in Jobs : Claim(w, j)
    \/ \E w \in Workers : Heartbeat(w) \/ ExecuteExportJob(w) \/ Shutdown(w) \/ Exit(w)

Spec == Init /\ [][Next]_vars

\* Idle workers find a permit and poll again; every call returns (deliveries
\* have a timeout); a stopped process exits; an unattended lease runs out.
Fairness ==
    /\ \A w \in Workers :
        /\ WF_vars(\E j \in Jobs : Claim(w, j))
        /\ WF_vars(ExecuteExportJob(w))
        /\ WF_vars(Exit(w))
    /\ \A j \in Jobs : WF_vars(~ Attended(j) /\ Expire(j))

FairSpec == Spec /\ Fairness

-----------------------------------------------------------------------------
(* Properties *)

TypeOK ==
    /\ status \in [Jobs -> {"absent", "pending"} \cup Active \cup Terminal]
    /\ owner \in [Jobs -> Workers \cup {NoWorker}]
    /\ fresh \subseteq Jobs
    /\ lease \in [Jobs -> Nat]
    /\ temp \in [Jobs -> [Workers -> Files]]
    /\ final \in [Jobs -> Files]
    /\ sidecar \in [Jobs -> Nat]
    /\ delivered \subseteq [job : Jobs, num : Nat, file : Files]
    /\ pc \in [Workers -> Locations]
    /\ job \in [Workers -> Jobs]
    /\ num \in [Workers -> Nat]
    /\ heartbeat \in [Workers -> BOOLEAN]
    /\ leaseLost \in [Workers -> BOOLEAN]
    /\ faults \in 0..MaxFaults

\* "the two workers cannot truncate each other's artifacts or hand out partial
\* bytes via /download" (export_worker.rs): whatever crashed, was reclaimed or
\* raced, the download path holds no file or a whole one, what a sink was sent
\* is whole, and a completed job has both its artifact and its provenance.
DownloadIsWhole ==
    /\ \A j \in Jobs :
        /\ final[j] # NoFile => final[j].full
        /\ status[j] = "completed" => final[j] # NoFile /\ sidecar[j] # 0
    /\ \A d \in delivered : d.file.full

\* A job with a sink is completed only by a claim that delivered, and no later
\* claim is made: completion is never inherited from the delivery of an owner
\* that was reclaimed (execute_export_job, update_export_job_status).
CompletedByNewestClaim ==
    \A j \in Sinks : status[j] = "completed" =>
        \E d \in delivered : d.job = j /\ d.num = lease[j]

\* Every enqueued export ends completed or failed while a worker is left:
\* jobs abandoned in any phase, 'delivering' included, are taken up again.
EnqueuedExportFinishes ==
    \A j \in Jobs : (status[j] = "pending") ~>
        (status[j] \in Terminal \/ \A w \in Workers : pc[w] = "stopped")

\* "so a stale worker never publishes over the new owner's artifact"
\* (execute_export_job, at the rename): the artifact of a completed job is the
\* one its last owner wrote.
ArtifactIsLastOwners ==
    \A j \in Jobs : status[j] = "completed" => final[j].num = lease[j]

-----------------------------------------------------------------------------
(* The inductive invariant behind the safety properties *)

\* Where the artifact, the provenance and the delivery are behind a worker.
PastPublish == {"sidecar", "sidecar_check", "sidecar_publish", "sink_check", "sink", "complete"}
PastSidecar == {"sink_check", "sink", "complete"}

\* A worker that owns the row owns it under the claim it executes: fencing by
\* worker id is enough because a worker executes one job at a time.
OwnsNewest ==
    \A w \in Workers : pc[w] \notin {"idle", "stopped"} =>
        num[w] # 0 /\ (Owns(w) => num[w] = lease[job[w]])

\* The temp file of a worker about to publish is its own and whole.
TempIsWhole ==
    \A w \in Workers :
        pc[w] \in {"written", "confirm", "check", "publish"} => Temp(w).full

\* What a worker has published stays in place, its own or a newer one.
PublishedStays ==
    \A w \in Workers :
        /\ pc[w] \in PastPublish => final[job[w]] # NoFile
        /\ pc[w] \in PastSidecar => sidecar[job[w]] # 0
        /\ pc[w] = "complete" /\ job[w] \in Sinks =>
            \E d \in delivered : d.job = job[w] /\ d.num = num[w]

\* Inductive: it implies the safety invariants and every step keeps it.
EInv ==
    /\ TypeOK
    /\ OwnsNewest
    /\ TempIsWhole
    /\ PublishedStays
    /\ DownloadIsWhole
    /\ CompletedByNewestClaim
=============================================================================
