------------------------- MODULE IngestionJobsProofs -------------------------
(* Proofs about IngestionJobs, for any number of workers, jobs and targets. *)
EXTENDS IngestionJobs, TLAPS

LEMMA NoAttemptType == ASSUME NEW w \in Workers PROVE NoAttempt(w) \in Attempts
<1>1. \E j \in Jobs : TRUE
  BY ConstantsAssumption
<1>2. (CHOOSE j \in Jobs : TRUE) \in Jobs
  BY <1>1
<1> QED
  BY <1>2 DEF NoAttempt, Attempts

\* SetRun keeps the rows of ingestion_runs well formed.
LEMMA SetRunType ==
    ASSUME TypeOK, NEW a \in Attempts, NEW s \in {"running", "completed", "failed"}
    PROVE  SetRun(a, s) \subseteq [att : Attempts, status : {"running", "completed", "failed"}]
  BY DEF SetRun, TypeOK

LocalsType ==
    /\ pc \in [Workers -> Locations]
    /\ att \in [Workers -> Attempts]
    /\ heartbeat \in [Workers -> BOOLEAN]
    /\ leaseLost \in [Workers -> BOOLEAN]
    /\ cursor \in [Workers -> Nat] /\ batch \in [Workers -> Nat]

\* Leaving execute_job keeps the worker's locals well typed.
LEMMA ReturnType == ASSUME TypeOK, NEW w \in Workers, Return(w) PROVE LocalsType'
<1>1. att' \in [Workers -> Attempts]
  BY NoAttemptType DEF Return, TypeOK
<1>2. heartbeat' \in [Workers -> BOOLEAN] /\ leaseLost' \in [Workers -> BOOLEAN]
  BY DEF Return, TypeOK
<1> QED
  BY <1>1, <1>2 DEF Return, TypeOK, LocalsType, Locations

LEMMA TypeStep == TypeOK /\ [Next]_vars => TypeOK'
<1> SUFFICES ASSUME TypeOK, [Next]_vars PROVE TypeOK'
  OBVIOUS
<1> USE ConstantsAssumption DEF TypeOK, Active, Terminal, Locations, Fault, NoFault, Goto, KeepLocals
<1>1. ASSUME NEW j \in Jobs, Enqueue(j) PROVE TypeOK'
  BY <1>1 DEF Enqueue, dataVars, workerVars
<1>2. ASSUME NEW w \in Workers, NEW j \in Jobs, Claim(w, j) PROVE TypeOK'
  <2> DEFINE a == [job |-> j, num |-> lastNum[j] + 1, worker |-> w]
  <2>1. a \in Attempts
    BY DEF Attempts
  <2>2. open' \subseteq Attempts /\ fresh' \subseteq open'
    BY <1>2, <2>1 DEF Claim, Superseded
  <2>3. att' \in [Workers -> Attempts]
    BY <1>2, <2>1 DEF Claim
  <2> QED
    BY <1>2, <2>2, <2>3 DEF Claim, dataVars
<1>3. ASSUME NEW a \in fresh, Expire(a) PROVE TypeOK'
  BY <1>3 DEF Expire, dataVars, workerVars
<1>4. ASSUME NEW w \in Workers, Heartbeat(w) PROVE TypeOK'
  BY <1>4 DEF Heartbeat, dataVars
<1>5. ASSUME NEW w \in Workers, MarkRunning(w) PROVE TypeOK'
  <2>1. heartbeat' \in [Workers -> BOOLEAN]
    BY <1>5 DEF MarkRunning
  <2>2. /\ status' \in [Jobs -> {"absent", "pending"} \cup Active \cup Terminal]
        /\ pc' \in [Workers -> Locations]
        /\ faults' \in 0..MaxFaults
    BY <1>5 DEF MarkRunning, SetStatus
  <2> QED
    BY <1>5, <2>1, <2>2 DEF MarkRunning, dataVars
<1>6. ASSUME NEW w \in Workers, CreateRun(w) PROVE TypeOK'
  <2>1. runs' \subseteq [att : Attempts, status : {"running", "completed", "failed"}]
    BY <1>6, SetRunType DEF CreateRun
  <2>2. heartbeat' \in [Workers -> BOOLEAN]
    BY <1>6 DEF CreateRun
  <2>3. pc' \in [Workers -> Locations] /\ faults' \in 0..MaxFaults
    BY <1>6 DEF CreateRun
  <2> QED
    BY <1>6, <2>1, <2>2, <2>3 DEF CreateRun, jobVars
<1>7. ASSUME NEW w \in Workers, LoadCheckpoint(w) PROVE TypeOK'
  BY <1>7 DEF LoadCheckpoint, jobVars, dataVars, Attempts
<1>8. ASSUME NEW w \in Workers, Backfill(w) PROVE TypeOK'
  BY <1>8 DEF Backfill, jobVars, dataVars
<1>9. ASSUME NEW w \in Workers, CommitBatch(w) PROVE TypeOK'
  <2>1. Batch(w) \in [att : Attempts, from : Nat, to : Nat]
    BY DEF Batch
  <2>2. ASSUME CommitTx(w)
        PROVE  /\ runs' \subseteq [att : Attempts, status : {"running", "completed", "failed"}]
               /\ commits' \subseteq [att : Attempts, from : Nat, to : Nat]
               /\ queued' \subseteq Attempts
               /\ checkpoint' \in [Targets -> Nat]
    BY <2>1, <2>2, SetRunType DEF CommitTx
  <2> QED
    BY <1>9, <2>2 DEF CommitBatch, jobVars, dataVars
<1>10. ASSUME NEW w \in Workers, RecordRun(w) PROVE TypeOK'
  <2>1. runs' \subseteq [att : Attempts, status : {"running", "completed", "failed"}]
    <3>1. SetRun(att[w], "failed") \subseteq [att : Attempts, status : {"running", "completed", "failed"}]
      BY SetRunType
    <3>2. SetRun(att[w], "completed") \subseteq [att : Attempts, status : {"running", "completed", "failed"}]
      BY SetRunType
    <3> QED
      BY <1>10, <3>1, <3>2 DEF RecordRun
  <2>2. CASE leaseLost[w]
    BY <1>10, <2>1, <2>2, ReturnType DEF RecordRun, LocalsType, jobVars
  <2>3. CASE ~ leaseLost[w]
    <3>1. heartbeat' \in [Workers -> BOOLEAN]
      BY <1>10, <2>3 DEF RecordRun
    <3>2. pc' \in [Workers -> Locations] /\ faults' \in 0..MaxFaults
      BY <1>10, <2>3 DEF RecordRun
    <3> QED
      BY <1>10, <2>1, <2>3, <3>1, <3>2 DEF RecordRun, jobVars
  <2> QED
    BY <2>2, <2>3
<1>11. ASSUME NEW w \in Workers, CompleteJob(w) \/ FailJob(w) \/ AbortJob(w) PROVE TypeOK'
  BY <1>11 DEF CompleteJob, FailJob, AbortJob, Finish, SetStatus, dataVars
<1>12. ASSUME NEW w \in Workers, CloseAttempt(w) PROVE TypeOK'
  BY <1>12 DEF CloseAttempt, dataVars
<1>13. ASSUME NEW w \in Workers, Notify(w) PROVE TypeOK'
  BY <1>13, ReturnType DEF Notify, LocalsType, jobVars, dataVars
<1>14. ASSUME NEW w \in Workers, Leave(w) \/ Shutdown(w) \/ Exit(w) PROVE TypeOK'
  <2>1. CASE Leave(w)
    BY <2>1, ReturnType DEF Leave, LocalsType, jobVars, dataVars
  <2>2. CASE Shutdown(w)
    BY <2>2 DEF Shutdown, jobVars, dataVars
  <2>3. CASE Exit(w)
    BY <2>3 DEF Exit, jobVars, dataVars
  <2> QED
    BY <1>14, <2>1, <2>2, <2>3
<1>15. CASE UNCHANGED vars
  BY <1>15 DEF vars, jobVars, dataVars, workerVars
<1> QED
  BY <1>1, <1>2, <1>3, <1>4, <1>5, <1>6, <1>7, <1>8, <1>9, <1>10, <1>11, <1>12,
     <1>13, <1>14, <1>15 DEF Next, ExecuteJob

\* The tables and the workers' locals keep their types: no worker ever runs
\* past the locations of execute_job, and only open attempts are fresh.
THEOREM TypeCorrect == Spec => []TypeOK
<1>1. Init => TypeOK
  BY ConstantsAssumption, NoAttemptType
     DEF Init, TypeOK, Active, Terminal, Locations
<1> QED
  BY <1>1, TypeStep, PTL DEF Spec

-----------------------------------------------------------------------------
(* What a step may do to the tables *)

\* Batches and queued materializations are never taken back.
LEMMA Monotone ==
    ASSUME TypeOK, [Next]_vars
    PROVE  commits \subseteq commits' /\ queued \subseteq queued'
<1>1. ASSUME NEW w \in Workers, CommitBatch(w)
      PROVE  commits \subseteq commits' /\ queued \subseteq queued'
  BY <1>1 DEF CommitBatch, CommitTx, dataVars
<1>2. ASSUME NEW w \in Workers, ExecuteJob(w), ~ CommitBatch(w)
      PROVE  UNCHANGED <<commits, queued>>
  BY <1>2 DEF ExecuteJob, MarkRunning, CreateRun, LoadCheckpoint, Backfill, RecordRun,
     CompleteJob, FailJob, AbortJob, Finish, CloseAttempt, Notify, Leave, dataVars
<1>3. ASSUME NEW w \in Workers, Heartbeat(w) \/ Shutdown(w) \/ Exit(w)
      PROVE  UNCHANGED <<commits, queued>>
  BY <1>3 DEF Heartbeat, Shutdown, Exit, dataVars
<1>4. ASSUME NEW w \in Workers, NEW j \in Jobs, Claim(w, j)
      PROVE  UNCHANGED <<commits, queued>>
  BY <1>4 DEF Claim, dataVars
<1>5. ASSUME NEW j \in Jobs, Enqueue(j) PROVE UNCHANGED <<commits, queued>>
  BY <1>5 DEF Enqueue, dataVars
<1>6. ASSUME NEW a \in fresh, Expire(a) PROVE UNCHANGED <<commits, queued>>
  BY <1>6 DEF Expire, dataVars
<1>7. CASE UNCHANGED vars
  BY <1>7 DEF vars, dataVars
<1> QED
  BY <1>1, <1>2, <1>3, <1>4, <1>5, <1>6, <1>7 DEF Next

\* Only a claim opens an attempt or counts one.
LEMMA OpenOnlyByClaim ==
    ASSUME TypeOK, [Next]_vars, ~ \E w \in Workers, j \in Jobs : Claim(w, j)
    PROVE  open' \subseteq open /\ lastNum' = lastNum
<1>1. ASSUME NEW w \in Workers, ExecuteJob(w) PROVE open' \subseteq open /\ lastNum' = lastNum
  BY <1>1 DEF ExecuteJob, MarkRunning, CreateRun, LoadCheckpoint, Backfill, CommitBatch,
     RecordRun, CompleteJob, FailJob, AbortJob, Finish, CloseAttempt, Notify, Leave, jobVars
<1>2. ASSUME NEW w \in Workers, Heartbeat(w) \/ Shutdown(w) \/ Exit(w)
      PROVE  open' \subseteq open /\ lastNum' = lastNum
  BY <1>2 DEF Heartbeat, Shutdown, Exit, jobVars
<1>3. ASSUME NEW j \in Jobs, Enqueue(j) PROVE open' \subseteq open /\ lastNum' = lastNum
  BY <1>3 DEF Enqueue
<1>4. ASSUME NEW a \in fresh, Expire(a) PROVE open' \subseteq open /\ lastNum' = lastNum
  BY <1>4 DEF Expire
<1>5. CASE UNCHANGED vars
  BY <1>5 DEF vars, jobVars
<1> QED
  BY <1>1, <1>2, <1>3, <1>4, <1>5 DEF Next

\* A worker that moves without claiming stays with its attempt or becomes idle.
LEMMA SameAttempt ==
    ASSUME TypeOK, [Next]_vars, NEW v \in Workers,
           ~ \E j \in Jobs : Claim(v, j), pc'[v] \notin {"idle", "stopped"}
    PROVE  pc[v] \notin {"idle", "stopped"} /\ att'[v] = att[v]
<1> USE DEF TypeOK, Goto, KeepLocals
<1>1. ASSUME NEW w \in Workers, ExecuteJob(w)
      PROVE  pc[v] \notin {"idle", "stopped"} /\ att'[v] = att[v]
  <2>1. CASE Return(w)
    BY <1>1, <2>1 DEF Return, ExecuteJob, MarkRunning, CreateRun, LoadCheckpoint, Backfill,
       CommitBatch, RecordRun, CompleteJob, FailJob, AbortJob, Finish, CloseAttempt, Notify, Leave
  <2>2. CASE att' = att /\ pc[w] \notin {"idle", "stopped"} /\ \E l : pc' = [pc EXCEPT ![w] = l]
    BY <2>2
  <2>3. Return(w) \/ (att' = att /\ pc[w] \notin {"idle", "stopped"} /\ \E l : pc' = [pc EXCEPT ![w] = l])
    BY <1>1 DEF ExecuteJob, MarkRunning, CreateRun, LoadCheckpoint, Backfill,
       CommitBatch, RecordRun, CompleteJob, FailJob, AbortJob, Finish, CloseAttempt, Notify, Leave
  <2> QED
    BY <2>1, <2>2, <2>3
<1>2. ASSUME NEW w \in Workers, Heartbeat(w) \/ Shutdown(w) \/ Exit(w)
      PROVE  pc[v] \notin {"idle", "stopped"} /\ att'[v] = att[v]
  BY <1>2 DEF Heartbeat, Shutdown, Exit
<1>3. ASSUME NEW w \in Workers, NEW j \in Jobs, Claim(w, j)
      PROVE  pc[v] \notin {"idle", "stopped"} /\ att'[v] = att[v]
  BY <1>3 DEF Claim
<1>4. ASSUME NEW j \in Jobs, Enqueue(j) PROVE UNCHANGED <<pc, att>>
  BY <1>4 DEF Enqueue, workerVars
<1>5. ASSUME NEW a \in fresh, Expire(a) PROVE UNCHANGED <<pc, att>>
  BY <1>5 DEF Expire, workerVars
<1>6. CASE UNCHANGED vars
  BY <1>6 DEF vars, workerVars
<1> QED
  BY <1>1, <1>2, <1>3, <1>4, <1>5, <1>6 DEF Next

-----------------------------------------------------------------------------
(* The inductive invariant, one part at a time *)

LEMMA OpenIsNewestStep == TypeOK /\ OpenIsNewest /\ [Next]_vars => OpenIsNewest'
<1> SUFFICES ASSUME TypeOK, OpenIsNewest, [Next]_vars PROVE OpenIsNewest'
  OBVIOUS
<1>1. ASSUME NEW w \in Workers, NEW j \in Jobs, Claim(w, j) PROVE OpenIsNewest'
  BY <1>1 DEF Claim, Superseded, OpenIsNewest, TypeOK, Attempts
<1>2. CASE ~ \E w \in Workers, j \in Jobs : Claim(w, j)
  BY <1>2, OpenOnlyByClaim DEF OpenIsNewest
<1> QED
  BY <1>1, <1>2

LEMMA OwnAttemptStep == TypeOK /\ OwnAttempt /\ [Next]_vars => OwnAttempt'
<1> SUFFICES ASSUME TypeOK, OwnAttempt, [Next]_vars,
                    NEW v \in Workers, pc'[v] \notin {"idle", "stopped"}
             PROVE  /\ att'[v].worker = v
                    /\ \A a \in open' : a.worker = v /\ a.job = att'[v].job => a = att'[v]
  BY DEF OwnAttempt
<1>1. ASSUME NEW j \in Jobs, Claim(v, j)
      PROVE  /\ att'[v].worker = v
             /\ \A a \in open' : a.worker = v /\ a.job = att'[v].job => a = att'[v]
  <2>1. att'[v] = [job |-> j, num |-> lastNum[j] + 1, worker |-> v]
    BY <1>1 DEF Claim, TypeOK, Goto
  <2> QED
    BY <1>1, <2>1 DEF Claim, Superseded, TypeOK
<1>2. CASE ~ \E j \in Jobs : Claim(v, j)
  <2>1. pc[v] \notin {"idle", "stopped"} /\ att'[v] = att[v]
    BY <1>2, SameAttempt
  <2>2. ASSUME NEW w \in Workers, NEW j \in Jobs, Claim(w, j)
        PROVE  \A a \in open' : a.worker = v => a \in open
    <3>1. w # v
      BY <1>2, <2>2
    <3> QED
      BY <2>2, <3>1 DEF Claim
  <2>3. \A a \in open' : a.worker = v => a \in open
    <3>1. CASE \E w \in Workers, j \in Jobs : Claim(w, j)
      BY <2>2, <3>1
    <3>2. CASE ~ \E w \in Workers, j \in Jobs : Claim(w, j)
      BY <3>2, OpenOnlyByClaim
    <3> QED
      BY <3>1, <3>2
  <2> QED
    BY <2>1, <2>3 DEF OwnAttempt
<1> QED
  BY <1>1, <1>2

LEMMA SuccessPathStep == TypeOK /\ SuccessPath /\ [Next]_vars => SuccessPath'
<1> SUFFICES ASSUME TypeOK, SuccessPath, [Next]_vars, NEW v \in Workers,
                    pc'[v] \in {"ok", "complete", "complete_close", "notify_ok"}
             PROVE  Committed(att[v])' 
  BY DEF SuccessPath
<1> DEFINE Path == {"ok", "complete", "complete_close", "notify_ok"}
<1>1. ~ \E j \in Jobs : Claim(v, j)
  BY DEF Claim, Goto, TypeOK
<1>2. pc[v] \notin {"idle", "stopped"} /\ att'[v] = att[v]
  BY <1>1, SameAttempt
<1>3. CASE pc[v] \in Path
  BY <1>2, <1>3, Monotone DEF SuccessPath, Committed
<1>4. CASE pc[v] \notin Path
  <2>1. ASSUME NEW w \in Workers, ExecuteJob(w) PROVE CommitBatch(v) /\ CommitTx(v)
    BY <1>4, <2>1 DEF ExecuteJob, MarkRunning, CreateRun, LoadCheckpoint, Backfill, CommitBatch,
       RecordRun, CompleteJob, FailJob, AbortJob, Finish, CloseAttempt, Notify, Leave, Return,
       Goto, TypeOK
  <2>2. ASSUME NEW w \in Workers, Heartbeat(w) \/ Shutdown(w) \/ Exit(w) PROVE FALSE
    BY <1>4, <2>2 DEF Heartbeat, Shutdown, Exit, Goto, TypeOK
  <2>3. ASSUME NEW w \in Workers, NEW j \in Jobs, Claim(w, j) PROVE FALSE
    BY <1>4, <2>3 DEF Claim, Goto, TypeOK
  <2>4. ASSUME NEW j \in Jobs, Enqueue(j) PROVE FALSE
    BY <1>4, <2>4 DEF Enqueue, workerVars
  <2>5. ASSUME NEW a \in fresh, Expire(a) PROVE FALSE
    BY <1>4, <2>5 DEF Expire, workerVars
  <2>6. ASSUME UNCHANGED vars PROVE FALSE
    BY <1>4, <2>6 DEF vars, workerVars
  <2>7. CommitTx(v)
    BY <2>1, <2>2, <2>3, <2>4, <2>5, <2>6 DEF Next
  <2>8. Batch(v) \in commits' /\ Batch(v).att = att'[v]
    BY <1>2, <2>7 DEF CommitTx, Batch
  <2> QED
    BY <2>8 DEF Committed
<1> QED
  BY <1>3, <1>4

\* Coverage is about tables that only grow.
LEMMA CoverageMonotone ==
    ASSUME TypeOK, [Next]_vars, NEW t, NEW n, CoveredUpTo(t, n)
    PROVE  CoveredUpTo(t, n)'
  BY Monotone DEF CoveredUpTo

\* A committed batch extends the coverage of its wallet to its own end.
LEMMA CommitExtendsCoverage ==
    ASSUME TypeOK, [Next]_vars, NEW w \in Workers, CursorCovered, CommitBatch(w), CommitTx(w)
    PROVE  CoveredUpTo(JobTarget[att[w].job], batch[w])'
<1> DEFINE t == JobTarget[att[w].job]
<1>1. CoveredUpTo(t, cursor[w])
  BY DEF CursorCovered, CommitBatch
<1>2. cursor[w] \in Nat /\ batch[w] \in Nat /\ cursor[w] <= batch[w]
  BY DEF CursorCovered, CommitBatch, TypeOK
<1>3. Batch(w) \in commits'
  BY DEF CommitTx
<1>4. Batch(w).att = att[w] /\ Batch(w).from = cursor[w] /\ Batch(w).to = batch[w]
  BY DEF Batch
<1>5. ASSUME t \in Wallets, NEW p \in 1..batch[w]
      PROVE  \E c \in commits' : /\ JobTarget[c.att.job] = t
                                 /\ c.from < p /\ p <= c.to
                                 /\ c.att \in queued'
  <2>1. CASE p <= cursor[w]
    BY <1>1, <1>2, <1>5, <2>1, Monotone DEF CoveredUpTo
  <2>2. CASE p > cursor[w]
    <3>1. att[w] \in queued'
      BY <1>2, <1>5, <2>2 DEF CommitTx
    <3> QED
      BY <1>2, <1>3, <1>4, <2>2, <3>1
  <2> QED
    BY <1>2, <2>1, <2>2
<1>6. UNCHANGED <<batch, att>> => CoveredUpTo(t, batch[w])'
  BY <1>5 DEF CoveredUpTo
<1>7. UNCHANGED <<batch, att>>
  BY DEF CommitBatch, KeepLocals
<1> QED
  BY <1>6, <1>7

LEMMA CheckpointCoveredStep ==
    TypeOK /\ CursorCovered /\ CheckpointCovered /\ [Next]_vars => CheckpointCovered'
<1> SUFFICES ASSUME TypeOK, CursorCovered, CheckpointCovered, [Next]_vars, NEW t \in Wallets
             PROVE  CoveredUpTo(t, checkpoint[t])'
  BY DEF CheckpointCovered, CoveredUpTo
<1>1. CoveredUpTo(t, checkpoint[t])
  BY DEF CheckpointCovered, CoveredUpTo
<1>2. CoveredUpTo(t, checkpoint[t]) => (checkpoint'[t] = checkpoint[t] => CoveredUpTo(t, checkpoint[t])')
  BY Monotone DEF CoveredUpTo
<1>3. ASSUME NEW w \in Workers, CommitBatch(w), CommitTx(w), checkpoint'[t] # checkpoint[t]
      PROVE  CoveredUpTo(t, checkpoint[t])'
  <2>1. t = JobTarget[att[w].job] /\ checkpoint'[t] = batch[w]
    BY <1>3, ConstantsAssumption DEF CommitTx, TypeOK
  <2>2. CoveredUpTo(JobTarget[att[w].job], batch[w])'
    BY <1>3, CommitExtendsCoverage
  <2>3. UNCHANGED <<batch, att>>
    BY <1>3 DEF CommitBatch, KeepLocals
  <2> QED
    BY <2>1, <2>2, <2>3 DEF CoveredUpTo
<1>4. ASSUME NEW w \in Workers, ExecuteJob(w), ~ (CommitBatch(w) /\ CommitTx(w))
      PROVE  checkpoint' = checkpoint
  BY <1>4 DEF ExecuteJob, MarkRunning, CreateRun, LoadCheckpoint, Backfill, CommitBatch, RecordRun,
     CompleteJob, FailJob, AbortJob, Finish, CloseAttempt, Notify, Leave, dataVars
<1>5. ASSUME NEW w \in Workers, Heartbeat(w) \/ Shutdown(w) \/ Exit(w)
      PROVE  checkpoint' = checkpoint
  BY <1>5 DEF Heartbeat, Shutdown, Exit, dataVars
<1>6. ASSUME NEW w \in Workers, NEW j \in Jobs, Claim(w, j) PROVE checkpoint' = checkpoint
  BY <1>6 DEF Claim, dataVars
<1>7. ASSUME NEW j \in Jobs, Enqueue(j) PROVE checkpoint' = checkpoint
  BY <1>7 DEF Enqueue, dataVars
<1>8. ASSUME NEW a \in fresh, Expire(a) PROVE checkpoint' = checkpoint
  BY <1>8 DEF Expire, dataVars
<1>9. ASSUME UNCHANGED vars PROVE checkpoint' = checkpoint
  BY <1>9 DEF vars, dataVars
<1> QED
  BY <1>1, <1>2, <1>3, <1>4, <1>5, <1>6, <1>7, <1>8, <1>9 DEF Next

LEMMA CursorCoveredStep ==
    TypeOK /\ CursorCovered /\ CheckpointCovered /\ [Next]_vars => CursorCovered'
<1> SUFFICES ASSUME TypeOK, CursorCovered, CheckpointCovered, [Next]_vars,
                    NEW v \in Workers, pc'[v] \in {"fetch", "commit"}
             PROVE  /\ CoveredUpTo(JobTarget[att[v].job], cursor[v])'
                    /\ pc'[v] = "commit" => cursor'[v] <= batch'[v]
  BY DEF CursorCovered
<1>1. ~ \E j \in Jobs : Claim(v, j)
  BY DEF Claim, Goto, TypeOK
<1>2. att'[v] = att[v]
  BY <1>1, SameAttempt
<1>3. CASE LoadCheckpoint(v)
  <2>1. /\ cursor'[v] = checkpoint[JobTarget[att[v].job]]
        /\ pc'[v] = "fetch"
    BY <1>3 DEF LoadCheckpoint, Goto, TypeOK
  <2>2. CoveredUpTo(JobTarget[att[v].job], checkpoint[JobTarget[att[v].job]])
    BY DEF CheckpointCovered, CoveredUpTo
  <2>3. CoveredUpTo(JobTarget[att[v].job], cursor[v])'
    BY <1>2, <2>1, <2>2, Monotone DEF CoveredUpTo
  <2> QED
    BY <2>1, <2>3
<1>4. CASE Backfill(v)
  <2>1. pc[v] = "fetch" /\ cursor' = cursor /\ cursor'[v] <= batch'[v]
    BY <1>4, ConstantsAssumption DEF Backfill, Goto, TypeOK
  <2>2. CoveredUpTo(JobTarget[att[v].job], cursor[v])
    BY <2>1 DEF CursorCovered
  <2> QED
    BY <1>2, <2>1, <2>2, Monotone DEF CoveredUpTo
<1>5. CASE ~ LoadCheckpoint(v) /\ ~ Backfill(v)
  <2>1. ASSUME NEW w \in Workers, ExecuteJob(w)
        PROVE  pc'[v] = pc[v] /\ cursor'[v] = cursor[v] /\ batch'[v] = batch[v]
    BY <1>5, <2>1 DEF ExecuteJob, MarkRunning, CreateRun, LoadCheckpoint, Backfill, CommitBatch,
       RecordRun, CompleteJob, FailJob, AbortJob, Finish, CloseAttempt, Notify, Leave, Return,
       Goto, KeepLocals, TypeOK
  <2>2. ASSUME NEW w \in Workers, Heartbeat(w) \/ Shutdown(w) \/ Exit(w)
        PROVE  pc'[v] = pc[v] /\ cursor'[v] = cursor[v] /\ batch'[v] = batch[v]
    BY <2>2 DEF Heartbeat, Shutdown, Exit, Goto, KeepLocals, TypeOK
  <2>3. ASSUME NEW w \in Workers, NEW j \in Jobs, Claim(w, j)
        PROVE  pc'[v] = pc[v] /\ cursor'[v] = cursor[v] /\ batch'[v] = batch[v]
    BY <2>3 DEF Claim, Goto, TypeOK
  <2>4. ASSUME NEW j \in Jobs, Enqueue(j)
        PROVE  pc'[v] = pc[v] /\ cursor'[v] = cursor[v] /\ batch'[v] = batch[v]
    BY <2>4 DEF Enqueue, workerVars
  <2>5. ASSUME NEW a \in fresh, Expire(a)
        PROVE  pc'[v] = pc[v] /\ cursor'[v] = cursor[v] /\ batch'[v] = batch[v]
    BY <2>5 DEF Expire, workerVars
  <2>6. ASSUME UNCHANGED vars
        PROVE  pc'[v] = pc[v] /\ cursor'[v] = cursor[v] /\ batch'[v] = batch[v]
    BY <2>6 DEF vars, workerVars
  <2>7. pc'[v] = pc[v] /\ cursor'[v] = cursor[v] /\ batch'[v] = batch[v]
    BY <2>1, <2>2, <2>3, <2>4, <2>5, <2>6 DEF Next
  <2>8. /\ CoveredUpTo(JobTarget[att[v].job], cursor[v])
        /\ pc[v] = "commit" => cursor[v] <= batch[v]
    BY <2>7 DEF CursorCovered
  <2> QED
    BY <1>2, <2>7, <2>8, Monotone DEF CoveredUpTo
<1> QED
  BY <1>3, <1>4, <1>5

\* What the lease checks of the SQL amount to: the worker's own attempt is
\* open, and it is the newest attempt at the job.
LEMMA FenceIsEpoch ==
    ASSUME TypeOK, OpenIsNewest, OwnAttempt, NEW w \in Workers,
           pc[w] \notin {"idle", "stopped"}, OwnsAttempt(w)
    PROVE  att[w] \in open /\ att[w].num = lastNum[att[w].job]
  BY DEF OpenIsNewest, OwnAttempt, OwnsAttempt

\* A job becomes completed only through the fenced update of complete_ingestion_job.
LEMMA CompletedOnlyByOwner ==
    ASSUME TypeOK, [Next]_vars, NEW j \in Jobs, status[j] # "completed", status'[j] = "completed"
    PROVE  \E w \in Workers : CompleteJob(w) /\ Fenced(w) /\ att[w].job = j
<1>1. ASSUME NEW w \in Workers, ExecuteJob(w)
      PROVE  CompleteJob(w) /\ Fenced(w) /\ att[w].job = j
  BY <1>1 DEF ExecuteJob, MarkRunning, CreateRun, LoadCheckpoint, Backfill, CommitBatch,
     RecordRun, CompleteJob, FailJob, AbortJob, Finish, CloseAttempt, Notify, Leave,
     SetStatus, jobVars, TypeOK
<1>2. ASSUME NEW w \in Workers, Heartbeat(w) \/ Shutdown(w) \/ Exit(w) PROVE FALSE
  BY <1>2 DEF Heartbeat, Shutdown, Exit, jobVars
<1>3. ASSUME NEW w \in Workers, NEW k \in Jobs, Claim(w, k) PROVE FALSE
  BY <1>3 DEF Claim, TypeOK
<1>4. ASSUME NEW k \in Jobs, Enqueue(k) PROVE FALSE
  BY <1>4 DEF Enqueue, TypeOK
<1>5. ASSUME NEW a \in fresh, Expire(a) PROVE FALSE
  BY <1>5 DEF Expire
<1>6. ASSUME UNCHANGED vars PROVE FALSE
  BY <1>6 DEF vars, jobVars
<1> QED
  BY <1>1, <1>2, <1>3, <1>4, <1>5, <1>6 DEF Next

LEMMA CompletedJobCommittedStep ==
    /\ TypeOK /\ OpenIsNewest /\ OwnAttempt /\ SuccessPath /\ CompletedJobCommitted
    /\ [Next]_vars
    => CompletedJobCommitted'
<1> SUFFICES ASSUME TypeOK, OpenIsNewest, OwnAttempt, SuccessPath, CompletedJobCommitted,
                    [Next]_vars, NEW j \in Jobs, status'[j] = "completed"
             PROVE  \E c \in commits' : c.att.job = j /\ c.att.num = lastNum'[j]
  BY DEF CompletedJobCommitted
<1>1. CASE status[j] = "completed"
  <2>1. ASSUME NEW w \in Workers, NEW k \in Jobs, Claim(w, k) PROVE lastNum'[j] = lastNum[j]
    BY <1>1, <2>1 DEF Claim, Claimable, Active, TypeOK
  <2>2. lastNum'[j] = lastNum[j]
    <3>1. CASE \E w \in Workers, k \in Jobs : Claim(w, k)
      BY <2>1, <3>1
    <3>2. CASE ~ \E w \in Workers, k \in Jobs : Claim(w, k)
      BY <3>2, OpenOnlyByClaim
    <3> QED
      BY <3>1, <3>2
  <2> QED
    BY <1>1, <2>2, Monotone DEF CompletedJobCommitted
<1>2. CASE status[j] # "completed"
  <2>1. PICK w \in Workers : CompleteJob(w) /\ Fenced(w) /\ att[w].job = j
    BY <1>2, CompletedOnlyByOwner
  <2>2. pc[w] = "complete" /\ OwnsAttempt(w) /\ lastNum' = lastNum
    BY <2>1 DEF CompleteJob, Fenced, Finish
  <2>3. att[w].num = lastNum[j]
    BY <2>1, <2>2, FenceIsEpoch
  <2>4. PICK c \in commits : c.att = att[w]
    BY <2>2 DEF SuccessPath, Committed
  <2> QED
    BY <2>1, <2>2, <2>3, <2>4, Monotone
<1> QED
  BY <1>1, <1>2

LEMMA SuccessIsCommittedStep ==
    TypeOK /\ SuccessPath /\ SuccessIsCommitted /\ [Next]_vars => SuccessIsCommitted'
<1> SUFFICES ASSUME TypeOK, SuccessPath, SuccessIsCommitted, [Next]_vars
             PROVE  SuccessIsCommitted'
  OBVIOUS
<1> DEFINE Durable(a) == \E c \in commits' : c.att = a
<1>1. \A a : Committed(a) => Durable(a)
  BY Monotone DEF Committed
<1>2. ASSUME NEW r \in runs', r.status = "completed" PROVE Durable(r.att)
  <2>1. CASE r \in runs
    BY <1>1, <1>2, <2>1 DEF SuccessIsCommitted
  <2>2. ASSUME NEW w \in Workers, CommitBatch(w), r \notin runs PROVE Durable(r.att)
    <3>1. CommitTx(w)
      BY <2>2 DEF CommitBatch, dataVars
    <3>2. r.att = att[w] /\ Batch(w) \in commits' /\ Batch(w).att = att[w]
      BY <1>2, <2>2, <3>1 DEF CommitTx, SetRun, Batch
    <3> QED
      BY <3>2
  <2>3. ASSUME NEW w \in Workers, RecordRun(w), r \notin runs PROVE Durable(r.att)
    <3>1. r.att = att[w] /\ pc[w] = "ok"
      BY <1>2, <2>3 DEF RecordRun, SetRun
    <3> QED
      BY <1>1, <3>1 DEF SuccessPath
  <2>4. ASSUME NEW w \in Workers, ExecuteJob(w), ~ CommitBatch(w), ~ RecordRun(w), r \notin runs
        PROVE  FALSE
    BY <1>2, <2>4 DEF ExecuteJob, MarkRunning, CreateRun, LoadCheckpoint, Backfill, SetRun,
       CompleteJob, FailJob, AbortJob, Finish, CloseAttempt, Notify, Leave, dataVars
  <2>5. ASSUME NEW w \in Workers, Heartbeat(w) \/ Shutdown(w) \/ Exit(w) PROVE r \in runs
    BY <2>5 DEF Heartbeat, Shutdown, Exit, dataVars
  <2>6. ASSUME NEW w \in Workers, NEW j \in Jobs, Claim(w, j) PROVE r \in runs
    BY <2>6 DEF Claim, dataVars
  <2>7. ASSUME NEW j \in Jobs, Enqueue(j) PROVE r \in runs
    BY <2>7 DEF Enqueue, dataVars
  <2>8. ASSUME NEW a \in fresh, Expire(a) PROVE r \in runs
    BY <2>8 DEF Expire, dataVars
  <2>9. ASSUME UNCHANGED vars PROVE r \in runs
    BY <2>9 DEF vars, dataVars
  <2> QED
    BY <2>1, <2>2, <2>3, <2>4, <2>5, <2>6, <2>7, <2>8, <2>9 DEF Next
<1>3. ASSUME NEW m \in callbacks', m[2] = "completed" PROVE Durable(m[1])
  <2>1. CASE m \in callbacks
    BY <1>1, <1>3, <2>1 DEF SuccessIsCommitted
  <2>2. ASSUME NEW w \in Workers, Notify(w), m \notin callbacks PROVE Durable(m[1])
    <3>1. m[1] = att[w] /\ pc[w] = "notify_ok"
      BY <1>3, <2>2 DEF Notify
    <3> QED
      BY <1>1, <3>1 DEF SuccessPath
  <2>3. ASSUME NEW w \in Workers, ExecuteJob(w), ~ Notify(w) PROVE m \in callbacks
    BY <2>3 DEF ExecuteJob, MarkRunning, CreateRun, LoadCheckpoint, Backfill, CommitBatch,
       RecordRun, CompleteJob, FailJob, AbortJob, Finish, CloseAttempt, Leave
  <2>4. ASSUME NEW w \in Workers, Heartbeat(w) \/ Shutdown(w) \/ Exit(w) PROVE m \in callbacks
    BY <2>4 DEF Heartbeat, Shutdown, Exit
  <2>5. ASSUME NEW w \in Workers, NEW j \in Jobs, Claim(w, j) PROVE m \in callbacks
    BY <2>5 DEF Claim
  <2>6. ASSUME NEW j \in Jobs, Enqueue(j) PROVE m \in callbacks
    BY <2>6 DEF Enqueue
  <2>7. ASSUME NEW a \in fresh, Expire(a) PROVE m \in callbacks
    BY <2>7 DEF Expire
  <2>8. ASSUME UNCHANGED vars PROVE m \in callbacks
    BY <2>8 DEF vars
  <2> QED
    BY <2>1, <2>2, <2>3, <2>4, <2>5, <2>6, <2>7, <2>8 DEF Next
<1> QED
  BY <1>2, <1>3 DEF SuccessIsCommitted, Committed

-----------------------------------------------------------------------------
(* Theorems *)

\* The inductive invariant holds in every reachable state: leases, attempts,
\* committed batches and cursors stay consistent through every interleaving of
\* claims, heartbeats, expiries, failed calls and exits.
THEOREM InductiveInvariant == Spec => []IInv
<1>1. Init => IInv
  <2> SUFFICES ASSUME Init PROVE IInv
    OBVIOUS
  <2>1. TypeOK
    BY ConstantsAssumption, NoAttemptType DEF Init, TypeOK, Active, Terminal, Locations
  <2>2. OpenIsNewest /\ OwnAttempt /\ SuccessPath /\ CursorCovered /\ CompletedJobCommitted
    BY DEF Init, OpenIsNewest, OwnAttempt, SuccessPath, CursorCovered, CompletedJobCommitted
  <2>3. SuccessIsCommitted
    BY DEF Init, SuccessIsCommitted
  <2>4. CheckpointCovered
    BY ConstantsAssumption DEF Init, CheckpointCovered
  <2> QED
    BY <2>1, <2>2, <2>3, <2>4 DEF IInv
<1>2. IInv /\ [Next]_vars => IInv'
  BY TypeStep, OpenIsNewestStep, OwnAttemptStep, SuccessPathStep, CursorCoveredStep,
     CompletedJobCommittedStep, SuccessIsCommittedStep, CheckpointCoveredStep DEF IInv
<1> QED
  BY <1>1, <1>2, PTL DEF Spec

\* Every record up to a wallet's checkpoint is durable and queued for
\* materialization, in every reachable state (commit_connector_batch).
THEOREM CheckpointSafety == Spec => []CheckpointCovered
<1>1. IInv => CheckpointCovered
  BY DEF IInv
<1> QED
  BY <1>1, InductiveInvariant, PTL

\* A completed job's newest attempt committed its batch (complete_ingestion_job).
THEOREM CompletionSafety == Spec => []CompletedJobCommitted
<1>1. IInv => CompletedJobCommitted
  BY DEF IInv
<1> QED
  BY <1>1, InductiveInvariant, PTL

\* A completed run or a 'completed' callback means a durable batch (execute_job).
THEOREM SuccessSafety == Spec => []SuccessIsCommitted
<1>1. IInv => SuccessIsCommitted
  BY DEF IInv
<1> QED
  BY <1>1, InductiveInvariant, PTL

\* A batch is new only if a worker committed it under a lease that is the
\* newest attempt at an unfinished job.
LEMMA NewCommitIsFenced ==
    ASSUME IInv, [Next]_vars, NEW c \in commits' \ commits
    PROVE  \E w \in Workers : /\ CommitBatch(w) /\ Fenced(w) /\ CommitTx(w)
                              /\ c = Batch(w) /\ c.att = att[w]
                              /\ att[w].num = lastNum[att[w].job]
<1> USE DEF IInv
<1>1. ASSUME NEW w \in Workers, CommitBatch(w)
      PROVE  /\ CommitBatch(w) /\ Fenced(w) /\ CommitTx(w)
             /\ c = Batch(w) /\ c.att = att[w]
             /\ att[w].num = lastNum[att[w].job]
  <2>1. CommitTx(w) /\ Fenced(w)
    BY <1>1 DEF CommitBatch, dataVars
  <2>2. c = Batch(w) /\ c.att = att[w]
    BY <2>1 DEF CommitTx, Batch
  <2>3. att[w].num = lastNum[att[w].job]
    BY <1>1, <2>1, FenceIsEpoch DEF CommitBatch, Fenced
  <2> QED
    BY <1>1, <2>1, <2>2, <2>3
<1>2. ASSUME NEW w \in Workers, ExecuteJob(w), ~ CommitBatch(w) PROVE FALSE
  BY <1>2 DEF ExecuteJob, MarkRunning, CreateRun, LoadCheckpoint, Backfill, RecordRun,
     CompleteJob, FailJob, AbortJob, Finish, CloseAttempt, Notify, Leave, dataVars
<1>3. ASSUME NEW w \in Workers, Heartbeat(w) \/ Shutdown(w) \/ Exit(w) PROVE FALSE
  BY <1>3 DEF Heartbeat, Shutdown, Exit, dataVars
<1>4. ASSUME NEW w \in Workers, NEW j \in Jobs, Claim(w, j) PROVE FALSE
  BY <1>4 DEF Claim, dataVars
<1>5. ASSUME NEW j \in Jobs, Enqueue(j) PROVE FALSE
  BY <1>5 DEF Enqueue, dataVars
<1>6. ASSUME NEW a \in fresh, Expire(a) PROVE FALSE
  BY <1>6 DEF Expire, dataVars
<1>7. ASSUME UNCHANGED vars PROVE FALSE
  BY <1>7 DEF vars, dataVars
<1> QED
  BY <1>1, <1>2, <1>3, <1>4, <1>5, <1>6, <1>7 DEF Next

\* Fencing by worker id is fencing by attempt number: no superseded attempt
\* ever makes a batch durable (claim_ingestion_job, commit_connector_batch).
THEOREM CommitsAreFenced == Spec => FencedCommit
<1>1. IInv /\ [Next]_vars => NewCommitsAreFenced
  BY NewCommitIsFenced DEF Fenced, NewCommitsAreFenced
<1> QED
  BY <1>1, InductiveInvariant, PTL DEF Spec, FencedCommit

-----------------------------------------------------------------------------
(* The queue implements FencedQueue *)

\* The abstract effects of a set of batches.
EffectsOf(C) == {<<c.att.job, c.att.num>> : c \in C}

LEMMA EffectsOfUnion ==
    ASSUME NEW C, NEW b
    PROVE  EffectsOf(C \cup {b}) = EffectsOf(C) \cup {<<b.att.job, b.att.num>>}
  BY Zenon DEF EffectsOf

\* Every step of the queue and its workers is a step of FencedQueue or none.
LEMMA QueueStep == ASSUME IInv, [Next]_vars PROVE [Queue!Next]_(Queue!vars)
<1> DEFINE phase == [j \in Jobs |-> CASE status[j] = "pending" -> "queued"
                                     [] status[j] \in Active -> "leased"
                                     [] OTHER -> status[j]]
<1> USE DEF IInv
<1>0. ASSUME status' = status, lastNum' = lastNum, commits' = commits
      PROVE  UNCHANGED Queue!vars
  BY <1>0 DEF Queue!vars
<1>1. ASSUME NEW j \in Jobs, Enqueue(j) PROVE Queue!Submit(j)
  BY <1>1 DEF Enqueue, Queue!Submit, dataVars, TypeOK, Active
<1>2. ASSUME NEW w \in Workers, NEW j \in Jobs, Claim(w, j) PROVE Queue!Lease(j)
  BY <1>2 DEF Claim, Claimable, Queue!Lease, dataVars, TypeOK, Active
<1>3. ASSUME NEW a \in fresh, Expire(a) PROVE UNCHANGED Queue!vars
  BY <1>0, <1>3 DEF Expire, dataVars
<1>4. ASSUME NEW w \in Workers, Heartbeat(w) \/ Shutdown(w) \/ Exit(w) PROVE UNCHANGED Queue!vars
  BY <1>0, <1>4 DEF Heartbeat, Shutdown, Exit, jobVars, dataVars
<1>5. ASSUME NEW w \in Workers, MarkRunning(w) PROVE UNCHANGED Queue!vars
  BY <1>5 DEF MarkRunning, SetStatus, Queue!vars, dataVars, TypeOK, Active
<1>6. ASSUME NEW w \in Workers, CreateRun(w) \/ LoadCheckpoint(w) \/ Backfill(w) \/ RecordRun(w)
                                \/ CloseAttempt(w) \/ Notify(w) \/ Leave(w)
      PROVE  UNCHANGED Queue!vars
  BY <1>0, <1>6 DEF CreateRun, LoadCheckpoint, Backfill, RecordRun, CloseAttempt, Notify, Leave,
     jobVars, dataVars
<1>7. ASSUME NEW w \in Workers, NEW j \in Jobs, j = att[w].job, CommitBatch(w)
      PROVE  Queue!Effect(j) \/ UNCHANGED Queue!vars
  <2>1. CASE commits' = commits
    BY <1>0, <1>7, <2>1 DEF CommitBatch, jobVars
  <2>2. CASE commits' # commits
    <3>1. commits' = commits \cup {Batch(w)} /\ Fenced(w)
      BY <1>7, <2>2 DEF CommitBatch, CommitTx, dataVars
    <3>2. att[w].num = lastNum[att[w].job]
      BY <1>7, <3>1, FenceIsEpoch DEF CommitBatch, Fenced
    <3>3. EffectsOf(commits') = EffectsOf(commits) \cup {<<att[w].job, lastNum[att[w].job]>>}
      <4>1. Batch(w).att = att[w]
        BY DEF Batch
      <4>2. EffectsOf(commits \cup {Batch(w)})
               = EffectsOf(commits) \cup {<<Batch(w).att.job, Batch(w).att.num>>}
        BY EffectsOfUnion
      <4>3. Batch(w).att.job = att[w].job /\ Batch(w).att.num = lastNum[att[w].job]
        BY <3>2, <4>1
      <4> QED
        BY <3>1, <4>2, <4>3, Zenon
    <3>4. att[w].job \in Jobs /\ phase[att[w].job] = "leased"
      BY <3>1 DEF Fenced, TypeOK, Attempts, Active
    <3>5. UNCHANGED <<status, lastNum>>
      BY <1>7 DEF CommitBatch, jobVars
    <3> QED
      BY <1>7, <3>3, <3>4, <3>5 DEF Queue!Effect, EffectsOf
  <2> QED
    BY <2>1, <2>2
<1>8. ASSUME NEW w \in Workers, NEW j \in Jobs, j = att[w].job, CompleteJob(w)
      PROVE  Queue!Complete(j) \/ UNCHANGED Queue!vars
  <2>1. UNCHANGED <<lastNum, commits>> /\ att[w].job \in Jobs
    BY <1>8 DEF CompleteJob, Finish, dataVars, TypeOK, Attempts
  <2>2. CASE status' = status
    BY <1>0, <2>1, <2>2
  <2>3. CASE status' # status
    <3>1. Fenced(w) /\ SetStatus(w, "completed")
      BY <1>8, <2>3 DEF CompleteJob, Finish
    <3>2. att[w].num = lastNum[att[w].job]
      BY <1>8, <3>1, FenceIsEpoch DEF CompleteJob, Fenced
    <3>3. PICK c \in commits : c.att = att[w]
      BY <1>8 DEF CompleteJob, SuccessPath, Committed
    <3>4. <<att[w].job, lastNum[att[w].job]>> \in EffectsOf(commits)
      BY <3>2, <3>3 DEF EffectsOf
    <3>5. phase[att[w].job] = "leased" /\ phase' = [phase EXCEPT ![att[w].job] = "completed"]
      BY <2>1, <3>1 DEF Fenced, SetStatus, TypeOK, Active
    <3> QED
      BY <1>8, <2>1, <3>4, <3>5 DEF Queue!Complete, EffectsOf
  <2> QED
    BY <2>2, <2>3
<1>9. ASSUME NEW w \in Workers, NEW j \in Jobs, j = att[w].job, FailJob(w) \/ AbortJob(w)
      PROVE  Queue!Fail(j) \/ UNCHANGED Queue!vars
  <2>1. UNCHANGED <<lastNum, commits>> /\ att[w].job \in Jobs
    BY <1>9 DEF FailJob, AbortJob, Finish, dataVars, TypeOK, Attempts
  <2>2. CASE status' = status
    BY <1>0, <2>1, <2>2
  <2>3. CASE status' # status
    <3>1. Fenced(w) /\ SetStatus(w, "failed")
      BY <1>9, <2>3 DEF FailJob, AbortJob, Finish
    <3>2. phase[att[w].job] = "leased" /\ phase' = [phase EXCEPT ![att[w].job] = "failed"]
      BY <2>1, <3>1 DEF Fenced, SetStatus, TypeOK, Active
    <3> QED
      BY <1>9, <2>1, <3>2 DEF Queue!Fail
  <2> QED
    BY <2>2, <2>3
<1>10. ASSUME UNCHANGED vars PROVE UNCHANGED Queue!vars
  BY <1>0, <1>10 DEF vars, jobVars, dataVars
<1>11. ASSUME NEW w \in Workers PROVE att[w].job \in Jobs
  BY DEF TypeOK, Attempts
<1>12. ASSUME NEW w \in Workers, ExecuteJob(w) PROVE Queue!Next \/ UNCHANGED Queue!vars
  <2>1. PICK j \in Jobs : j = att[w].job
    BY <1>11
  <2>2. Queue!Effect(j) \/ Queue!Complete(j) \/ Queue!Fail(j) \/ UNCHANGED Queue!vars
    BY <1>5, <1>6, <1>7, <1>8, <1>9, <1>12, <2>1 DEF ExecuteJob
  <2> QED
    BY <2>2 DEF Queue!Next
<1>13. ASSUME NEW w \in Workers, NEW j \in Jobs, Claim(w, j) PROVE Queue!Next
  BY <1>2, <1>13 DEF Queue!Next
<1>14. ASSUME NEW j \in Jobs, Enqueue(j) PROVE Queue!Next
  BY <1>1, <1>14 DEF Queue!Next
<1> QED
  BY <1>3, <1>4, <1>10, <1>12, <1>13, <1>14 DEF Next

\* The ingestion tables, workers, leases and failures implement the fenced
\* queue: an attempt is an epoch, a committed batch its effect.
THEOREM QueueRefinement == Spec => ImplementsFencedQueue
<1>1. Init => Queue!Init
  BY DEF Init, Queue!Init, Active
<1> QED
  BY <1>1, QueueStep, InductiveInvariant, PTL DEF Spec, ImplementsFencedQueue, Queue!Spec
=============================================================================
