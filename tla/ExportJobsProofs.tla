-------------------------- MODULE ExportJobsProofs --------------------------
(* Proofs about ExportJobs, for any number of workers and jobs, and about     *)
(* ExportStream, for any table, page size, channel capacity and hard cap.     *)
EXTENDS ExportJobs, ExportStream, FiniteSetTheorems, SequenceTheorems, TLAPS

LEMMA NoFileType == NoFile \in Files /\ ~ NoFile.full /\ NoFile.num = 0
  BY DEF NoFile, Files

\* Writing one's temp file keeps the directory well typed.
LEMMA SetTempType ==
    ASSUME TypeOK, NEW w \in Workers, NEW f \in Files, SetTemp(w, f)
    PROVE  temp' \in [Jobs -> [Workers -> Files]]
  BY DEF TypeOK, SetTemp, AttemptTemp

\* The temp path is scoped by worker: writing one's own leaves the others alone.
LEMMA SetTempOwn ==
    ASSUME TypeOK, NEW w \in Workers, NEW f \in Files, SetTemp(w, f), NEW v \in Workers, v # w
    PROVE  temp'[job[v]][v] = temp[job[v]][v]
<1>1. job[w] \in Jobs /\ job[v] \in Jobs
  BY DEF TypeOK
<1>2. temp' = [temp EXCEPT ![job[w]] = [temp[job[w]] EXCEPT ![w] = f]]
  BY <1>1 DEF SetTemp, AttemptTemp, TypeOK
<1>3. CASE job[v] = job[w]
  <2>1. temp'[job[v]] = [temp[job[w]] EXCEPT ![w] = f]
    BY <1>1, <1>2, <1>3 DEF TypeOK
  <2> QED
    BY <1>1, <1>3, <2>1 DEF TypeOK
<1>4. CASE job[v] # job[w]
  BY <1>1, <1>2, <1>4 DEF TypeOK
<1> QED
  BY <1>3, <1>4

LocalsType ==
    /\ pc \in [Workers -> Locations]
    /\ job \in [Workers -> Jobs]
    /\ num \in [Workers -> Nat]
    /\ heartbeat \in [Workers -> BOOLEAN]
    /\ leaseLost \in [Workers -> BOOLEAN]

\* Leaving execute_export_job keeps the worker's locals well typed.
LEMMA ReturnType == ASSUME TypeOK, NEW w \in Workers, Return(w) PROVE LocalsType'
<1>1. heartbeat' \in [Workers -> BOOLEAN] /\ leaseLost' \in [Workers -> BOOLEAN]
  BY DEF Return, TypeOK
<1> QED
  BY <1>1 DEF Return, Goto, TypeOK, LocalsType, Locations

\* What a worker at l or on its way out does to its locals.
LEMMA GotoType ==
    ASSUME TypeOK, NEW w \in Workers, NEW l \in Locations, Goto(w, l), KeepLocals
    PROVE  LocalsType'
  BY DEF Goto, KeepLocals, TypeOK, LocalsType

\* A status update leaves a status the schema knows.
LEMMA UpdateType ==
    ASSUME TypeOK, NEW w \in Workers, NEW s \in Active \cup Terminal, NEW ok, NEW err,
           UpdateOrAbort(w, s, ok, err)
    PROVE  /\ status' \in [Jobs -> {"absent", "pending"} \cup Active \cup Terminal]
           /\ faults' \in 0..MaxFaults
<1>1. status' = status \/ status' = [status EXCEPT ![job[w]] = s]
  BY DEF UpdateOrAbort
<1>2. status' \in [Jobs -> {"absent", "pending"} \cup Active \cup Terminal]
  BY <1>1 DEF TypeOK
<1>3. faults' \in 0..MaxFaults
  BY ConstantsAssumption DEF UpdateOrAbort, Fault, NoFault, TypeOK
<1> QED
  BY <1>2, <1>3

LEMMA TypeStep == TypeOK /\ [Next]_vars => TypeOK'
<1> SUFFICES ASSUME TypeOK, [Next]_vars PROVE TypeOK'
  OBVIOUS
<1> USE ConstantsAssumption DEF Active, Terminal, Fault, NoFault
<1>1. ASSUME NEW j \in Jobs, Enqueue(j) PROVE TypeOK'
  BY <1>1 DEF Enqueue, TypeOK, fileVars, execVars
<1>2. ASSUME NEW j \in Jobs, Expire(j) PROVE TypeOK'
  BY <1>2 DEF Expire, TypeOK, fileVars, execVars
<1>3. ASSUME NEW w \in Workers, NEW j \in Jobs, Claim(w, j) PROVE TypeOK'
  <2>1. heartbeat' \in [Workers -> BOOLEAN]
    BY <1>3 DEF Claim, TypeOK
  <2>2. /\ status' \in [Jobs -> {"absent", "pending"} \cup Active \cup Terminal]
        /\ owner' \in [Jobs -> Workers \cup {NoWorker}]
        /\ lease' \in [Jobs -> Nat] /\ fresh' \subseteq Jobs
    BY <1>3 DEF Claim, TypeOK
  <2>3. pc' \in [Workers -> Locations] /\ job' \in [Workers -> Jobs]
    <3>1. pc' = pc \/ pc' = [pc EXCEPT ![w] = "prepare"]
      BY <1>3 DEF Claim, Goto
    <3>2. job' = job \/ job' = [job EXCEPT ![w] = j]
      BY <1>3 DEF Claim
    <3>3. pc \in [Workers -> Locations] /\ job \in [Workers -> Jobs] /\ "prepare" \in Locations
      BY DEF TypeOK, Locations
    <3>4. pc' \in [Workers -> Locations]
      BY <3>1, <3>3
    <3>5. job' \in [Workers -> Jobs]
      BY <3>2, <3>3
    <3> QED
      BY <3>4, <3>5
  <2>4. num' \in [Workers -> Nat]
    BY <1>3, SMTT(20) DEF Claim, TypeOK
  <2>5. faults' \in 0..MaxFaults
    BY <1>3 DEF Claim, TypeOK
  <2> QED
    BY <1>3, <2>1, <2>2, <2>3, <2>4, <2>5 DEF Claim, TypeOK, fileVars
<1>4. ASSUME NEW w \in Workers, Heartbeat(w) PROVE TypeOK'
  <2>1. heartbeat' \in [Workers -> BOOLEAN] /\ leaseLost' \in [Workers -> BOOLEAN]
    BY <1>4 DEF Heartbeat, TypeOK
  <2> QED
    BY <1>4, <2>1 DEF Heartbeat, TypeOK, fileVars
<1>5. ASSUME NEW w \in Workers,
             Prepare(w) \/ CheckLease(w) \/ WriteSidecar(w) \/ CheckSidecar(w) \/ Shutdown(w)
      PROVE  TypeOK'
  <2>1. LocalsType'
    <3>1. CASE Return(w)
      BY <3>1, ReturnType
    <3>2. CASE \E l \in Locations : Goto(w, l) /\ KeepLocals
      BY <3>2, GotoType
    <3> QED
      BY <1>5, <3>1, <3>2 DEF Prepare, CheckLease, WriteSidecar, CheckSidecar, Shutdown, Locations
  <2> QED
    BY <1>5, <2>1 DEF Prepare, CheckLease, WriteSidecar, CheckSidecar, Shutdown,
                      TypeOK, LocalsType, rowVars, fileVars
<1>6. ASSUME NEW w \in Workers, OpenTemp(w) \/ WritePages(w) PROVE TypeOK'
  <2>1. LocalsType'
    BY <1>6, GotoType DEF OpenTemp, WritePages, Locations
  <2>2. [num |-> num[w], full |-> FALSE] \in Files /\ [num |-> num[w], full |-> TRUE] \in Files
    BY DEF TypeOK, Files
  <2>3. temp' \in [Jobs -> [Workers -> Files]]
    BY <1>6, <2>2, SetTempType DEF OpenTemp, WritePages, TypeOK
  <2> QED
    BY <1>6, <2>1, <2>3 DEF OpenTemp, WritePages, TypeOK, LocalsType, rowVars
<1>7. ASSUME NEW w \in Workers, Confirm(w) PROVE TypeOK'
  <2>1. LocalsType'
    BY <1>7, GotoType DEF Confirm, UpdateOrAbort, Locations
  <2> QED
    <3>1. /\ status' \in [Jobs -> {"absent", "pending"} \cup Active \cup Terminal]
          /\ faults' \in 0..MaxFaults
      BY <1>7, UpdateType DEF Confirm
    <3> QED
      BY <1>7, <2>1, <3>1 DEF Confirm, TypeOK, LocalsType, fileVars
<1>8. ASSUME NEW w \in Workers, Publish(w) PROVE TypeOK'
  <2>1. LocalsType'
    BY <1>8, GotoType DEF Publish, Locations
  <2>2. temp' \in [Jobs -> [Workers -> Files]]
    BY <1>8, NoFileType, SetTempType DEF Publish, TypeOK
  <2>3. final' \in [Jobs -> Files]
    <3>1. job[w] \in Jobs /\ Temp(w) \in Files
      BY DEF TypeOK, Temp, AttemptTemp
    <3>2. final' = final \/ final' = [final EXCEPT ![job[w]] = Temp(w)]
      BY <1>8 DEF Publish
    <3> QED
      BY <3>1, <3>2 DEF TypeOK
  <2> QED
    BY <1>8, <2>1, <2>2, <2>3 DEF Publish, TypeOK, LocalsType, rowVars
<1>9. ASSUME NEW w \in Workers, PublishSidecar(w) PROVE TypeOK'
  <2>1. LocalsType'
    BY <1>9, GotoType DEF PublishSidecar, Locations
  <2> QED
    BY <1>9, <2>1 DEF PublishSidecar, TypeOK, LocalsType, rowVars
<1>10. ASSUME NEW w \in Workers, Deliver(w) PROVE TypeOK'
  <2>1. LocalsType'
    BY <1>10, GotoType DEF Deliver, Locations
  <2>2. Delivery(w) \in [job : Jobs, num : Nat, file : Files]
    BY DEF Delivery, TypeOK
  <2> QED
    BY <1>10, <2>1, <2>2 DEF Deliver, TypeOK, LocalsType, rowVars
<1>11. ASSUME NEW w \in Workers, Complete(w) \/ Fail(w) PROVE TypeOK'
  <2>1. LocalsType'
    BY <1>11, ReturnType DEF Complete, Fail, UpdateOrAbort
  <2> QED
    <3>1. /\ status' \in [Jobs -> {"absent", "pending"} \cup Active \cup Terminal]
          /\ faults' \in 0..MaxFaults
      BY <1>11, UpdateType DEF Complete, Fail
    <3> QED
      BY <1>11, <2>1, <3>1 DEF Complete, Fail, TypeOK, LocalsType, fileVars
<1>12. ASSUME NEW w \in Workers, Discard(w) PROVE TypeOK'
  <2>1. LocalsType'
    BY <1>12, GotoType, ReturnType DEF Discard, Locations
  <2>2. temp' \in [Jobs -> [Workers -> Files]]
    BY <1>12, NoFileType, SetTempType DEF Discard, TypeOK
  <2> QED
    BY <1>12, <2>1, <2>2 DEF Discard, TypeOK, LocalsType, rowVars
<1>13. ASSUME NEW w \in Workers, Exit(w) PROVE TypeOK'
  BY <1>13 DEF Exit, TypeOK, rowVars, fileVars
<1>14. ASSUME UNCHANGED vars PROVE TypeOK'
  BY <1>14 DEF vars, rowVars, fileVars, execVars, TypeOK
<1> QED
  BY <1>1, <1>2, <1>3, <1>4, <1>5, <1>6, <1>7, <1>8, <1>9, <1>10, <1>11, <1>12, <1>13, <1>14
     DEF Next, ExecuteExportJob

LEMMA TypeInit == Init => TypeOK
<1> SUFFICES ASSUME Init PROVE TypeOK
  OBVIOUS
<1>1. \A w \in Workers : job[w] \in Jobs
  <2>1. (CHOOSE j \in Jobs : TRUE) \in Jobs
    BY ConstantsAssumption
  <2> QED
    BY <2>1 DEF Init
<1>2. job \in [Workers -> Jobs]
  BY <1>1 DEF Init
<1>3. heartbeat \in [Workers -> BOOLEAN] /\ leaseLost \in [Workers -> BOOLEAN]
  BY DEF Init
<1> QED
  BY <1>2, <1>3, NoFileType, ConstantsAssumption DEF Init, TypeOK, Locations

\* Rows, files and worker locals keep their types through every step.
THEOREM ExportTypeCorrect == Spec => []TypeOK
  BY TypeInit, TypeStep, PTL DEF Spec

-----------------------------------------------------------------------------
(* The inductive invariant *)

LEMMA InvInit == Init => EInv
<1> SUFFICES ASSUME Init PROVE EInv
  OBVIOUS
<1>1. TypeOK
  BY TypeInit
<1>2. OwnsNewest /\ TempIsWhole /\ PublishedStays
  BY DEF Init, OwnsNewest, TempIsWhole, PublishedStays, PastPublish, PastSidecar
<1>3. DownloadIsWhole /\ CompletedByNewestClaim
  BY ConstantsAssumption DEF Init, DownloadIsWhole, CompletedByNewestClaim
<1> QED
  BY <1>1, <1>2, <1>3 DEF EInv

\* Steps of the heartbeat, of time and of the API: no file and no location
\* changes, and no job gains an owner or is finished.
LEMMA QuietStep ==
    ASSUME EInv,
           UNCHANGED <<owner, lease, fileVars, pc, job, num>>,
           \A j \in Jobs : status'[j] = status[j] \/ status'[j] = "pending"
    PROVE  (OwnsNewest /\ TempIsWhole /\ PublishedStays /\ DownloadIsWhole /\ CompletedByNewestClaim)'
<1>1. OwnsNewest'
  BY DEF EInv, OwnsNewest, Owns, Active, TypeOK
<1>2. TempIsWhole' /\ PublishedStays'
  BY DEF EInv, TempIsWhole, PublishedStays, Temp, AttemptTemp, fileVars
<1>3. DownloadIsWhole' /\ CompletedByNewestClaim'
  BY ConstantsAssumption DEF EInv, DownloadIsWhole, CompletedByNewestClaim, fileVars
<1> QED
  BY <1>1, <1>2, <1>3

\* A claim: the new owner starts under the newest claim, and any worker still
\* at the job no longer owns it.
LEMMA ClaimStep ==
    ASSUME EInv, NEW w \in Workers, NEW j \in Jobs, Claim(w, j)
    PROVE  (OwnsNewest /\ TempIsWhole /\ PublishedStays /\ DownloadIsWhole /\ CompletedByNewestClaim)'
<1> USE DEF EInv
<1>1. /\ \A v \in Workers : v # w => pc'[v] = pc[v] /\ job'[v] = job[v] /\ num'[v] = num[v]
      /\ pc'[w] \in {"idle", "prepare"}
      /\ pc'[w] = "prepare" => job'[w] = j /\ num'[w] = lease[j] + 1
  BY DEF Claim, Goto, TypeOK
<1>2. /\ \A k \in Jobs : k # j => owner'[k] = owner[k] /\ status'[k] = status[k] /\ lease'[k] = lease[k]
      /\ owner'[j] = w /\ lease'[j] = lease[j] + 1 /\ status'[j] = "running"
  BY DEF Claim, TypeOK
<1>3. OwnsNewest'
  <2> SUFFICES ASSUME NEW v \in Workers, pc'[v] \notin {"idle", "stopped"}
               PROVE  num'[v] # 0 /\ (Owns(v)' => num'[v] = lease'[job'[v]])
    BY DEF OwnsNewest
  <2>1. CASE v = w
    BY <1>1, <1>2, <2>1 DEF TypeOK
  <2>2. CASE v # w
    BY <1>1, <1>2, <2>2 DEF OwnsNewest, Owns, TypeOK
  <2> QED
    BY <2>1, <2>2
<1>4. TempIsWhole' /\ PublishedStays'
  BY <1>1 DEF Claim, fileVars, TempIsWhole, PublishedStays, PastPublish, PastSidecar, Temp, AttemptTemp
<1>5. DownloadIsWhole' /\ CompletedByNewestClaim'
  BY <1>2, ConstantsAssumption DEF Claim, fileVars, DownloadIsWhole, CompletedByNewestClaim
<1> QED
  BY <1>3, <1>4, <1>5

\* What a step of execute_export_job does to the worker that takes it: its job
\* and claim stay, or it returns; other workers are not touched.
Moves(w) ==
    /\ \A v \in Workers : v # w => pc'[v] = pc[v] /\ num'[v] = num[v]
    /\ job' = job
    /\ pc[w] \notin {"idle", "stopped"}
    /\ pc'[w] \in {"idle", "stopped"} \/ num'[w] = num[w]

LEMMA ReturnMoves ==
    ASSUME TypeOK, NEW w \in Workers, Return(w), pc[w] \notin {"idle", "stopped"}
    PROVE  Moves(w) /\ pc'[w] = "idle"
  BY DEF Return, Goto, TypeOK, Moves

LEMMA GotoMoves ==
    ASSUME TypeOK, NEW w \in Workers, NEW l, Goto(w, l), KeepLocals, pc[w] \notin {"idle", "stopped"}
    PROVE  Moves(w) /\ pc'[w] = l
  BY DEF Goto, KeepLocals, TypeOK, Moves

\* As long as the row's owner and claim count stay and no status but this
\* worker's is changed, ownership is preserved.
LEMMA OwnsNewestKept ==
    ASSUME EInv, NEW w \in Workers, Moves(w), UNCHANGED <<owner, lease>>,
           \A j \in Jobs : status'[j] \in Active => status[j] \in Active
    PROVE  OwnsNewest'
  BY DEF EInv, Moves, OwnsNewest, Owns, TypeOK

\* Steps between two file operations: the location alone changes.
LEMMA LocalStep ==
    ASSUME EInv, NEW w \in Workers,
           Prepare(w) \/ CheckLease(w) \/ WriteSidecar(w) \/ CheckSidecar(w)
    PROVE  (OwnsNewest /\ TempIsWhole /\ PublishedStays /\ DownloadIsWhole /\ CompletedByNewestClaim)'
<1> USE DEF EInv
<1>1. Moves(w)
  <2>1. pc[w] \notin {"idle", "stopped"}
    BY DEF Prepare, CheckLease, WriteSidecar, CheckSidecar
  <2> QED
    BY <2>1, ReturnMoves, GotoMoves DEF Prepare, CheckLease, WriteSidecar, CheckSidecar
<1>2. UNCHANGED <<status, owner, lease, temp, final, sidecar, delivered>>
  BY DEF Prepare, CheckLease, WriteSidecar, CheckSidecar, rowVars, fileVars
<1>3. \/ pc[w] = "prepare" /\ pc'[w] \in {"open", "fail"}
      \/ pc[w] = "written" /\ pc'[w] \in {"discard", "confirm"}
      \/ pc[w] = "check" /\ pc'[w] \in {"discard", "publish"}
      \/ pc[w] = "sink_check" /\ pc'[w] \in {"idle", "sink"}
      \/ pc[w] = "sidecar" /\ pc'[w] \in {"sidecar_check", "fail"}
      \/ pc[w] = "sidecar_check" /\ pc'[w] \in {"sidecar_publish", "fail"}
  BY DEF Prepare, CheckLease, WriteSidecar, CheckSidecar, Goto, Return, TypeOK
<1>4. OwnsNewest'
  BY <1>1, <1>2, OwnsNewestKept
<1>5. TempIsWhole'
  BY <1>1, <1>2, <1>3 DEF Moves, TempIsWhole, Temp, AttemptTemp
<1>6. PublishedStays'
  BY <1>1, <1>2, <1>3 DEF Moves, PublishedStays, PastPublish, PastSidecar
<1>7. DownloadIsWhole' /\ CompletedByNewestClaim'
  BY <1>2 DEF DownloadIsWhole, CompletedByNewestClaim
<1> QED
  BY <1>4, <1>5, <1>6, <1>7

LEMMA ShutdownStep ==
    ASSUME EInv, NEW w \in Workers, Shutdown(w)
    PROVE  (OwnsNewest /\ TempIsWhole /\ PublishedStays /\ DownloadIsWhole /\ CompletedByNewestClaim)'
<1> USE DEF EInv
<1>1. /\ pc'[w] = "stopped" /\ \A v \in Workers : v # w => pc'[v] = pc[v]
      /\ UNCHANGED <<status, owner, lease, temp, final, sidecar, delivered, job, num>>
  BY DEF Shutdown, Goto, KeepLocals, rowVars, fileVars, TypeOK
<1>2. OwnsNewest' /\ TempIsWhole'
  BY <1>1 DEF OwnsNewest, Owns, TempIsWhole, Temp, AttemptTemp
<1>3. PublishedStays'
  BY <1>1 DEF PublishedStays, PastPublish, PastSidecar
<1>4. DownloadIsWhole' /\ CompletedByNewestClaim'
  BY <1>1 DEF DownloadIsWhole, CompletedByNewestClaim
<1> QED
  BY <1>2, <1>3, <1>4

\* Steps that write or remove a temp file: the worker's own, and nobody else's.
LEMMA TempStep ==
    ASSUME EInv, NEW w \in Workers, OpenTemp(w) \/ WritePages(w) \/ Discard(w)
    PROVE  (OwnsNewest /\ TempIsWhole /\ PublishedStays /\ DownloadIsWhole /\ CompletedByNewestClaim)'
<1> USE DEF EInv
<1>1. Moves(w)
  <2>1. pc[w] \notin {"idle", "stopped"}
    BY DEF OpenTemp, WritePages, Discard
  <2> QED
    BY <2>1, ReturnMoves, GotoMoves DEF OpenTemp, WritePages, Discard
<1>2. UNCHANGED <<status, owner, lease, final, sidecar, delivered>>
  BY DEF OpenTemp, WritePages, Discard, rowVars
<1>3. \/ pc'[w] \in {"write", "discard_fail", "idle", "fail"}
      \/ pc'[w] = "written" /\ SetTemp(w, [num |-> num[w], full |-> TRUE])
  BY DEF OpenTemp, WritePages, Discard, Goto, Return, TypeOK
<1>4. temp' = temp \/ \E f \in Files : SetTemp(w, f)
  <2>1. [num |-> num[w], full |-> FALSE] \in Files /\ [num |-> num[w], full |-> TRUE] \in Files
    BY DEF TypeOK, Files
  <2> QED
    BY <2>1, NoFileType DEF OpenTemp, WritePages, Discard
<1>5. OwnsNewest'
  BY <1>1, <1>2, OwnsNewestKept
<1>6. TempIsWhole'
  <2> SUFFICES ASSUME NEW v \in Workers, pc'[v] \in {"written", "confirm", "check", "publish"}
               PROVE  Temp(v)'.full
    BY DEF TempIsWhole
  <2>1. CASE v = w
    BY <1>1, <1>3, <2>1 DEF SetTemp, Temp, AttemptTemp, Moves, TypeOK
  <2>2. CASE v # w
    <3>1. temp'[job[v]][v] = temp[job[v]][v]
      BY <1>4, <2>2, SetTempOwn
    <3> QED
      BY <1>1, <2>2, <3>1 DEF TempIsWhole, Temp, AttemptTemp, Moves
  <2> QED
    BY <2>1, <2>2
<1>7. PublishedStays'
  BY <1>1, <1>2, <1>3 DEF Moves, PublishedStays, PastPublish, PastSidecar
<1>8. DownloadIsWhole' /\ CompletedByNewestClaim'
  BY <1>2 DEF DownloadIsWhole, CompletedByNewestClaim
<1> QED
  BY <1>5, <1>6, <1>7, <1>8

\* Status updates: fenced by worker id, so a completion is made under the
\* newest claim.
LEMMA UpdateStep ==
    ASSUME EInv, NEW w \in Workers, Confirm(w) \/ Complete(w) \/ Fail(w)
    PROVE  (OwnsNewest /\ TempIsWhole /\ PublishedStays /\ DownloadIsWhole /\ CompletedByNewestClaim)'
<1> USE DEF EInv
<1>1. Moves(w)
  <2>1. pc[w] \notin {"idle", "stopped"}
    BY DEF Confirm, Complete, Fail
  <2> QED
    BY <2>1, ReturnMoves, GotoMoves DEF Confirm, Complete, Fail, UpdateOrAbort
<1>2. UNCHANGED <<owner, lease, temp, final, sidecar, delivered>>
  BY DEF Confirm, Complete, Fail, fileVars
<1>3. \/ status' = status
      \/ Owns(w) /\ pc[w] = "confirm" /\ status' = [status EXCEPT ![job[w]] = "delivering"]
      \/ Owns(w) /\ pc[w] = "complete" /\ status' = [status EXCEPT ![job[w]] = "completed"]
      \/ Owns(w) /\ pc[w] = "fail" /\ status' = [status EXCEPT ![job[w]] = "failed"]
  BY DEF Confirm, Complete, Fail, UpdateOrAbort
<1>4. \/ pc'[w] = "idle"
      \/ pc[w] = "confirm" /\ pc'[w] \in {"check", "discard"}
  BY DEF Confirm, Complete, Fail, UpdateOrAbort, Goto, Return, TypeOK
<1>5. OwnsNewest'
  <2>1. \A j \in Jobs : status'[j] \in Active => status[j] \in Active
    BY <1>3 DEF Owns, Active, TypeOK
  <2> QED
    BY <1>1, <1>2, <2>1, OwnsNewestKept
<1>6. TempIsWhole'
  BY <1>1, <1>2, <1>4 DEF Moves, TempIsWhole, Temp, AttemptTemp
<1>7. PublishedStays'
  BY <1>1, <1>2, <1>4 DEF Moves, PublishedStays, PastPublish, PastSidecar
<1>8. ASSUME NEW j \in Jobs, status'[j] = "completed", status[j] # "completed"
      PROVE  job[w] = j /\ pc[w] = "complete" /\ Owns(w)
  BY <1>3, <1>8 DEF TypeOK
<1>9. DownloadIsWhole'
  BY <1>2, <1>8 DEF DownloadIsWhole, PublishedStays, PastPublish, PastSidecar
<1>10. CompletedByNewestClaim'
  <2> SUFFICES ASSUME NEW j \in Sinks, status'[j] = "completed"
               PROVE  \E d \in delivered : d.job = j /\ d.num = lease[j]
    BY <1>2 DEF CompletedByNewestClaim
  <2>1. CASE status[j] = "completed"
    BY <2>1 DEF CompletedByNewestClaim
  <2>2. CASE status[j] # "completed"
    <3>1. job[w] = j /\ pc[w] = "complete" /\ Owns(w)
      BY <1>8, <2>2, ConstantsAssumption
    <3>2. num[w] = lease[j]
      BY <3>1 DEF OwnsNewest
    <3> QED
      BY <3>1, <3>2 DEF PublishedStays
  <2> QED
    BY <2>1, <2>2
<1> QED
  BY <1>5, <1>6, <1>7, <1>9, <1>10

\* The rename: a whole temp file takes the place of whatever was published.
LEMMA PublishStep ==
    ASSUME EInv, NEW w \in Workers, Publish(w)
    PROVE  (OwnsNewest /\ TempIsWhole /\ PublishedStays /\ DownloadIsWhole /\ CompletedByNewestClaim)'
<1> USE DEF EInv
<1>1. Moves(w) /\ pc[w] = "publish" /\ pc'[w] \in {"sidecar", "discard_fail"}
  BY GotoMoves DEF Publish
<1>2. UNCHANGED <<status, owner, lease, sidecar, delivered>>
  BY DEF Publish, rowVars
<1>3. /\ pc'[w] = "sidecar" => final' = [final EXCEPT ![job[w]] = Temp(w)] /\ SetTemp(w, NoFile)
      /\ pc'[w] = "discard_fail" => UNCHANGED <<temp, final>>
  BY DEF Publish, Goto, TypeOK
<1>4. Temp(w).full /\ Temp(w) # NoFile
  BY <1>1, NoFileType DEF TempIsWhole
<1>5. \A j \in Jobs : final'[j] = final[j] \/ (final'[j].full /\ final'[j] # NoFile)
  BY <1>1, <1>3, <1>4 DEF TypeOK
<1>6. OwnsNewest'
  BY <1>1, <1>2, OwnsNewestKept
<1>7. TempIsWhole'
  <2> SUFFICES ASSUME NEW v \in Workers, v # w, pc'[v] \in {"written", "confirm", "check", "publish"}
               PROVE  Temp(v)'.full
    BY <1>1 DEF TempIsWhole
  <2>1. temp'[job[v]][v] = temp[job[v]][v]
    BY <1>1, <1>3, NoFileType, SetTempOwn
  <2> QED
    BY <1>1, <2>1 DEF TempIsWhole, Temp, AttemptTemp, Moves
<1>8. PublishedStays'
  <2>1. final'[job[w]] # NoFile \/ pc'[w] = "discard_fail"
    BY <1>1, <1>3, <1>4 DEF TypeOK
  <2>2. \A v \in Workers : final[job[v]] # NoFile => final'[job[v]] # NoFile
    BY <1>5 DEF TypeOK
  <2> QED
    BY <1>1, <1>2, <2>1, <2>2 DEF Moves, PublishedStays, PastPublish, PastSidecar
<1>9. DownloadIsWhole' /\ CompletedByNewestClaim'
  BY <1>2, <1>5 DEF DownloadIsWhole, CompletedByNewestClaim
<1> QED
  BY <1>6, <1>7, <1>8, <1>9

LEMMA SidecarStep ==
    ASSUME EInv, NEW w \in Workers, PublishSidecar(w)
    PROVE  (OwnsNewest /\ TempIsWhole /\ PublishedStays /\ DownloadIsWhole /\ CompletedByNewestClaim)'
<1> USE DEF EInv
<1>1. Moves(w) /\ pc[w] = "sidecar_publish" /\ pc'[w] \in {"sink_check", "complete", "fail"}
  BY GotoMoves DEF PublishSidecar
<1>2. UNCHANGED <<status, owner, lease, temp, final, delivered>>
  BY DEF PublishSidecar, rowVars
<1>3. /\ \A j \in Jobs : sidecar'[j] = sidecar[j] \/ sidecar'[j] # 0
      /\ pc'[w] # "fail" => sidecar'[job[w]] # 0
      /\ pc'[w] = "complete" => job[w] \notin Sinks
  BY <1>1, SMTT(20) DEF PublishSidecar, Goto, OwnsNewest, TypeOK
<1>4. OwnsNewest'
  BY <1>1, <1>2, OwnsNewestKept
<1>5. TempIsWhole'
  BY <1>1, <1>2 DEF Moves, TempIsWhole, Temp, AttemptTemp
<1>6. PublishedStays'
  BY <1>1, <1>2, <1>3 DEF Moves, PublishedStays, PastPublish, PastSidecar, TypeOK
<1>7. DownloadIsWhole' /\ CompletedByNewestClaim'
  BY <1>2, <1>3 DEF DownloadIsWhole, CompletedByNewestClaim
<1> QED
  BY <1>4, <1>5, <1>6, <1>7

LEMMA DeliverStep ==
    ASSUME EInv, NEW w \in Workers, Deliver(w)
    PROVE  (OwnsNewest /\ TempIsWhole /\ PublishedStays /\ DownloadIsWhole /\ CompletedByNewestClaim)'
<1> USE DEF EInv
<1>1. Moves(w) /\ pc[w] = "sink" /\ pc'[w] \in {"complete", "fail"}
  BY GotoMoves DEF Deliver
<1>2. UNCHANGED <<status, owner, lease, temp, final, sidecar>>
  BY DEF Deliver, rowVars
<1>3. /\ delivered' = delivered \/ delivered' = delivered \cup {Delivery(w)}
      /\ pc'[w] = "complete" => Delivery(w) \in delivered'
  BY DEF Deliver, Goto, TypeOK
<1>4. /\ Delivery(w).job = job[w] /\ Delivery(w).num = num[w] /\ Delivery(w).file = final[job[w]]
      /\ final[job[w]].full
  BY <1>1 DEF Delivery, PublishedStays, PastPublish, DownloadIsWhole, TypeOK
<1>5. OwnsNewest'
  BY <1>1, <1>2, OwnsNewestKept
<1>6. TempIsWhole'
  BY <1>1, <1>2 DEF Moves, TempIsWhole, Temp, AttemptTemp
<1>7. PublishedStays'
  BY <1>1, <1>2, <1>3, <1>4 DEF Moves, PublishedStays, PastPublish, PastSidecar
<1>8. DownloadIsWhole' /\ CompletedByNewestClaim'
  BY <1>2, <1>3, <1>4 DEF DownloadIsWhole, CompletedByNewestClaim
<1> QED
  BY <1>5, <1>6, <1>7, <1>8

LEMMA InvStep == EInv /\ [Next]_vars => EInv'
<1> SUFFICES ASSUME EInv, [Next]_vars PROVE EInv'
  OBVIOUS
<1> DEFINE Rest == OwnsNewest /\ TempIsWhole /\ PublishedStays /\ DownloadIsWhole /\ CompletedByNewestClaim
<1>1. TypeOK'
  BY TypeStep DEF EInv
<1>2. ASSUME (\E j \in Jobs : Enqueue(j) \/ Expire(j)) \/ (\E w \in Workers : Heartbeat(w) \/ Exit(w))
             \/ UNCHANGED vars
      PROVE  Rest'
  <2>1. UNCHANGED <<owner, lease, fileVars, pc, job, num>>
    BY <1>2 DEF Enqueue, Expire, Heartbeat, Exit, vars, rowVars, fileVars, execVars
  <2>2. \A j \in Jobs : status'[j] = status[j] \/ status'[j] = "pending"
    BY <1>2 DEF Enqueue, Expire, Heartbeat, Exit, vars, rowVars, EInv, TypeOK
  <2> QED
    BY <2>1, <2>2, QuietStep
<1>3. ASSUME NEW w \in Workers, NEW j \in Jobs, Claim(w, j) PROVE Rest'
  BY <1>3, ClaimStep
<1>4. ASSUME NEW w \in Workers, ExecuteExportJob(w) PROVE Rest'
  BY <1>4, LocalStep, TempStep, UpdateStep, PublishStep, SidecarStep, DeliverStep DEF ExecuteExportJob
<1>5. ASSUME NEW w \in Workers, Shutdown(w) PROVE Rest'
  BY <1>5, ShutdownStep
<1>6. Rest'
  BY <1>2, <1>3, <1>4, <1>5 DEF Next
<1> QED
  BY <1>1, <1>6 DEF EInv

\* The inductive invariant holds in every reachable state.
THEOREM ExportInvariant == Spec => []EInv
  BY InvInit, InvStep, PTL DEF Spec

\* No partial artifact is ever downloadable or delivered, and a completed job
\* has its artifact and its provenance, for any number of workers and jobs.
THEOREM DownloadSafety == Spec => []DownloadIsWhole
<1>1. EInv => DownloadIsWhole
  BY DEF EInv
<1> QED
  BY <1>1, ExportInvariant, PTL

\* A job with a sink is completed only by a newest claim that delivered.
THEOREM DeliverySafety == Spec => []CompletedByNewestClaim
<1>1. EInv => CompletedByNewestClaim
  BY DEF EInv
<1> QED
  BY <1>1, ExportInvariant, PTL

-----------------------------------------------------------------------------
(* The order of an export *)

\* Before is a strict total order of the rows.
LEMMA BeforeIsTotal ==
    /\ \A r \in Rows : ~ Before(r, r)
    /\ \A r, s \in Rows : r # s => Before(r, s) \/ Before(s, r)
    /\ \A r, s, t \in Rows : Before(r, s) /\ Before(s, t) => Before(r, t)
<1>1. \A r \in Rows : r \in Nat /\ RowOf[r].at \in Int
  BY StreamAssumption
<1>2. \A r \in Rows : ~ Before(r, r)
  BY <1>1 DEF Before
<1>3. \A r, s \in Rows : r # s => Before(r, s) \/ Before(s, r)
  BY <1>1 DEF Before
<1>4. ASSUME NEW r \in Rows, NEW s \in Rows, NEW t \in Rows, Before(r, s), Before(s, t) PROVE Before(r, t)
  BY <1>1, <1>4 DEF Before
<1> QED
  BY <1>2, <1>3, <1>4

\* The number of rows before one, in a set of rows.
Rank(R, r) == Cardinality({s \in R : Before(s, r)})

LEMMA RowsAreFinite ==
    ASSUME NEW R \in SUBSET Rows
    PROVE  IsFiniteSet(R) /\ Cardinality(R) \in Nat
  BY FS_Subset, FS_CardinalityType, StreamAssumption

LEMMA RankType ==
    ASSUME NEW R \in SUBSET Rows, NEW r \in R
    PROVE  Rank(R, r) \in 0 .. Cardinality(R) - 1
<1> DEFINE P == {s \in R : Before(s, r)}
<1>1. P \in SUBSET (R \ {r})
  BY BeforeIsTotal
<1>2. IsFiniteSet(R) /\ Cardinality(R) \in Nat
  BY RowsAreFinite
<1>3. IsFiniteSet(R \ {r}) /\ Cardinality(R \ {r}) = Cardinality(R) - 1
  BY <1>2, FS_RemoveElement
<1>4. Cardinality(P) \in Nat /\ Cardinality(P) <= Cardinality(R \ {r})
  BY <1>1, <1>3, FS_Subset, FS_CardinalityType
<1> QED
  BY <1>2, <1>3, <1>4 DEF Rank

LEMMA RankGrows ==
    ASSUME NEW R \in SUBSET Rows, NEW r \in R, NEW t \in R, Before(r, t)
    PROVE  Rank(R, r) # Rank(R, t)
<1> DEFINE P == {s \in R : Before(s, r)}
           Q == {s \in R : Before(s, t)}
<1>1. P \in SUBSET Q /\ r \in Q /\ r \notin P
  BY BeforeIsTotal
<1>2. IsFiniteSet(Q)
  BY RowsAreFinite
<1>3. Cardinality(P) # Cardinality(Q)
  BY <1>1, <1>2, FS_Subset
<1> QED
  BY <1>3 DEF Rank

LEMMA RankIsUnique ==
    ASSUME NEW R \in SUBSET Rows, NEW r \in R, NEW t \in R, Rank(R, r) = Rank(R, t)
    PROVE  r = t
<1> SUFFICES ASSUME r # t PROVE FALSE
  OBVIOUS
<1>1. Before(r, t) \/ Before(t, r)
  BY BeforeIsTotal
<1> QED
  BY <1>1, RankGrows

\* Every number below the cardinality is the rank of a row.
LEMMA RankExists ==
    ASSUME NEW R \in SUBSET Rows, NEW k \in 0 .. Cardinality(R) - 1
    PROVE  \E r \in R : Rank(R, r) = k
<1> DEFINE f == [r \in R |-> Rank(R, r)]
           K == 0 .. Cardinality(R) - 1
<1>1. Cardinality(R) \in Nat
  BY RowsAreFinite
<1>2. IsFiniteSet(K) /\ Cardinality(K) = Cardinality(R)
  <2>1. 0 \in Int /\ Cardinality(R) - 1 \in Int
    BY <1>1
  <2>2. IsFiniteSet(K) /\ Cardinality(K) = IF 0 > Cardinality(R) - 1 THEN 0 ELSE (Cardinality(R) - 1) - 0 + 1
    BY <2>1, FS_Interval
  <2> QED
    BY <1>1, <2>2
<1>3. f \in [R -> K]
  BY RankType
<1>4. \A r, t \in R : f[r] = f[t] => r = t
  BY RankIsUnique
<1>5. f \in Injection(R, K)
  BY <1>3, <1>4 DEF Injection, IsInjective
<1>6. f \in Surjection(R, K)
  BY <1>2, <1>5, FS_Injection
<1> QED
  BY <1>6 DEF Surjection

\* Ordered lists each row of a set exactly once.
LEMMA OrderedIs ==
    ASSUME NEW R \in SUBSET Rows
    PROVE  /\ Ordered(R) \in Seq(R) /\ Len(Ordered(R)) = Cardinality(R)
           /\ \A r \in R : \E i \in 1 .. Cardinality(R) : Ordered(R)[i] = r
<1> DEFINE n == Cardinality(R)
           nth(i) == CHOOSE r \in R : Rank(R, r) = i - 1
<1>1. n \in Nat
  BY RowsAreFinite
<1>2. Ordered(R) = [i \in 1 .. n |-> nth(i)]
  BY DEF Ordered, Rank
<1>3. ASSUME NEW i \in 1 .. n PROVE nth(i) \in R /\ Rank(R, nth(i)) = i - 1
  <2>1. i - 1 \in 0 .. n - 1
    BY <1>1
  <2>2. \E r \in R : Rank(R, r) = i - 1
    BY <2>1, RankExists
  <2> QED
    BY <2>2
<1>4. ASSUME NEW r \in R PROVE \E i \in 1 .. n : nth(i) = r
  <2>1. Rank(R, r) \in 0 .. n - 1
    BY RankType
  <2>2. PICK i \in 1 .. n : i - 1 = Rank(R, r)
    <3>1. Rank(R, r) + 1 \in 1 .. n /\ (Rank(R, r) + 1) - 1 = Rank(R, r)
      BY <1>1, <2>1
    <3> QED
      BY <3>1
  <2>3. nth(i) \in R /\ Rank(R, nth(i)) = Rank(R, r)
    BY <1>3, <2>2
  <2>4. nth(i) = r
    BY <2>3, RankIsUnique
  <2> QED
    BY <2>4
<1> HIDE DEF nth
<1>5. Ordered(R) \in [1 .. n -> R] /\ \A i \in 1 .. n : Ordered(R)[i] = nth(i)
  BY <1>2, <1>3
<1>6. Ordered(R) \in Seq(R) /\ Len(Ordered(R)) = n
  BY <1>1, <1>5
<1> QED
  BY <1>4, <1>5, <1>6

-----------------------------------------------------------------------------
(* Pages and prefixes *)

LEMMA PrefixIs ==
    ASSUME NEW S, NEW s \in Seq(S), NEW t \in Seq(S)
    PROVE  IsPrefix(s, t) <=> Len(s) <= Len(t) /\ \A k \in 1 .. Len(s) : s[k] = t[k]
<1>1. Len(s) \in Nat /\ Len(t) \in Nat /\ 1 \in Int
  BY LenProperties
<1>2. \A k \in 1 .. Len(s) : s[k] \in S
  BY ElementOfSeq
<1>3. /\ SubSeq(s, 1, Len(s)) \in Seq(S) /\ Len(SubSeq(s, 1, Len(s))) = Len(s)
      /\ \A k \in 1 .. Len(s) : SubSeq(s, 1, Len(s))[k] = s[k]
  <2>1. /\ SubSeq(s, 1, Len(s)) \in Seq(S)
        /\ Len(SubSeq(s, 1, Len(s))) = IF 1 <= Len(s) THEN Len(s) - 1 + 1 ELSE 0
        /\ \A k \in 1 .. Len(s) - 1 + 1 : SubSeq(s, 1, Len(s))[k] = s[1 + k - 1]
    BY <1>1, <1>2, SubSeqProperties
  <2> QED
    BY <1>1, <2>1
<1>4. CASE Len(s) <= Len(t)
  <2>1. \A k \in 1 .. Len(s) : t[k] \in S
    BY <1>1, <1>4, ElementOfSeq
  <2>2. /\ SubSeq(t, 1, Len(s)) \in Seq(S)
        /\ Len(SubSeq(t, 1, Len(s))) = IF 1 <= Len(s) THEN Len(s) - 1 + 1 ELSE 0
        /\ \A k \in 1 .. Len(s) - 1 + 1 : SubSeq(t, 1, Len(s))[k] = t[1 + k - 1]
    BY <1>1, <2>1, SubSeqProperties
  <2>3. Len(SubSeq(t, 1, Len(s))) = Len(s) /\ \A k \in 1 .. Len(s) : SubSeq(t, 1, Len(s))[k] = t[k]
    BY <1>1, <2>2
  <2>4. SubSeq(s, 1, Len(s)) = SubSeq(t, 1, Len(s)) <=> \A k \in 1 .. Len(s) : s[k] = t[k]
    BY <1>3, <2>2, <2>3, SeqEqual
  <2> QED
    BY <1>4, <2>4 DEF IsPrefix
<1> QED
  BY <1>4 DEF IsPrefix

LEMMA PageIs ==
    ASSUME NEW R \in SUBSET Rows, NEW o \in 0 .. Cardinality(R)
    PROVE  /\ PageAt(R, o) \in Seq(Rows)
           /\ Len(PageAt(R, o)) = IF o + PageSize < Cardinality(R) THEN PageSize ELSE Cardinality(R) - o
           /\ \A k \in 1 .. Len(PageAt(R, o)) : PageAt(R, o)[k] = Ordered(R)[o + k]
           /\ PageAt(R, o) = <<>> <=> o = Cardinality(R)
<1>1. PICK n \in Nat : n = Cardinality(R)
  BY RowsAreFinite
<1>2. PICK s \in Seq(R) : s = Ordered(R) /\ Len(s) = n
  BY <1>1, OrderedIs
<1>3. PageSize \in Nat /\ PageSize > 0 /\ o \in 0 .. n
  BY <1>1, StreamAssumption
<1>4. PICK e \in Nat : e = (IF o + PageSize < n THEN o + PageSize ELSE n) /\ o <= e /\ e <= n
  BY <1>3
<1>5. PageAt(R, o) = SubSeq(s, o + 1, e)
  BY <1>2, <1>4 DEF PageAt
<1>6. \A i \in o + 1 .. e : s[i] \in Rows
  BY <1>2, <1>3, <1>4, ElementOfSeq
<1>7. o + 1 \in Int /\ e \in Int
  BY <1>3, <1>4
<1>8. /\ SubSeq(s, o + 1, e) \in Seq(Rows)
      /\ Len(SubSeq(s, o + 1, e)) = IF o + 1 <= e THEN e - (o + 1) + 1 ELSE 0
      /\ \A i \in 1 .. e - (o + 1) + 1 : SubSeq(s, o + 1, e)[i] = s[(o + 1) + i - 1]
  BY <1>6, <1>7, SubSeqProperties
<1>9. PICK p \in Seq(Rows) : p = PageAt(R, o) /\ Len(p) = e - o /\ \A i \in 1 .. e - o : p[i] = s[o + i]
  <2>1. Len(SubSeq(s, o + 1, e)) = e - o /\ \A i \in 1 .. e - o : SubSeq(s, o + 1, e)[i] = s[o + i]
    <3>1. e - (o + 1) + 1 = e - o /\ (o + 1 <= e \/ e - o = 0)
      BY <1>3, <1>4
    <3>2. \A i \in Nat : (o + 1) + i - 1 = o + i
      BY <1>3
    <3>3. Len(SubSeq(s, o + 1, e)) = e - o
      BY <1>8, <3>1
    <3>4. \A i \in 1 .. e - o : SubSeq(s, o + 1, e)[i] = s[o + i]
      BY <1>8, <3>1, <3>2
    <3> QED
      BY <3>3, <3>4
  <2> QED
    BY <1>5, <1>8, <2>1
<1>10. p = <<>> <=> e = o
  BY <1>3, <1>4, <1>9, EmptySeq
<1>11. e = o <=> o = n
  BY <1>3, <1>4
<1>12. Len(p) = IF o + PageSize < n THEN PageSize ELSE n - o
  BY <1>3, <1>4, <1>9
<1> QED
  BY <1>1, <1>2, <1>9, <1>10, <1>11, <1>12

\* The page after a prefix makes a longer prefix.
LEMMA PrefixGrows ==
    ASSUME NEW R \in SUBSET Rows, NEW f \in Seq(Rows), IsPrefix(f, Ordered(R))
    PROVE  /\ Len(f) \in 0 .. Cardinality(R)
           /\ f \o PageAt(R, Len(f)) \in Seq(Rows)
           /\ Len(f \o PageAt(R, Len(f))) = Len(f) + Len(PageAt(R, Len(f)))
           /\ IsPrefix(f \o PageAt(R, Len(f)), Ordered(R))
<1>1. PICK n \in Nat : n = Cardinality(R)
  BY RowsAreFinite
<1>2. PICK s \in Seq(Rows) : s = Ordered(R) /\ Len(s) = n
  BY <1>1, OrderedIs, SeqMonotonic
<1>3. Len(f) \in Nat /\ Len(f) <= n /\ \A k \in 1 .. Len(f) : f[k] = s[k]
  BY <1>2, PrefixIs, LenProperties
<1>4. PICK p \in Seq(Rows) : /\ p = PageAt(R, Len(f)) /\ Len(p) \in Nat /\ Len(f) + Len(p) <= n
                             /\ \A k \in 1 .. Len(p) : p[k] = s[Len(f) + k]
  <2>1. Len(f) \in 0 .. Cardinality(R)
    BY <1>1, <1>3
  <2>2. PageSize \in Nat
    BY StreamAssumption
  <2> QED
    BY <1>1, <1>2, <1>3, <2>1, <2>2, PageIs
<1>5. /\ f \o p \in Seq(Rows) /\ Len(f \o p) = Len(f) + Len(p)
      /\ \A i \in 1 .. Len(f) + Len(p) : (f \o p)[i] = IF i <= Len(f) THEN f[i] ELSE p[i - Len(f)]
  BY ConcatProperties
<1>6. \A i \in 1 .. Len(f) + Len(p) : (f \o p)[i] = s[i]
  <2> SUFFICES ASSUME NEW i \in 1 .. Len(f) + Len(p) PROVE (f \o p)[i] = s[i]
    OBVIOUS
  <2>1. CASE i <= Len(f)
    BY <1>3, <1>4, <1>5, <2>1
  <2>2. CASE ~ (i <= Len(f))
    <3>1. i - Len(f) \in 1 .. Len(p) /\ Len(f) + (i - Len(f)) = i
      BY <1>3, <1>4, <2>2
    <3>2. p[i - Len(f)] = s[Len(f) + (i - Len(f))]
      BY <1>4, <3>1
    <3> QED
      BY <1>5, <2>2, <3>1, <3>2
  <2> QED
    BY <2>1, <2>2
<1>7. IsPrefix(f \o p, s)
  BY <1>4, <1>2, <1>5, <1>6, PrefixIs
<1> QED
  BY <1>1, <1>2, <1>3, <1>4, <1>5, <1>7

-----------------------------------------------------------------------------
(* Which rows are selected *)

LEMMA ExportedType ==
    ASSUME NEW A, NEW q
    PROVE  Exported(A, q) \subseteq A
  BY DEF Exported, Joined, Direct

LEMMA ExportedMonotone ==
    ASSUME NEW A, NEW B, A \subseteq B, NEW q
    PROVE  Exported(A, q) \subseteq Exported(B, q)
  BY DEF Exported, Joined, Direct

LEMMA QueriedMonotone ==
    ASSUME NEW A, NEW B, A \subseteq B, NEW q
    PROVE  Queried(A, q) \subseteq Queried(B, q)
<1>1. Joined(A, q) \subseteq Joined(B, q)
  BY DEF Joined
<1>2. QueriedBalances(A, q) \subseteq QueriedBalances(B, q)
  BY <1>1 DEF QueriedBalances
<1>3. QueriedHl(A, q) \subseteq QueriedHl(B, q)
  BY DEF QueriedHl
<1>4. QueriedProtocol(A, q) \subseteq QueriedProtocol(B, q)
  BY DEF QueriedProtocol
<1> QED
  BY <1>1, <1>2, <1>3, <1>4 DEF Queried

\* An export of a gold dataset selects rows about its target only.
LEMMA ExportedAbout ==
    ASSUME NEW q \in Requests, q.dataset # "silver", q.target # NoTarget, NEW r \in Exported(Rows, q)
    PROVE  About(r, q.target)
<1> DEFINE t == TargetOf[q.target]
           f == ExportFilter(q)
           net == ExportNetwork(q)
<1>1. ~ Unscoped(q) /\ r \in Direct(Rows, q)
  BY DEF Exported
<1>2. f.vals # {} /\ net # NoNet
  BY <1>1 DEF Unscoped
<1>3. net = t.net
  BY <1>2 DEF ExportNetwork
<1>4. RowOf[r].net = t.net /\ RowOf[r][f.col] \in f.vals
  BY <1>1, <1>2, <1>3 DEF Direct, WindowAndNetwork
<1>5. t.kind \in FilterKinds(q.dataset)
  <2> SUFFICES ASSUME t.kind \notin FilterKinds(q.dataset) PROVE f.vals = {}
    BY <1>2
  <2> QED
    BY DEF ExportFilter
<1>6. CASE t.kind = "wallet"
  <2>1. f = [col |-> "addr", vals |-> {t.addr} \ {NoAddr}]
    BY <1>5, <1>6 DEF ExportFilter
  <2> QED
    BY <1>4, <1>6, <2>1 DEF About
<1>7. CASE t.kind = "pool"
  <2>1. f = [col |-> "pool", vals |-> {t.addr} \ {NoAddr}]
    BY <1>5, <1>7 DEF ExportFilter
  <2> QED
    BY <1>4, <1>7, <2>1 DEF About
<1>8. CASE t.kind = "protocol"
  <2>1. f = [col |-> "addr", vals |-> ProtocolAddresses(q.target, net)]
    BY <1>5, <1>8 DEF ExportFilter
  <2>2. ProtocolAddresses(q.target, net) \subseteq {t.addr} \cup t.spec[t.net]
    BY <1>2, <1>3 DEF ProtocolAddresses
  <2> QED
    BY <1>4, <1>8, <2>1, <2>2 DEF About
<1> QED
  BY <1>5, <1>6, <1>7, <1>8 DEF FilterKinds

\* So does a query of the Hyperliquid summaries.
LEMMA QueriedAbout ==
    ASSUME NEW q \in Requests, q.dataset = "hl", q.target # NoTarget, NEW r \in Queried(Rows, q)
    PROVE  About(r, q.target)
<1>1. r \in QueriedHl(Rows, q)
  BY DEF Queried
<1>2. TargetOf[q.target].net # NoNet
  BY StreamAssumption
<1> QED
  BY <1>1, <1>2 DEF QueriedHl, WindowAndNetwork, About

-----------------------------------------------------------------------------
(* The invariant holds initially and says what an export promises *)

LEMMA EmptyIsPrefix ==
    ASSUME NEW R \in SUBSET Rows
    PROVE  <<>> \in Seq(Rows) /\ Len(<<>>) = 0 /\ IsPrefix(<<>>, Ordered(R))
<1>1. <<>> \in Seq(Rows) /\ Len(<<>>) = 0
  BY EmptySeq
<1>2. Ordered(R) \in Seq(Rows) /\ Len(Ordered(R)) = Cardinality(R) /\ Cardinality(R) \in Nat
  BY OrderedIs, RowsAreFinite, SeqMonotonic
<1>3. Len(<<>>) <= Len(Ordered(R)) /\ \A k \in 1 .. Len(<<>>) : <<>>[k] = Ordered(R)[k]
  BY <1>1, <1>2
<1> QED
  BY <1>1, <1>2, <1>3, PrefixIs

LEMMA FileInit ==
    ASSUME StreamInit
    PROVE  FileInv
<1> USE DEF StreamInit
<1>1. StreamTypeOK
  <2>1. ChannelCapacity \in Nat /\ MaxStreamFaults \in Nat /\ StoredRows \subseteq Rows
    BY StreamAssumption
  <2>2. <<>> \in Seq(Rows) /\ Len(<<>>) = 0
    BY EmptySeq
  <2>3. \A i \in DOMAIN channel : Len(channel[i]) \in 1 .. PageSize
    OBVIOUS
  <2>4. Len(channel) = 0 /\ file \in Seq(Rows)
    BY <2>2
  <2>5. table \subseteq Rows /\ covered \subseteq table /\ meta \subseteq covered /\ snap \subseteq table
    BY <2>1
  <2>6. strFaults \in 0 .. MaxStreamFaults /\ Len(channel) <= ChannelCapacity
    BY <2>1, <2>4
  <2> QED
    BY <2>3, <2>4, <2>5, <2>6, Zenon DEF StreamTypeOK
<1>2. AskedOK
  BY DEF AskedOK, NoAnswer
<1>3. SnapshotOK
  <2>1. Cardinality({}) = 0
    BY FS_EmptySet
  <2> QED
    BY <2>1 DEF SnapshotOK
<1>4. DeliveredOK
  <2>1. IsPrefix(file, Ordered(snap)) /\ Len(file) = 0
    BY EmptyIsPrefix
  <2>2. channel \in Seq(Seq(Rows))
    BY EmptySeq
  <2>3. DOMAIN channel = {}
    OBVIOUS
  <2> QED
    BY <2>1, <2>2, <2>3 DEF DeliveredOK
<1> QED
  BY <1>1, <1>2, <1>3, <1>4 DEF FileInv

\* A record of the file is a row of the snapshot, and of the request.
LEMMA RecordIsInSnapshot ==
    ASSUME FileInv
    PROVE  /\ snap \in SUBSET Rows /\ file \in Seq(Rows) /\ Cardinality(snap) \in Nat
           /\ Len(file) \in 0 .. Cardinality(snap)
           /\ \A i \in 1 .. Len(file) : file[i] = Ordered(snap)[i] /\ file[i] \in snap
<1>1. snap \in SUBSET Rows /\ file \in Seq(Rows)
  BY DEF FileInv, StreamTypeOK
<1>2. /\ Ordered(snap) \in Seq(snap) /\ Ordered(snap) \in Seq(Rows)
      /\ Len(Ordered(snap)) = Cardinality(snap) /\ Cardinality(snap) \in Nat
  BY <1>1, OrderedIs, RowsAreFinite, SeqMonotonic
<1>3. Len(file) \in Nat /\ Len(file) <= Cardinality(snap) /\ \A i \in 1 .. Len(file) : file[i] = Ordered(snap)[i]
  BY <1>1, <1>2, PrefixIs, LenProperties DEF FileInv, DeliveredOK
<1>4. \A i \in 1 .. Cardinality(snap) : Ordered(snap)[i] \in snap
  BY <1>2, ElementOfSeq
<1> QED
  BY <1>1, <1>2, <1>3, <1>4

LEMMA FileInvSays ==
    ASSUME FileInv
    PROVE  ExportFaithful
<1>1. /\ snap \in SUBSET Rows /\ file \in Seq(Rows) /\ Cardinality(snap) \in Nat
      /\ Len(file) \in 0 .. Cardinality(snap)
      /\ \A i \in 1 .. Len(file) : file[i] = Ordered(snap)[i] /\ file[i] \in snap
  BY RecordIsInSnapshot
<1>2. DOMAIN file = 1 .. Len(file)
  BY <1>1, LenProperties
<1>3. Len(Ordered(snap)) = Cardinality(snap) /\ \A r \in snap : \E i \in 1 .. Cardinality(snap) : Ordered(snap)[i] = r
  BY <1>1, OrderedIs
<1>4. HardCap \in Nat
  BY StreamAssumption
<1>5. ASSUME writer = "done"
      PROVE  /\ streamed = Len(file) /\ reader = "ok"
             /\ Len(file) < HardCap => Len(file) = Cardinality(snap)
  <2>1. reader = "ok" /\ ~writeErr
    BY <1>5 DEF FileInv, DeliveredOK
  <2>2. channel = <<>> /\ streamed = Len(file)
    BY <1>5, <2>1 DEF FileInv, DeliveredOK
  <2>3. streamed >= HardCap \/ streamed = Cardinality(snap)
    BY <2>1 DEF FileInv, SnapshotOK
  <2> QED
    BY <1>1, <1>4, <2>1, <2>2, <2>3
<1>6. FileIsTheSnapshot
  BY <1>3, <1>5 DEF FileIsTheSnapshot, FileInv, DeliveredOK
<1>7. CoverageIsInFile
  <2> SUFFICES ASSUME writer = "done", Len(file) < HardCap, NEW r \in Exported(meta, req)
               PROVE  \E i \in DOMAIN file : file[i] = r
    BY DEF CoverageIsInFile
  <2>1. r \in snap
    BY <1>5 DEF FileInv, SnapshotOK
  <2>2. PICK i \in 1 .. Cardinality(snap) : Ordered(snap)[i] = r
    BY <1>3, <2>1
  <2> QED
    BY <1>1, <1>2, <1>5, <2>2
<1>8. RowsAreAboutTarget
  <2>1. ASSUME req.dataset \notin {"none", "silver"}, req.target # NoTarget, NEW i \in DOMAIN file
        PROVE  About(file[i], req.target)
    <3>1. req \in Requests
      BY <2>1 DEF FileInv, AskedOK
    <3>2. file[i] \in Exported(Rows, req)
      BY <1>1, <1>2, <2>1 DEF FileInv, SnapshotOK
    <3> QED
      BY <2>1, <3>1, <3>2, ExportedAbout
  <2>2. ASSUME answer.req.dataset = "hl", answer.req.target # NoTarget, NEW r \in answer.rows
        PROVE  About(r, answer.req.target)
    <3>1. answer # NoAnswer
      BY <2>2 DEF NoAnswer
    <3>2. answer.req \in Requests /\ r \in Queried(Rows, answer.req)
      BY <2>2, <3>1 DEF FileInv, AskedOK
    <3> QED
      BY <2>2, <3>2, QueriedAbout
  <2> QED
    BY <2>1, <2>2 DEF RowsAreAboutTarget
<1> QED
  BY <1>6, <1>7, <1>8 DEF ExportFaithful, FileInv

-----------------------------------------------------------------------------
(* The steps that leave the pages alone *)

LEMMA StartExportStep ==
    ASSUME FileInv, NEW q \in Requests, StartExport(q)
    PROVE  FileInv'
<1>1. /\ writer = "idle" /\ writer' = "open" /\ req' = q /\ meta' = covered
      /\ UNCHANGED <<table, covered, snap, page, streamed, reader, channel, cancelled, writeErr, file, answer, strFaults>>
  BY DEF StartExport, readerVars
<1>2. reader = "idle" /\ snap = {} /\ channel = <<>>
  BY <1>1 DEF FileInv, SnapshotOK
<1>3. StreamTypeOK'
  BY <1>1 DEF FileInv, StreamTypeOK
<1>4. AskedOK'
  BY <1>1 DEF FileInv, AskedOK
<1>5. SnapshotOK'
  BY <1>1, <1>2 DEF FileInv, SnapshotOK
<1>6. DeliveredOK'
  BY <1>1, <1>2 DEF FileInv, DeliveredOK
<1> QED
  BY <1>3, <1>4, <1>5, <1>6 DEF FileInv

LEMMA QueryDatasetStep ==
    ASSUME FileInv, NEW q \in Requests, QueryDataset(q)
    PROVE  FileInv'
<1>1. /\ answer' = [req |-> q, rows |-> Queried(table, q)]
      /\ UNCHANGED <<table, covered, snap, page, streamed, reader, channel, cancelled, req, meta, writer, writeErr, file, strFaults>>
  BY DEF QueryDataset, readerVars, writerVars
<1>2. table \subseteq Rows
  BY DEF FileInv, StreamTypeOK
<1>3. StreamTypeOK'
  BY <1>1 DEF FileInv, StreamTypeOK
<1>4. AskedOK'
  <2>1. answer'.req = q /\ answer'.rows \subseteq Queried(Rows, q)
    BY <1>1, <1>2, QueriedMonotone
  <2> QED
    BY <1>1, <2>1 DEF FileInv, AskedOK
<1>5. SnapshotOK'
  BY <1>1 DEF FileInv, SnapshotOK
<1>6. DeliveredOK'
  BY <1>1 DEF FileInv, DeliveredOK
<1> QED
  BY <1>3, <1>4, <1>5, <1>6 DEF FileInv

LEMMA CoverRowsStep ==
    ASSUME FileInv, CoverRows
    PROVE  FileInv'
<1>1. /\ covered' = table
      /\ UNCHANGED <<table, snap, page, streamed, reader, channel, cancelled, req, meta, writer, writeErr, file, answer, strFaults>>
  BY DEF CoverRows, readerVars, writerVars
<1>2. StreamTypeOK'
  BY <1>1 DEF FileInv, StreamTypeOK
<1>3. AskedOK'
  BY <1>1 DEF FileInv, AskedOK
<1>4. SnapshotOK'
  BY <1>1 DEF FileInv, SnapshotOK
<1>5. DeliveredOK'
  BY <1>1 DEF FileInv, DeliveredOK
<1> QED
  BY <1>2, <1>3, <1>4, <1>5 DEF FileInv

LEMMA InsertRowStep ==
    ASSUME FileInv, NEW r \in Rows, InsertRow(r)
    PROVE  FileInv'
<1>1. /\ table' = table \cup {r}
      /\ UNCHANGED <<covered, snap, page, streamed, reader, channel, cancelled, req, meta, writer, writeErr, file, answer, strFaults>>
  BY DEF InsertRow, readerVars, writerVars
<1>2. StreamTypeOK'
  BY <1>1 DEF FileInv, StreamTypeOK
<1>3. AskedOK'
  BY <1>1 DEF FileInv, AskedOK
<1>4. SnapshotOK'
  BY <1>1 DEF FileInv, SnapshotOK
<1>5. DeliveredOK'
  BY <1>1 DEF FileInv, DeliveredOK
<1> QED
  BY <1>2, <1>3, <1>4, <1>5 DEF FileInv

LEMMA FaultCounts ==
    ASSUME strFaults \in 0 .. MaxStreamFaults, StrFault \/ UNCHANGED strFaults
    PROVE  strFaults' \in 0 .. MaxStreamFaults
<1>1. MaxStreamFaults \in Nat
  BY StreamAssumption
<1> QED
  BY <1>1 DEF StrFault

LEMMA CancelExportStep ==
    ASSUME FileInv, CancelExport
    PROVE  FileInv'
<1>1. /\ cancelled' = TRUE /\ StrFault
      /\ UNCHANGED <<table, covered, snap, page, streamed, reader, channel, req, meta, writer, writeErr, file, answer>>
  BY DEF CancelExport, readerVars, writerVars
<1>2. strFaults' \in 0 .. MaxStreamFaults
  BY <1>1, FaultCounts DEF FileInv, StreamTypeOK
<1>3. StreamTypeOK'
  BY <1>1, <1>2 DEF FileInv, StreamTypeOK
<1>4. AskedOK'
  BY <1>1 DEF FileInv, AskedOK
<1>5. SnapshotOK'
  BY <1>1 DEF FileInv, SnapshotOK
<1>6. DeliveredOK'
  BY <1>1 DEF FileInv, DeliveredOK
<1> QED
  BY <1>3, <1>4, <1>5, <1>6 DEF FileInv

-----------------------------------------------------------------------------
(* The writer's and the reader's steps *)

LEMMA OpenExportStep ==
    ASSUME FileInv, OpenExport
    PROVE  FileInv'
<1>1. /\ writer = "open"
      /\ UNCHANGED <<table, covered, req, meta, snap, page, streamed, channel, cancelled, writeErr, answer>>
  BY DEF OpenExport
<1>2. reader = "idle" /\ snap = {} /\ streamed = 0 /\ channel = <<>> /\ file = <<>> /\ ~writeErr
  BY <1>1 DEF FileInv, SnapshotOK, DeliveredOK
<1>3. file' = file /\ ((writer' = "write" /\ reader' = "begin") \/ (writer' = "failed" /\ reader' = "idle"))
  BY <1>2 DEF OpenExport
<1>4. strFaults' \in 0 .. MaxStreamFaults
  BY FaultCounts DEF OpenExport, FileInv, StreamTypeOK
<1>5. StreamTypeOK'
  BY <1>1, <1>3, <1>4 DEF FileInv, StreamTypeOK
<1>6. AskedOK'
  BY <1>1, <1>3 DEF FileInv, AskedOK
<1>7. SnapshotOK'
  BY <1>1, <1>2, <1>3 DEF FileInv, SnapshotOK
<1>8. DeliveredOK'
  BY <1>1, <1>2, <1>3 DEF FileInv, DeliveredOK
<1> QED
  BY <1>5, <1>6, <1>7, <1>8 DEF FileInv

LEMMA DrainChannelStep ==
    ASSUME FileInv, DrainChannel
    PROVE  FileInv'
<1>1. /\ writer = "write" /\ writer' = "join" /\ channel = <<>> /\ reader \in {"ok", "error"}
      /\ UNCHANGED <<table, covered, req, meta, snap, page, streamed, reader, channel, cancelled, writeErr, file, answer, strFaults>>
  BY DEF DrainChannel, readerVars
<1>2. StreamTypeOK'
  BY <1>1 DEF FileInv, StreamTypeOK
<1>3. AskedOK'
  BY <1>1 DEF FileInv, AskedOK
<1>4. SnapshotOK'
  BY <1>1 DEF FileInv, SnapshotOK
<1>5. DeliveredOK'
  BY <1>1 DEF FileInv, DeliveredOK
<1> QED
  BY <1>2, <1>3, <1>4, <1>5 DEF FileInv

LEMMA JoinReaderStep ==
    ASSUME FileInv, JoinReader
    PROVE  FileInv'
<1>1. /\ writer = "join" /\ reader \in {"ok", "error"}
      /\ UNCHANGED <<table, covered, req, meta, snap, page, streamed, reader, channel, cancelled, writeErr, file, answer>>
  BY DEF JoinReader, readerVars
<1>2. writer' = "failed" \/ (writer' = "done" /\ ~writeErr /\ reader = "ok")
  BY DEF JoinReader
<1>3. strFaults' \in 0 .. MaxStreamFaults
  BY FaultCounts DEF JoinReader, FileInv, StreamTypeOK
<1>4. StreamTypeOK'
  BY <1>1, <1>2, <1>3 DEF FileInv, StreamTypeOK
<1>5. AskedOK'
  BY <1>1, <1>2 DEF FileInv, AskedOK
<1>6. SnapshotOK'
  BY <1>1, <1>2 DEF FileInv, SnapshotOK
<1>7. DeliveredOK'
  BY <1>1, <1>2 DEF FileInv, DeliveredOK
<1> QED
  BY <1>4, <1>5, <1>6, <1>7 DEF FileInv

LEMMA BeginSnapshotStep ==
    ASSUME FileInv, BeginSnapshot
    PROVE  FileInv'
<1>1. /\ reader = "begin"
      /\ UNCHANGED <<table, covered, page, streamed, channel, cancelled, req, meta, writer, writeErr, file, answer>>
  BY DEF BeginSnapshot, writerVars
<1>2. /\ snap = {} /\ streamed = 0 /\ channel = <<>> /\ file = <<>> /\ writer \notin {"idle", "open"}
      /\ writer # "done" /\ (writer = "join" => writeErr)
  BY <1>1 DEF FileInv, SnapshotOK, DeliveredOK
<1>3. \/ reader' = "query" /\ snap' = Exported(table, req)
      \/ reader' = "error" /\ snap' = snap
  BY DEF BeginSnapshot
<1>4. strFaults' \in 0 .. MaxStreamFaults
  BY FaultCounts DEF BeginSnapshot, FileInv, StreamTypeOK
<1>5. /\ table \subseteq Rows /\ meta \subseteq table /\ Exported(table, req) \subseteq table
      /\ Exported(meta, req) \subseteq Exported(table, req)
      /\ Exported(table, req) \subseteq Exported(Rows, req)
  <2>1. table \subseteq Rows /\ meta \subseteq table
    BY DEF FileInv, StreamTypeOK
  <2> QED
    BY <2>1, ExportedMonotone, ExportedType
<1>6. snap' \subseteq table
  BY <1>2, <1>3, <1>5
<1>7. StreamTypeOK'
  BY <1>1, <1>3, <1>4, <1>6 DEF FileInv, StreamTypeOK
<1>8. AskedOK'
  BY <1>1 DEF FileInv, AskedOK
<1>9. SnapshotOK'
  <2>1. snap' \in SUBSET Rows
    BY <1>5, <1>6
  <2>2. Cardinality(snap') \in Nat
    BY <2>1, RowsAreFinite
  <2>3. streamed' \in 0 .. Cardinality(snap')
    BY <1>1, <1>2, <2>2
  <2>4. \A r \in snap' : r \in Exported(Rows, req')
    BY <1>1, <1>2, <1>3, <1>5
  <2>5. reader' = "query" => Exported(meta', req') \subseteq snap'
    BY <1>1, <1>3, <1>5
  <2> QED
    BY <1>1, <1>2, <1>3, <2>3, <2>4, <2>5 DEF SnapshotOK
<1>10. DeliveredOK'
  <2>1. snap' \in SUBSET Rows
    BY <1>5, <1>6
  <2>2. IsPrefix(file', Ordered(snap')) /\ Len(file') = 0
    BY <1>1, <1>2, <2>1, EmptyIsPrefix
  <2>3. channel' \in Seq(Seq(Rows)) /\ channel' = <<>> /\ streamed' = Len(file') /\ DOMAIN channel' = {}
    BY <1>1, <1>2, <2>2, EmptySeq
  <2> QED
    BY <1>1, <1>2, <1>3, <2>2, <2>3 DEF FileInv, DeliveredOK
<1> QED
  BY <1>7, <1>8, <1>9, <1>10 DEF FileInv

LEMMA FetchPageStep ==
    ASSUME FileInv, FetchPage
    PROVE  FileInv'
<1>1. /\ reader = "query"
      /\ UNCHANGED <<table, covered, snap, streamed, channel, cancelled, req, meta, writer, writeErr, file, answer>>
  BY DEF FetchPage, writerVars
<1>2. \/ reader' = "error"
      \/ reader' = "send" /\ page' = PageAt(snap, streamed) /\ page' # <<>>
      \/ reader' = "commit" /\ PageAt(snap, streamed) = <<>>
  BY DEF FetchPage, SnapshotRows
<1>3. strFaults' \in 0 .. MaxStreamFaults
  BY FaultCounts DEF FetchPage, FileInv, StreamTypeOK
<1>4. streamed \in 0 .. Cardinality(snap) /\ snap \in SUBSET Rows
  BY DEF FileInv, SnapshotOK, StreamTypeOK
<1>5. reader' = "commit" => streamed = Cardinality(snap)
  BY <1>2, <1>4, PageIs
<1>6. StreamTypeOK'
  BY <1>1, <1>2, <1>3 DEF FileInv, StreamTypeOK
<1>7. AskedOK'
  BY <1>1 DEF FileInv, AskedOK
<1>8. SnapshotOK'
  BY <1>1, <1>2, <1>5 DEF FileInv, SnapshotOK
<1>9. DeliveredOK'
  BY <1>1, <1>2 DEF FileInv, DeliveredOK
<1> QED
  BY <1>6, <1>7, <1>8, <1>9 DEF FileInv

LEMMA CommitSnapshotStep ==
    ASSUME FileInv, CommitSnapshot
    PROVE  FileInv'
<1>1. /\ reader = "commit" /\ reader' \in {"ok", "error"}
      /\ UNCHANGED <<table, covered, snap, page, streamed, channel, cancelled, req, meta, writer, writeErr, file, answer>>
  BY DEF CommitSnapshot, writerVars
<1>2. strFaults' \in 0 .. MaxStreamFaults
  BY FaultCounts DEF CommitSnapshot, FileInv, StreamTypeOK
<1>3. StreamTypeOK'
  BY <1>1, <1>2 DEF FileInv, StreamTypeOK
<1>4. AskedOK'
  BY <1>1 DEF FileInv, AskedOK
<1>5. SnapshotOK'
  BY <1>1 DEF FileInv, SnapshotOK
<1>6. DeliveredOK'
  BY <1>1 DEF FileInv, DeliveredOK
<1> QED
  BY <1>3, <1>4, <1>5, <1>6 DEF FileInv

\* Where the pages of the channel are, while no write has failed.
LEMMA ChannelPages ==
    ASSUME FileInv, ~writeErr, NEW P, P = PageSize, NEW n, n = Len(channel)
    PROVE  /\ P \in Nat /\ P > 0 /\ n \in Nat /\ DOMAIN channel = 1 .. n
           /\ \A i \in 1 .. n : /\ channel[i] \in Seq(Rows) /\ channel[i] = PageAt(snap, Len(file) + (i - 1) * P)
                                /\ Len(channel[i]) \in 1 .. P
                                /\ (i < n \/ reader \in {"query", "send"}) => Len(channel[i]) = P
           /\ channel = <<>> <=> n = 0
           /\ n = 0 => streamed = Len(file)
           /\ n # 0 => streamed = Len(file) + (n - 1) * P + Len(channel[n])
<1>1. channel \in Seq(Seq(Rows))
  BY DEF FileInv, DeliveredOK
<1>2. P \in Nat /\ P > 0
  BY StreamAssumption
<1>3. n \in Nat /\ DOMAIN channel = 1 .. n /\ (channel = <<>> <=> n = 0)
  BY <1>1, LenProperties, EmptySeq
<1>4. \A i \in 1 .. n : channel[i] \in Seq(Rows)
  BY <1>1, ElementOfSeq
<1>5. \A i \in 1 .. n : channel[i] = PageAt(snap, Len(file) + (i - 1) * P)
  BY <1>3 DEF FileInv, DeliveredOK
<1>6. \A i \in 1 .. n : Len(channel[i]) \in 1 .. P
  BY <1>3 DEF FileInv, StreamTypeOK
<1>7. \A i \in 1 .. n : (i < n \/ reader \in {"query", "send"}) => Len(channel[i]) = P
  BY <1>3 DEF FileInv, DeliveredOK
<1>8. streamed = IF channel = <<>> THEN Len(file) ELSE Len(file) + (n - 1) * P + Len(channel[n])
  BY DEF FileInv, DeliveredOK
<1> QED
  BY <1>2, <1>3, <1>4, <1>5, <1>6, <1>7, <1>8

LEMMA SendPageStep ==
    ASSUME FileInv, SendPage
    PROVE  FileInv'
<1>1. /\ reader = "send"
      /\ UNCHANGED <<table, covered, snap, cancelled, req, meta, writer, writeErr, file, answer, strFaults>>
  BY DEF SendPage, writerVars
<1>2. writer \notin {"idle", "open"} /\ page = PageAt(snap, streamed) /\ page # <<>>
  BY <1>1 DEF FileInv, SnapshotOK
<1>3. CASE cancelled
  <2>1. reader' = "error" /\ UNCHANGED <<page, streamed, channel>>
    BY <1>3 DEF SendPage
  <2>2. StreamTypeOK'
    BY <1>1, <2>1 DEF FileInv, StreamTypeOK
  <2>3. AskedOK'
    BY <1>1 DEF FileInv, AskedOK
  <2>4. SnapshotOK'
    BY <1>1, <1>2, <2>1 DEF FileInv, SnapshotOK
  <2>5. DeliveredOK'
    BY <1>1, <2>1 DEF FileInv, DeliveredOK
  <2> QED
    BY <2>2, <2>3, <2>4, <2>5 DEF FileInv
<1>4. CASE ~cancelled
  <2>1. /\ Len(channel) < ChannelCapacity /\ channel' = Append(channel, page) /\ page' = <<>>
        /\ streamed' = streamed + Len(page) /\ reader' = AfterPage(Len(page), streamed')
    BY <1>4 DEF SendPage, Room
  <2>2. ~writeErr
    BY <1>4 DEF FileInv, DeliveredOK
  <2>3. writer \notin {"join", "done"}
    BY <1>1, <2>2 DEF FileInv, DeliveredOK
  <2>4. PICK P : P = PageSize
    OBVIOUS
  <2>5. PICK n : n = Len(channel)
    OBVIOUS
  <2>6. /\ P \in Nat /\ P > 0 /\ n \in Nat /\ DOMAIN channel = 1 .. n
        /\ \A i \in 1 .. n : /\ channel[i] \in Seq(Rows) /\ channel[i] = PageAt(snap, Len(file) + (i - 1) * P)
                             /\ Len(channel[i]) = P
        /\ n = 0 => streamed = Len(file)
        /\ n # 0 => streamed = Len(file) + (n - 1) * P + Len(channel[n])
    BY <1>1, <2>2, <2>4, <2>5, ChannelPages
  <2>7. snap \in SUBSET Rows /\ Cardinality(snap) \in Nat /\ Len(file) \in Nat /\ streamed \in 0 .. Cardinality(snap)
    BY RecordIsInSnapshot DEF FileInv, SnapshotOK
  <2>8. /\ page \in Seq(Rows) /\ Len(page) \in 1 .. P /\ streamed + Len(page) <= Cardinality(snap)
        /\ Len(page) < P => streamed + Len(page) = Cardinality(snap)
    <3>1. /\ page \in Seq(Rows)
          /\ Len(page) = IF streamed + PageSize < Cardinality(snap) THEN PageSize ELSE Cardinality(snap) - streamed
          /\ page = <<>> <=> streamed = Cardinality(snap)
      BY <1>2, <2>7, PageIs
    <3>2. streamed < Cardinality(snap)
      BY <1>2, <2>7, <3>1
    <3>3. P \in Nat /\ P > 0 /\ P = PageSize
      BY <2>4, <2>6
    <3>4. Len(page) = IF streamed + P < Cardinality(snap) THEN P ELSE Cardinality(snap) - streamed
      BY <3>1, <3>3
    <3>5. Len(page) \in 1 .. P
      BY <2>7, <3>2, <3>3, <3>4
    <3>6. /\ streamed + Len(page) <= Cardinality(snap)
          /\ Len(page) < P => streamed + Len(page) = Cardinality(snap)
      BY <2>7, <3>2, <3>3, <3>4
    <3> QED
      BY <3>1, <3>5, <3>6
  <2>9. streamed = Len(file) + n * P
    <3>1. CASE n = 0
      BY <2>6, <2>7, <3>1
    <3>2. CASE n # 0
      <4>1. n \in 1 .. n
        BY <2>6, <3>2
      <4>2. Len(channel[n]) = P
        BY <2>6, <4>1
      <4>3. (n - 1) * P + P = n * P
        BY <2>6
      <4>4. (n - 1) * P \in Int /\ n * P \in Int
        BY <2>6
      <4> QED
        BY <2>6, <2>7, <3>2, <4>2, <4>3, <4>4
    <3> QED
      BY <3>1, <3>2
  <2>10. /\ channel' \in Seq(Seq(Rows)) /\ Len(channel') = n + 1
         /\ \A i \in 1 .. n : channel'[i] = channel[i]
         /\ channel'[n + 1] = page
    BY <2>1, <2>5, <2>8, AppendProperties DEF FileInv, DeliveredOK
  <2>11. DOMAIN channel' = 1 .. n + 1 /\ channel' # <<>>
    BY <2>6, <2>10, LenProperties, EmptySeq
  <2>12. StreamTypeOK'
    <3>1. \A i \in DOMAIN channel' : Len(channel'[i]) \in 1 .. PageSize
      BY <2>4, <2>6, <2>8, <2>10, <2>11
    <3>2. reader' \in {"commit", "query"}
      BY <2>1 DEF AfterPage
    <3>3. ChannelCapacity \in Nat
      BY StreamAssumption
    <3>4. Len(channel') <= ChannelCapacity
      BY <2>1, <2>5, <2>6, <2>10, <3>3
    <3> QED
      BY <1>1, <3>1, <3>2, <3>4 DEF FileInv, StreamTypeOK
  <2>13. AskedOK'
    BY <1>1 DEF FileInv, AskedOK
  <2>14. SnapshotOK'
    <3>1. reader' \in {"commit", "query"}
      BY <2>1 DEF AfterPage
    <3>2. streamed' \in 0 .. Cardinality(snap')
      BY <1>1, <2>1, <2>6, <2>7, <2>8
    <3>3. reader' = "commit" => streamed' >= HardCap \/ streamed' = Cardinality(snap')
      BY <1>1, <2>1, <2>4, <2>8 DEF AfterPage
    <3> QED
      BY <1>1, <1>2, <3>1, <3>2, <3>3 DEF FileInv, SnapshotOK
  <2>15. DeliveredOK'
    <3>1. \A i \in DOMAIN channel' : channel'[i] = PageAt(snap', Len(file') + (i - 1) * PageSize)
      <4> SUFFICES ASSUME NEW i \in 1 .. n + 1 PROVE channel'[i] = PageAt(snap, Len(file) + (i - 1) * P)
        BY <1>1, <2>4, <2>11
      <4>1. CASE i \in 1 .. n
        BY <2>6, <2>10, <4>1
      <4>2. CASE i = n + 1
        <5>1. i - 1 = n
          BY <2>6, <4>2
        <5> QED
          BY <1>2, <2>9, <2>10, <4>2, <5>1
      <4> QED
        BY <2>6, <4>1, <4>2
    <3>2. \A i \in DOMAIN channel' :
             i < Len(channel') \/ reader' \in {"query", "send"} => Len(channel'[i]) = PageSize
      <4> SUFFICES ASSUME NEW i \in 1 .. n + 1, i < n + 1 \/ reader' \in {"query", "send"}
                   PROVE  Len(channel'[i]) = P
        BY <2>4, <2>10, <2>11
      <4>1. CASE i \in 1 .. n
        BY <2>6, <2>10, <4>1
      <4>2. CASE i = n + 1
        <5>1. ~ (Len(page) < PageSize)
          BY <2>1, <2>6, <4>2 DEF AfterPage
        <5> QED
          BY <2>4, <2>6, <2>8, <2>10, <4>2, <5>1
      <4> QED
        BY <2>6, <4>1, <4>2
    <3>3. streamed' = Len(file') + (Len(channel') - 1) * PageSize + Len(channel'[Len(channel')])
      <4>1. Len(channel') - 1 = n /\ channel'[Len(channel')] = page
        BY <2>6, <2>10
      <4> QED
        BY <1>1, <2>1, <2>4, <2>9, <4>1
    <3>4. channel' \in Seq(Seq(Rows)) /\ IsPrefix(file', Ordered(snap'))
      BY <1>1, <2>10 DEF FileInv, DeliveredOK
    <3> QED
      BY <1>1, <2>2, <2>3, <2>11, <3>1, <3>2, <3>3, <3>4 DEF DeliveredOK
  <2> QED
    BY <2>12, <2>13, <2>14, <2>15 DEF FileInv
<1> QED
  BY <1>3, <1>4

\* What is left of the channel when its first page is taken.
LEMMA ChannelTail ==
    ASSUME FileInv, channel # <<>>, NEW n, n = Len(channel)
    PROVE  /\ n \in Nat /\ n > 0 /\ Tail(channel) \in Seq(Seq(Rows)) /\ Head(channel) = channel[1]
           /\ Len(Tail(channel)) = n - 1 /\ DOMAIN Tail(channel) = 1 .. n - 1
           /\ \A i \in 1 .. n - 1 : Tail(channel)[i] = channel[i + 1]
           /\ Len(Tail(channel)) <= ChannelCapacity
           /\ \A i \in DOMAIN Tail(channel) : Len(Tail(channel)[i]) \in 1 .. PageSize
<1>1. channel \in Seq(Seq(Rows)) /\ n \in Nat /\ n > 0 /\ DOMAIN channel = 1 .. n
  BY LenProperties, EmptySeq DEF FileInv, DeliveredOK
<1>2. Head(channel) = channel[1] /\ Tail(channel) \in Seq(Seq(Rows)) /\ Len(Tail(channel)) = n - 1
      /\ \A i \in 1 .. n - 1 : Tail(channel)[i] = channel[i + 1]
  BY <1>1, HeadTailProperties
<1>3. DOMAIN Tail(channel) = 1 .. n - 1
  BY <1>1, <1>2, LenProperties
<1>4. ChannelCapacity \in Nat /\ n <= ChannelCapacity
  BY StreamAssumption DEF FileInv, StreamTypeOK
<1>5. \A i \in 1 .. n : Len(channel[i]) \in 1 .. PageSize
  BY <1>1 DEF FileInv, StreamTypeOK
<1>6. ASSUME NEW i \in 1 .. n - 1 PROVE Len(Tail(channel)[i]) \in 1 .. PageSize
  <2>1. i + 1 \in 1 .. n
    BY <1>1
  <2> QED
    BY <1>2, <1>5, <2>1
<1> QED
  BY <1>1, <1>2, <1>3, <1>4, <1>6

LEMMA WritePageStep ==
    ASSUME FileInv, WritePage
    PROVE  FileInv'
<1>1. /\ writer = "write" /\ channel # <<>> /\ channel' = Tail(channel)
      /\ UNCHANGED <<table, covered, req, meta, snap, page, streamed, reader, answer>>
  BY DEF WritePage, readerVars
<1>2. ~writeErr /\ reader \notin {"idle", "begin"}
  BY <1>1 DEF FileInv, DeliveredOK, SnapshotOK
<1>3. PICK n : n = Len(channel)
  OBVIOUS
<1>4. /\ n \in Nat /\ n > 0 /\ Tail(channel) \in Seq(Seq(Rows)) /\ Head(channel) = channel[1]
      /\ Len(Tail(channel)) = n - 1 /\ DOMAIN Tail(channel) = 1 .. n - 1
      /\ \A i \in 1 .. n - 1 : Tail(channel)[i] = channel[i + 1]
      /\ Len(Tail(channel)) <= ChannelCapacity
      /\ \A i \in DOMAIN Tail(channel) : Len(Tail(channel)[i]) \in 1 .. PageSize
  BY <1>1, <1>3, ChannelTail
<1>5. strFaults' \in 0 .. MaxStreamFaults
  BY FaultCounts DEF WritePage, FileInv, StreamTypeOK
<1>6. CASE /\ ~cancelled /\ file' = file \o Head(channel)
           /\ UNCHANGED <<writer, writeErr, cancelled, strFaults>>
  <2>1. PICK P : P = PageSize
    OBVIOUS
  <2>2. /\ P \in Nat /\ P > 0
        /\ \A i \in 1 .. n : /\ channel[i] = PageAt(snap, Len(file) + (i - 1) * P) /\ Len(channel[i]) \in 1 .. P
                             /\ (i < n \/ reader \in {"query", "send"}) => Len(channel[i]) = P
        /\ streamed = Len(file) + (n - 1) * P + Len(channel[n])
    BY <1>2, <1>3, <1>4, <2>1, ChannelPages
  <2>3. snap \in SUBSET Rows /\ file \in Seq(Rows) /\ Len(file) \in Nat /\ IsPrefix(file, Ordered(snap))
    BY RecordIsInSnapshot DEF FileInv, DeliveredOK
  <2>4. Head(channel) = PageAt(snap, Len(file))
    <3>1. 1 \in 1 .. n /\ Len(file) + (1 - 1) * P = Len(file)
      BY <1>4, <2>2, <2>3
    <3> QED
      BY <1>4, <2>2, <3>1
  <2>5. /\ file' \in Seq(Rows) /\ Len(file') = Len(file) + Len(channel[1])
        /\ IsPrefix(file', Ordered(snap))
    <3>1. PICK g : g = PageAt(snap, Len(file))
      OBVIOUS
    <3>2. file \o g \in Seq(Rows) /\ Len(file \o g) = Len(file) + Len(g) /\ IsPrefix(file \o g, Ordered(snap))
      BY <2>3, <3>1, PrefixGrows
    <3>3. file' = file \o g /\ channel[1] = g
      BY <1>4, <1>6, <2>4, <3>1
    <3> QED
      BY <3>2, <3>3
  <2>6. n > 1 => Len(file') = Len(file) + P
    <3>1. n > 1 => 1 \in 1 .. n /\ 1 < n
      BY <1>4
    <3>2. n > 1 => Len(channel[1]) = P
      BY <2>2, <3>1
    <3> QED
      BY <2>5, <3>2
  <2>7. StreamTypeOK'
    BY <1>1, <1>4, <1>5, <1>6, <2>5 DEF FileInv, StreamTypeOK
  <2>8. AskedOK'
    BY <1>1, <1>6 DEF FileInv, AskedOK
  <2>9. SnapshotOK'
    BY <1>1, <1>2, <1>6 DEF FileInv, SnapshotOK
  <2>10. DeliveredOK'
    <3>1. \A i \in DOMAIN channel' : channel'[i] = PageAt(snap', Len(file') + (i - 1) * PageSize)
      <4> SUFFICES ASSUME NEW i \in 1 .. n - 1
                   PROVE  channel[i + 1] = PageAt(snap, Len(file') + (i - 1) * P)
        BY <1>1, <1>4, <2>1
      <4>1. n > 1 /\ i + 1 \in 1 .. n /\ (i + 1) - 1 = i /\ i \in Nat
        BY <1>4
      <4>2. (i - 1) * P + P = i * P /\ (i - 1) * P \in Int /\ i * P \in Int
        BY <2>2, <4>1
      <4>3. Len(file') + (i - 1) * P = Len(file) + i * P
        <5>1. P \in Nat /\ Len(file) \in Nat /\ Len(file') = Len(file) + P
          BY <2>2, <2>3, <2>6, <4>1
        <5> QED
          BY <4>2, <5>1
      <4> QED
        BY <2>2, <4>1, <4>3
    <3>2. \A i \in DOMAIN channel' :
             i < Len(channel') \/ reader' \in {"query", "send"} => Len(channel'[i]) = PageSize
      <4> SUFFICES ASSUME NEW i \in 1 .. n - 1, i < n - 1 \/ reader \in {"query", "send"}
                   PROVE  Len(channel[i + 1]) = P
        BY <1>1, <1>4, <2>1
      <4>1. i + 1 \in 1 .. n /\ (i < n - 1 => i + 1 < n)
        BY <1>4
      <4> QED
        BY <2>2, <4>1
    <3>3. streamed' = IF channel' = <<>> THEN Len(file')
                      ELSE Len(file') + (Len(channel') - 1) * PageSize + Len(channel'[Len(channel')])
      <4>1. channel' = <<>> <=> n = 1
        <5>1. channel' \in Seq(Seq(Rows)) /\ Len(channel') = n - 1
          BY <1>1, <1>4
        <5>2. channel' = <<>> <=> Len(channel') = 0
          BY <5>1, EmptySeq
        <5> QED
          BY <1>4, <5>1, <5>2
      <4>2. streamed = Len(file) + (n - 1) * P + Len(channel[n])
        BY <2>2
      <4>3. CASE n = 1
        <5>1. (n - 1) * P = 0 /\ Len(channel[n]) = Len(channel[1]) /\ Len(channel[1]) \in Nat
          BY <1>4, <2>2, <4>3
        <5> QED
          BY <1>1, <2>3, <2>5, <4>1, <4>2, <4>3, <5>1
      <4>4. CASE n > 1
        <5>1. n - 1 \in 1 .. n - 1 /\ (n - 1) + 1 = n /\ n \in 1 .. n
          BY <1>4, <4>4
        <5>2. channel'[Len(channel')] = channel[n] /\ Len(channel') - 1 = n - 2 /\ Len(channel[n]) \in Nat
          BY <1>1, <1>4, <2>2, <5>1
        <5>3. (n - 2) * P + P = (n - 1) * P /\ (n - 2) * P \in Int /\ (n - 1) * P \in Int
          BY <1>4, <2>2
        <5>4. streamed = Len(file') + (n - 2) * P + Len(channel[n])
          <6>1. P \in Nat /\ Len(file) \in Nat /\ Len(file') = Len(file) + P /\ Len(channel[n]) \in Nat
            BY <2>2, <2>3, <2>6, <4>4, <5>2
          <6> QED
            BY <4>2, <5>3, <6>1
        <5> QED
          BY <1>1, <1>4, <2>1, <4>1, <4>4, <5>2, <5>4
      <4> QED
        BY <1>4, <4>3, <4>4
    <3>4. channel' \in Seq(Seq(Rows)) /\ IsPrefix(file', Ordered(snap'))
      BY <1>1, <1>4, <2>5
    <3> QED
      BY <1>1, <1>2, <1>6, <3>1, <3>2, <3>3, <3>4 DEF DeliveredOK
  <2> QED
    BY <2>7, <2>8, <2>9, <2>10 DEF FileInv
<1>7. CASE writer' = "join" /\ writeErr' = TRUE /\ cancelled' = TRUE /\ UNCHANGED file
  <2>1. StreamTypeOK'
    BY <1>1, <1>4, <1>5, <1>7 DEF FileInv, StreamTypeOK
  <2>2. AskedOK'
    BY <1>1, <1>7 DEF FileInv, AskedOK
  <2>3. SnapshotOK'
    BY <1>1, <1>2, <1>7 DEF FileInv, SnapshotOK
  <2>4. DeliveredOK'
    BY <1>1, <1>4, <1>7 DEF FileInv, DeliveredOK
  <2> QED
    BY <2>1, <2>2, <2>3, <2>4 DEF FileInv
<1> QED
  BY <1>6, <1>7 DEF WritePage

-----------------------------------------------------------------------------
(* The theorems *)

LEMMA StreamStutter ==
    ASSUME FileInv, UNCHANGED streamVars
    PROVE  FileInv'
<1>1. UNCHANGED <<table, covered, snap, page, streamed, reader, channel, cancelled, req, meta, writer, writeErr, file, answer, strFaults>>
  BY DEF streamVars, readerVars, writerVars
<1>2. StreamTypeOK'
  BY <1>1 DEF FileInv, StreamTypeOK
<1>3. AskedOK'
  BY <1>1 DEF FileInv, AskedOK
<1>4. SnapshotOK'
  BY <1>1 DEF FileInv, SnapshotOK
<1>5. DeliveredOK'
  BY <1>1 DEF FileInv, DeliveredOK
<1> QED
  BY <1>2, <1>3, <1>4, <1>5 DEF FileInv

\* Whatever the disk, the database, the lease and ingestion do, the file is the
\* beginning of the one snapshot the reader took, and the pages in the channel are
\* what follows (write_export_to_file and stream_export_snapshot).
THEOREM FileInvariant == StreamSpec => []FileInv
<1>1. StreamInit => FileInv
  BY FileInit
<1>2. FileInv /\ [StreamNext]_streamVars => FileInv'
  <2> SUFFICES ASSUME FileInv, [StreamNext]_streamVars PROVE FileInv'
    OBVIOUS
  <2>1. CASE \E q \in Requests : StartExport(q) \/ QueryDataset(q)
    BY <2>1, StartExportStep, QueryDatasetStep
  <2>2. CASE WriterStep
    BY <2>2, OpenExportStep, WritePageStep, DrainChannelStep, JoinReaderStep DEF WriterStep
  <2>3. CASE ReaderStep
    BY <2>3, BeginSnapshotStep, FetchPageStep, SendPageStep, CommitSnapshotStep DEF ReaderStep
  <2>4. CASE CancelExport \/ CoverRows
    BY <2>4, CancelExportStep, CoverRowsStep
  <2>5. CASE \E r \in Rows : InsertRow(r)
    BY <2>5, InsertRowStep
  <2>6. CASE UNCHANGED streamVars
    BY <2>6, StreamStutter
  <2> QED
    BY <2>1, <2>2, <2>3, <2>4, <2>5, <2>6 DEF StreamNext
<1> QED
  BY <1>1, <1>2, PTL DEF StreamSpec

\* A finished export file is the snapshot in order, each row once, cut only by the
\* hard cap; it has every row dataset_completeness claimed when it began; it holds
\* only rows about its target; and it is made in bounded memory - for every table,
\* page size, channel capacity and cap.
THEOREM ExportsAreFaithful == StreamSpec => []ExportFaithful
<1>1. FileInv => ExportFaithful
  BY FileInvSays
<1> QED
  BY <1>1, FileInvariant, PTL
=============================================================================
