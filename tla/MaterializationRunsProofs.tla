---------------------- MODULE MaterializationRunsProofs ----------------------
(* Proofs about the runs of materializations, for any number of workers and runs,
   about the gold materialization that a run is, for any number of tasks,
   ingestion runs and inputs, and about the Silver rows, the ledger and the
   balance history of any payload that meets the assumption on payloads. *)
EXTENDS MaterializationRuns, GoldMaterialization, SilverLedger, CountingLemmas,
        SequenceTheorems

\* A task that moves on keeps its run and its claim.
LEMMA MovedTask ==
    ASSUME NEW t \in Tasks, NEW l \in Locations
    PROVE  LET u == [t EXCEPT !.pc = l]
           IN  u \in Tasks /\ u.run = t.run /\ u.num = t.num /\ u.pc = l
  BY DEF Tasks

\* A task that notices the loss of its lease stays where it is.
LEMMA WarnedTask ==
    ASSUME NEW t \in Tasks
    PROVE  LET u == [t EXCEPT !.lost = TRUE]
           IN  u \in Tasks /\ u.run = t.run /\ u.num = t.num /\ u.pc = t.pc
  BY DEF Tasks

LEMMA GotoType ==
    ASSUME TypeOK, NEW t \in tasks, NEW l \in Locations, Goto(t, l)
    PROVE  tasks' \subseteq Tasks
  BY MovedTask DEF Goto, TypeOK

LEMMA EndType ==
    ASSUME TypeOK, NEW t \in tasks, End(t)
    PROVE  tasks' \subseteq Tasks
  BY DEF End, TypeOK

LEMMA FinishType ==
    ASSUME TypeOK, NEW t \in tasks, NEW s \in Terminal, NEW l \in Locations, Finish(t, s, l)
    PROVE  TypeOK'
<1>1. t.run \in Runs
  BY DEF TypeOK, Tasks
<1>2. tasks' \subseteq Tasks
  BY GotoType, EndType DEF Finish
<1>3. status' = status \/ status' = [status EXCEPT ![t.run] = s]
  BY DEF Finish
<1>4. status' \in [Runs -> {"absent", "pending", "running"} \cup Terminal]
  BY <1>1, <1>3 DEF TypeOK
<1>5. faults' \in 0..MaxFaults
  BY ConstantsAssumption DEF Finish, Fault, NoFault, TypeOK
<1> QED
  BY <1>2, <1>4, <1>5 DEF Finish, TypeOK

LEMMA TypeStep == TypeOK /\ [Next]_vars => TypeOK'
<1> SUFFICES ASSUME TypeOK, [Next]_vars PROVE TypeOK'
  OBVIOUS
<1>1. ASSUME NEW r \in Runs, Create(r) PROVE TypeOK'
  BY <1>1 DEF Create, TypeOK
<1>2. ASSUME NEW r \in Runs, Expire(r) PROVE TypeOK'
  BY <1>2, ConstantsAssumption DEF Expire, TypeOK, Fault, NoFault
<1>3. ASSUME NEW w \in Workers, NEW r \in Runs, Claim(w, r) PROVE TypeOK'
  <2>1. /\ status' \in [Runs -> {"absent", "pending", "running"} \cup Terminal]
        /\ owner' \in [Runs -> Workers \cup {NoWorker}]
        /\ lease' \in [Runs -> Nat] /\ fresh' \subseteq Runs
    BY <1>3 DEF Claim, TypeOK
  <2>2. tasks' \subseteq Tasks
    <3>1. lease[r] + 1 \in Nat
      BY DEF TypeOK
    <3>2. \A l \in Locations :
            [run |-> r, num |-> lease[r] + 1, worker |-> w, lost |-> FALSE, pc |-> l] \in Tasks
      BY <3>1 DEF Tasks
    <3>3. (IF r \in BadScope THEN "reject" ELSE "resolve") \in Locations
      BY DEF Locations
    <3> QED
      BY <1>3, <3>2, <3>3 DEF Claim, TypeOK
  <2>3. loop' \in [Workers -> {"running", "stopped", "exited"}]
    BY <1>3 DEF Claim, TypeOK
  <2>4. faults' \in 0..MaxFaults
    BY <1>3, ConstantsAssumption DEF Claim, TypeOK, Fault, NoFault
  <2> QED
    BY <1>3, <2>1, <2>2, <2>3, <2>4 DEF Claim, TypeOK
<1>4. ASSUME NEW t \in tasks, Heartbeat(t) PROVE TypeOK'
  <2>1. tasks' \subseteq Tasks
    BY <1>4, WarnedTask DEF Heartbeat, TypeOK
  <2>2. t.run \in Runs
    BY DEF TypeOK, Tasks
  <2> QED
    BY <1>4, <2>1, <2>2 DEF Heartbeat, TypeOK
<1>5. ASSUME NEW t \in tasks, ResolveInput(t) \/ CheckLease(t) PROVE TypeOK'
  <2>1. (\E l \in Locations : Goto(t, l)) \/ End(t)
    BY <1>5 DEF ResolveInput, CheckLease, Locations
  <2>2. tasks' \subseteq Tasks
    BY <2>1, GotoType, EndType
  <2> QED
    BY <1>5, <2>2 DEF ResolveInput, CheckLease, rowVars, TypeOK
<1>6. ASSUME NEW t \in tasks, Write(t) PROVE TypeOK'
  <2>1. \E l \in Locations : Goto(t, l)
    BY <1>6 DEF Write, Locations
  <2>2. tasks' \subseteq Tasks
    BY <2>1, GotoType
  <2>3. IngestionRun[t.run] \in Nat
    BY ConstantsAssumption DEF TypeOK, Tasks
  <2>4. written' \subseteq Nat
    BY <1>6, <2>3 DEF Write, TypeOK
  <2> QED
    BY <1>6, <2>2, <2>4 DEF Write, rowVars, TypeOK
<1>7. ASSUME NEW t \in tasks, Complete(t) PROVE TypeOK'
  BY <1>7, FinishType DEF Complete, Terminal, Locations
<1>8. ASSUME NEW t \in tasks, Fail(t) PROVE TypeOK'
  BY <1>8, FinishType DEF Fail, Terminal, Locations
<1>9. ASSUME NEW t \in tasks, Reject(t) PROVE TypeOK'
  <2>1. t.run \in Runs /\ t.num \in Nat
    BY DEF TypeOK, Tasks
  <2>2. tasks' \subseteq Tasks
    BY <1>9, EndType DEF Reject
  <2>3. status' = status \/ status' = [status EXCEPT ![t.run] = "failed"]
    BY <1>9 DEF Reject
  <2>4. status' \in [Runs -> {"absent", "pending", "running"} \cup Terminal]
    BY <2>1, <2>3 DEF TypeOK, Terminal
  <2>5. faults' \in 0..MaxFaults
    BY <1>9, ConstantsAssumption DEF Reject, Fault, NoFault, TypeOK
  <2> QED
    BY <1>9, <2>2, <2>4, <2>5 DEF Reject, TypeOK
<1>10. ASSUME NEW t \in tasks, Watermark(t) PROVE TypeOK'
  <2>1. tasks' \subseteq Tasks
    BY <1>10, GotoType DEF Watermark, Locations
  <2>2. IngestionRun[t.run] \in Nat
    BY ConstantsAssumption DEF TypeOK, Tasks
  <2>3. watermark' \in Nat
    BY <1>10, <2>2 DEF Watermark, NewWatermark, TypeOK
  <2> QED
    BY <1>10, <2>1, <2>3 DEF Watermark, rowVars, TypeOK
<1>11. ASSUME NEW t \in tasks, Notify(t) PROVE TypeOK'
  <2>1. tasks' \subseteq Tasks
    BY <1>11, EndType DEF Notify
  <2>2. t.run \in Runs /\ t.num \in Nat
    BY DEF TypeOK, Tasks
  <2>3. callbacks' \subseteq [run : Runs, num : Nat, status : Terminal]
    BY <1>11, <2>2 DEF Notify, TypeOK, Terminal
  <2> QED
    BY <1>11, <2>1, <2>3 DEF Notify, rowVars, TypeOK
<1>12. ASSUME NEW w \in Workers, Shutdown(w) \/ Exit(w) PROVE TypeOK'
  BY <1>12 DEF Shutdown, Exit, rowVars, TypeOK
<1>13. CASE UNCHANGED vars
  BY <1>13 DEF vars, rowVars, TypeOK
<1> QED
  BY <1>1, <1>2, <1>3, <1>4, <1>5, <1>6, <1>7, <1>8, <1>9, <1>10, <1>11, <1>12, <1>13
     DEF Next, TaskStep

-----------------------------------------------------------------------------
(* What a step may do to a row *)

\* A terminal update writes s to a row that was running, or nothing.
LEMMA FinishStatus ==
    ASSUME NEW t, NEW s, NEW l, Finish(t, s, l)
    PROVE  \/ status' = status
           \/ status[t.run] = "running" /\ status' = [status EXCEPT ![t.run] = s]
  BY DEF Finish, Owns

\* No statement touches a row that is completed or failed.
LEMMA TerminalIsFinal ==
    ASSUME TypeOK, [Next]_vars, NEW r \in Runs, status[r] \in Terminal
    PROVE  status'[r] = status[r]
<1> DEFINE RowChange ==
      \/ status' = status
      \/ \E q \in Runs, s \in {"pending", "running", "completed", "failed"} :
            status[q] \notin Terminal /\ status' = [status EXCEPT ![q] = s]
<1>1. RowChange
  <2>1. \A t \in tasks : t.run \in Runs
    BY DEF TypeOK, Tasks
  <2>2. ASSUME NEW q \in Runs, Create(q) PROVE RowChange
    BY <2>2 DEF Create, Terminal
  <2>3. ASSUME NEW w \in Workers, NEW q \in Runs, Claim(w, q) PROVE RowChange
    BY <2>3 DEF Claim, Claimable, Terminal
  <2>4. ASSUME NEW t \in tasks, Complete(t) \/ Fail(t) PROVE RowChange
    BY <2>1, <2>4, FinishStatus DEF Complete, Fail, Terminal
  <2>5. ASSUME NEW t \in tasks, Reject(t) PROVE RowChange
    BY <2>1, <2>5 DEF Reject, Owns, Terminal
  <2>6. ASSUME NEW q \in Runs, Expire(q) PROVE RowChange
    BY <2>6 DEF Expire
  <2>7. ASSUME NEW t \in tasks,
               Heartbeat(t) \/ ResolveInput(t) \/ CheckLease(t) \/ Write(t) \/ Watermark(t) \/ Notify(t)
        PROVE  RowChange
    BY <2>7 DEF Heartbeat, ResolveInput, CheckLease, Write, Watermark, Notify, rowVars
  <2>8. ASSUME NEW w \in Workers, Shutdown(w) \/ Exit(w) PROVE RowChange
    BY <2>8 DEF Shutdown, Exit, rowVars
  <2>9. CASE UNCHANGED vars
    BY <2>9 DEF vars, rowVars
  <2> QED
    BY <2>2, <2>3, <2>4, <2>5, <2>6, <2>7, <2>8, <2>9 DEF Next, TaskStep
<1> QED
  BY <1>1 DEF TypeOK

\* Only complete_materialization_run makes a run completed.
LEMMA CompletedBy ==
    ASSUME TypeOK, [Next]_vars, NEW r \in Runs, status'[r] = "completed"
    PROVE  status[r] = "completed" \/ \E t \in tasks : t.run = r /\ t.pc = "complete"
<1> DEFINE RowChange ==
      \/ status' = status
      \/ \E q \in Runs, s \in {"pending", "running", "failed"} : status' = [status EXCEPT ![q] = s]
      \/ \E t \in tasks : t.pc = "complete" /\ status' = [status EXCEPT ![t.run] = "completed"]
<1>1. RowChange
  <2>1. \A t \in tasks : t.run \in Runs
    BY DEF TypeOK, Tasks
  <2>2. ASSUME NEW q \in Runs, Create(q) PROVE RowChange
    BY <2>2 DEF Create
  <2>3. ASSUME NEW w \in Workers, NEW q \in Runs, Claim(w, q) PROVE RowChange
    BY <2>3 DEF Claim
  <2>4. ASSUME NEW t \in tasks, Complete(t) PROVE RowChange
    BY <2>4, FinishStatus DEF Complete
  <2>5. ASSUME NEW t \in tasks, Reject(t) \/ Fail(t) PROVE RowChange
    BY <2>1, <2>5, FinishStatus DEF Reject, Fail
  <2>6. ASSUME NEW q \in Runs, Expire(q) PROVE RowChange
    BY <2>6 DEF Expire
  <2>7. ASSUME NEW t \in tasks,
               Heartbeat(t) \/ ResolveInput(t) \/ CheckLease(t) \/ Write(t) \/ Watermark(t) \/ Notify(t)
        PROVE  RowChange
    BY <2>7 DEF Heartbeat, ResolveInput, CheckLease, Write, Watermark, Notify, rowVars
  <2>8. ASSUME NEW w \in Workers, Shutdown(w) \/ Exit(w) PROVE RowChange
    BY <2>8 DEF Shutdown, Exit, rowVars
  <2>9. CASE UNCHANGED vars
    BY <2>9 DEF vars, rowVars
  <2> QED
    BY <2>2, <2>3, <2>4, <2>5, <2>6, <2>7, <2>8, <2>9 DEF Next, TaskStep
<1> QED
  BY <1>1 DEF TypeOK

\* Silver and Gold rows are only added.
LEMMA WrittenGrows == ASSUME [Next]_vars PROVE written \subseteq written'
<1>1. ASSUME NEW r \in Runs, Create(r) \/ Expire(r) PROVE written \subseteq written'
  BY <1>1 DEF Create, Expire
<1>2. ASSUME NEW w \in Workers, NEW r \in Runs, Claim(w, r) PROVE written \subseteq written'
  BY <1>2 DEF Claim
<1>3. ASSUME NEW t \in tasks, Heartbeat(t) \/ TaskStep(t) PROVE written \subseteq written'
  BY <1>3 DEF Heartbeat, TaskStep, ResolveInput, CheckLease, Write, Complete, Fail, Finish, Reject,
              Watermark, Notify
<1>4. ASSUME NEW w \in Workers, Shutdown(w) \/ Exit(w) PROVE written \subseteq written'
  BY <1>4 DEF Shutdown, Exit
<1> QED
  BY <1>1, <1>2, <1>3, <1>4 DEF Next, vars

-----------------------------------------------------------------------------
(* The inductive invariant *)

\* The facts about a step that the cases below share.
RowsKept ==
    /\ \A r \in Runs : status[r] \in Terminal => status'[r] = status[r]
    /\ written \subseteq written'

Stored(u) == u.run \in EmptyRuns \/ IngestionRun[u.run] \in written

\* A step after which no further task is past its terminal update.
LEMMA QuietStep ==
    ASSUME MInv, TypeOK', RowsKept, callbacks' = callbacks,
           \A u \in tasks' : u \in tasks \/
               (~ Closed(u) /\ (u.pc \in {"settle_ok", "complete"} => Stored(u)'))
    PROVE  TaskPath' /\ ClosedOnce' /\ CallbackMatchesRow'
<1>1. \A u \in tasks : u.run \in Runs
  BY DEF MInv, TypeOK, Tasks
<1>2. \A c \in callbacks : c.run \in Runs /\ c.status \in Terminal
  BY DEF MInv, TypeOK
<1>3. TaskPath'
  BY <1>1 DEF MInv, TaskPath, RowsKept, Stored, Closed, Terminal
<1>4. ClosedOnce'
  BY DEF MInv, ClosedOnce, Closed
<1>5. CallbackMatchesRow'
  BY <1>2 DEF MInv, CallbackMatchesRow, RowsKept
<1> QED
  BY <1>3, <1>4, <1>5

\* What Goto and a refused heartbeat make of the set of tasks.
TaskMoves(t, u) == tasks' = (tasks \ {t}) \cup {u} /\ u.run = t.run

\* A closed task that stays closed under the same status keeps its place.
LEMMA ClosedStaysClosed ==
    ASSUME MInv, TypeOK', RowsKept, callbacks' = callbacks, NEW t \in tasks, NEW u, TaskMoves(t, u),
           Closed(t), u.pc = t.pc \/ (t.pc = "watermark" /\ u.pc = "notify_ok")
    PROVE  TaskPath' /\ ClosedOnce' /\ CallbackMatchesRow'
<1>1. \A v \in tasks : v.run \in Runs
  BY DEF MInv, TypeOK, Tasks
<1>2. \A c \in callbacks : c.run \in Runs /\ c.status \in Terminal
  BY DEF MInv, TypeOK
<1>3. TaskPath'
  BY <1>1 DEF MInv, TaskPath, RowsKept, Closed, Terminal, TaskMoves
<1>4. ClosedOnce'
  BY DEF MInv, ClosedOnce, Closed, TaskMoves
<1>5. CallbackMatchesRow'
  BY <1>2 DEF MInv, CallbackMatchesRow, RowsKept
<1> QED
  BY <1>3, <1>4, <1>5

\* The terminal update: the row was running, so no other task is past it and
\* no callback was fired.
LEMMA ClosingStep ==
    ASSUME MInv, TypeOK', RowsKept, callbacks' = callbacks, NEW t \in tasks, NEW u, TaskMoves(t, u),
           status[t.run] = "running",
           \/ u.pc = "watermark" /\ t.pc = "complete" /\ status'[t.run] = "completed"
           \/ u.pc = "notify_err" /\ status'[t.run] = "failed"
    PROVE  TaskPath' /\ ClosedOnce' /\ CallbackMatchesRow'
<1>1. \A v \in tasks : v.run \in Runs
  BY DEF MInv, TypeOK, Tasks
<1>2. \A c \in callbacks : c.run \in Runs /\ c.status \in Terminal
  BY DEF MInv, TypeOK
<1>3. \A v \in tasks : v.run = t.run => ~ Closed(v)
  BY <1>1 DEF MInv, TaskPath, Closed
<1>4. \A c \in callbacks : c.run # t.run
  BY <1>2 DEF MInv, CallbackMatchesRow, Terminal
<1>5. TaskPath'
  BY <1>1 DEF MInv, TaskPath, RowsKept, Terminal, TaskMoves
<1>6. ClosedOnce'
  BY <1>3, <1>4 DEF MInv, ClosedOnce, Closed, TaskMoves
<1>7. CallbackMatchesRow'
  BY <1>2 DEF MInv, CallbackMatchesRow, RowsKept
<1> QED
  BY <1>5, <1>6, <1>7

\* The callback goes out once: the task that fires it is the closed one.
LEMMA NotifyStep ==
    ASSUME MInv, TypeOK', RowsKept, NEW t \in tasks, Notify(t)
    PROVE  TaskPath' /\ ClosedOnce' /\ CallbackMatchesRow'
<1> DEFINE c0 == [run |-> t.run, num |-> t.num,
                  status |-> IF t.pc = "notify_ok" THEN "completed" ELSE "failed"]
<1>1. \A v \in tasks : v.run \in Runs
  BY DEF MInv, TypeOK, Tasks
<1>2. \A c \in callbacks : c.run \in Runs /\ c.status \in Terminal
  BY DEF MInv, TypeOK
<1>3. Closed(t) /\ tasks' = tasks \ {t} /\ (callbacks' = callbacks \/ callbacks' = callbacks \cup {c0})
  BY DEF Notify, End, Closed
<1>4. status[t.run] = c0.status /\ c0.run = t.run /\ c0.status \in Terminal
  BY DEF Notify, MInv, TaskPath, Terminal
<1>5. \A c \in callbacks : c.run # t.run
  BY <1>3 DEF MInv, ClosedOnce
<1> HIDE DEF c0
<1>6. TaskPath'
  BY <1>1, <1>3 DEF MInv, TaskPath, RowsKept, Terminal
<1>7. ClosedOnce'
  <2>1. \A v \in tasks' : v \in tasks /\ v # t
    BY <1>3
  <2>2. \A v \in tasks' : Closed(v) => v.run # t.run
    BY <2>1, <1>3 DEF MInv, ClosedOnce
  <2> QED
    BY <1>3, <1>4, <2>1, <2>2 DEF MInv, ClosedOnce, Closed
<1>8. CallbackMatchesRow'
  <2>1. \A c \in callbacks : status'[c.run] = c.status
    BY <1>2 DEF MInv, CallbackMatchesRow, RowsKept
  <2>2. status'[c0.run] = c0.status
    BY <1>1, <1>4 DEF RowsKept
  <2> QED
    BY <1>3, <1>4, <1>5, <2>1, <2>2 DEF MInv, CallbackMatchesRow
<1> QED
  BY <1>6, <1>7, <1>8

LEMMA FinishStep ==
    ASSUME MInv, TypeOK', RowsKept, NEW t \in tasks, Complete(t) \/ Fail(t)
    PROVE  TaskPath' /\ ClosedOnce' /\ CallbackMatchesRow'
<1>1. t \in Tasks /\ t.run \in Runs
  BY DEF MInv, TypeOK, Tasks
<1>2. CASE End(t)
  BY <1>2, QuietStep DEF Complete, Fail, Finish, End
<1>3. CASE ~ End(t)
  <2>1. PICK l \in {"watermark", "notify_err"}, s \in Terminal :
          /\ Goto(t, l) /\ Owns(t) /\ status' = [status EXCEPT ![t.run] = s]
          /\ callbacks' = callbacks
          /\ (l = "watermark" /\ t.pc = "complete" /\ s = "completed") \/ (l = "notify_err" /\ s = "failed")
    BY <1>3 DEF Complete, Fail, Finish, Terminal
  <2>2. TaskMoves(t, [t EXCEPT !.pc = l]) /\ [t EXCEPT !.pc = l].pc = l
    BY <1>1, <2>1, MovedTask DEF Goto, TaskMoves, Locations
  <2>3. status[t.run] = "running" /\ status'[t.run] = s
    BY <1>1, <2>1 DEF Owns, MInv, TypeOK
  <2> QED
    BY <2>1, <2>2, <2>3, ClosingStep
<1> QED
  BY <1>2, <1>3

\* The steps of a task, other than its terminal update and its callback.
LEMMA WorkStep ==
    ASSUME MInv, TypeOK', RowsKept, NEW t \in tasks,
           Heartbeat(t) \/ ResolveInput(t) \/ CheckLease(t) \/ Write(t) \/ Reject(t) \/ Watermark(t)
    PROVE  TaskPath' /\ ClosedOnce' /\ CallbackMatchesRow'
<1>1. t \in Tasks /\ t.run \in Runs
  BY DEF MInv, TypeOK, Tasks
<1>2. callbacks' = callbacks
  BY DEF Heartbeat, ResolveInput, CheckLease, Write, Reject, Watermark
<1>3. CASE tasks' \subseteq tasks
  BY <1>2, <1>3, QuietStep
<1>4. ASSUME Heartbeat(t), ~ (tasks' \subseteq tasks)
      PROVE  TaskPath' /\ ClosedOnce' /\ CallbackMatchesRow'
  <2> DEFINE u == [t EXCEPT !.lost = TRUE]
  <2>1. tasks' = (tasks \ {t}) \cup {u} /\ written' = written
    BY <1>4 DEF Heartbeat
  <2>2. u.run = t.run /\ u.pc = t.pc
    BY <1>1, WarnedTask
  <2> HIDE DEF u
  <2>3. CASE Closed(t)
    BY <1>2, <2>1, <2>2, <2>3, ClosedStaysClosed DEF TaskMoves
  <2>4. CASE ~ Closed(t)
    <3>1. u.pc \in {"settle_ok", "complete"} => Stored(u)'
      BY <2>1, <2>2 DEF MInv, TaskPath, Stored
    <3>2. ~ Closed(u)
      BY <2>2, <2>4 DEF Closed
    <3> QED
      BY <1>2, <2>1, <3>1, <3>2, QuietStep
  <2> QED
    BY <2>3, <2>4
<1>5. ASSUME ResolveInput(t) \/ CheckLease(t) \/ Write(t), ~ (tasks' \subseteq tasks)
      PROVE  TaskPath' /\ ClosedOnce' /\ CallbackMatchesRow'
  <2>1. PICK l \in {"check", "write", "settle_ok", "settle_err", "complete", "fail"} :
          /\ Goto(t, l)
          /\ l \in {"settle_ok", "complete"} =>
                \/ t.run \in EmptyRuns \/ IngestionRun[t.run] \in written'
                \/ t.pc = "settle_ok"
    BY <1>5 DEF ResolveInput, CheckLease, Write, End
  <2> DEFINE u == [t EXCEPT !.pc = l]
  <2>2. tasks' = (tasks \ {t}) \cup {u} /\ u.run = t.run /\ u.pc = l
    BY <1>1, <2>1, MovedTask DEF Goto, Locations
  <2> HIDE DEF u
  <2>3. u.pc \in {"settle_ok", "complete"} => Stored(u)'
    BY <2>1, <2>2 DEF MInv, TaskPath, RowsKept, Stored
  <2>4. ~ Closed(u)
    BY <2>2 DEF Closed
  <2> QED
    BY <1>2, <2>2, <2>3, <2>4, QuietStep
<1>6. ASSUME Watermark(t) PROVE TaskPath' /\ ClosedOnce' /\ CallbackMatchesRow'
  <2> DEFINE u == [t EXCEPT !.pc = "notify_ok"]
  <2>1. TaskMoves(t, u) /\ u.pc = "notify_ok" /\ t.pc = "watermark"
    BY <1>1, <1>6, MovedTask DEF Watermark, Goto, TaskMoves, Locations
  <2> HIDE DEF u
  <2> QED
    BY <1>2, <2>1, ClosedStaysClosed DEF Closed
<1>7. ASSUME Reject(t) PROVE tasks' \subseteq tasks
  BY <1>7 DEF Reject, End
<1> QED
  BY <1>3, <1>4, <1>5, <1>6, <1>7

LEMMA InitInv == Init => MInv
<1> SUFFICES ASSUME Init PROVE MInv
  OBVIOUS
<1>1. TypeOK
  BY ConstantsAssumption DEF Init, TypeOK
<1>2. TaskPath /\ ClosedOnce /\ CallbackMatchesRow
  BY DEF Init, TaskPath, ClosedOnce, CallbackMatchesRow
<1>3. CompletedIsWritten /\ WatermarkIsCompleted
  BY DEF Init, CompletedIsWritten, WatermarkIsCompleted
<1> QED
  BY <1>1, <1>2, <1>3 DEF MInv

LEMMA StepInv == MInv /\ [Next]_vars => MInv'
<1> SUFFICES ASSUME MInv, [Next]_vars PROVE MInv'
  OBVIOUS
<1>1. TypeOK /\ TypeOK'
  BY TypeStep DEF MInv
<1>2. RowsKept
  BY <1>1, TerminalIsFinal, WrittenGrows DEF RowsKept
<1>3. TaskPath' /\ ClosedOnce' /\ CallbackMatchesRow'
  <2> DEFINE Kept == TaskPath' /\ ClosedOnce' /\ CallbackMatchesRow'
  <2>1. ASSUME NEW r \in Runs, Create(r) \/ Expire(r) PROVE Kept
    BY <1>1, <1>2, <2>1, QuietStep DEF Create, Expire
  <2>2. ASSUME NEW w \in Workers, NEW r \in Runs, Claim(w, r) PROVE Kept
    <3>1. callbacks' = callbacks
      BY <2>2 DEF Claim
    <3>2. \A u \in tasks' : u \in tasks \/ u.pc \in {"reject", "resolve"}
      BY <2>2 DEF Claim
    <3> QED
      BY <1>1, <1>2, <3>1, <3>2, QuietStep DEF Closed
  <2>3. ASSUME NEW t \in tasks, Heartbeat(t) \/ TaskStep(t) PROVE Kept
    BY <1>1, <1>2, <2>3, WorkStep, FinishStep, NotifyStep DEF TaskStep
  <2>4. ASSUME NEW w \in Workers, Shutdown(w) \/ Exit(w) PROVE Kept
    BY <1>1, <1>2, <2>4, QuietStep DEF Shutdown, Exit
  <2>5. CASE UNCHANGED vars
    BY <1>1, <1>2, <2>5, QuietStep DEF vars
  <2> QED
    BY <2>1, <2>2, <2>3, <2>4, <2>5 DEF Next
<1>4. CompletedIsWritten'
  BY <1>1, <1>2, CompletedBy DEF MInv, CompletedIsWritten, TaskPath, RowsKept
<1>5. WatermarkIsCompleted'
  <2>1. watermark' = watermark \/
          \E t \in tasks : t.pc = "watermark" /\ watermark' = IngestionRun[t.run]
    <3>1. ASSUME NEW r \in Runs, Create(r) \/ Expire(r) PROVE watermark' = watermark
      BY <3>1 DEF Create, Expire
    <3>2. ASSUME NEW w \in Workers, NEW r \in Runs, Claim(w, r) PROVE watermark' = watermark
      BY <3>2 DEF Claim
    <3>3. ASSUME NEW t \in tasks,
                 \/ Heartbeat(t) \/ ResolveInput(t) \/ CheckLease(t) \/ Write(t)
                 \/ Complete(t) \/ Fail(t) \/ Reject(t) \/ Notify(t)
          PROVE  watermark' = watermark
      BY <3>3 DEF Heartbeat, ResolveInput, CheckLease, Write, Complete, Fail, Finish, Reject, Notify
    <3>4. ASSUME NEW t \in tasks, Watermark(t)
          PROVE  watermark' = watermark \/ (t.pc = "watermark" /\ watermark' = IngestionRun[t.run])
      BY <3>4 DEF Watermark, NewWatermark
    <3>5. ASSUME NEW w \in Workers, Shutdown(w) \/ Exit(w) PROVE watermark' = watermark
      BY <3>5 DEF Shutdown, Exit
    <3> QED
      BY <3>1, <3>2, <3>3, <3>4, <3>5 DEF Next, TaskStep, vars
  <2>2. CASE watermark' = watermark
    BY <1>2, <2>2 DEF MInv, WatermarkIsCompleted, RowsKept, Terminal
  <2>3. ASSUME NEW t \in tasks, t.pc = "watermark", watermark' = IngestionRun[t.run]
        PROVE  WatermarkIsCompleted'
    <3>1. t.run \in Runs
      BY <1>1 DEF TypeOK, Tasks
    <3>2. status'[t.run] = "completed"
      BY <1>2, <2>3, <3>1 DEF MInv, TaskPath, RowsKept, Terminal
    <3> QED
      BY <2>3, <3>1, <3>2 DEF WatermarkIsCompleted
  <2> QED
    BY <2>1, <2>2, <2>3
<1> QED
  BY <1>1, <1>3, <1>4, <1>5 DEF MInv

\* MInv holds of every reachable state.
THEOREM MaterializationInvariant == Spec => []MInv
  BY InitInv, StepInv, PTL DEF Spec

\* The callback of a run agrees with its row for ever and is fired once,
\* whichever of several tasks executes the run (worker_tick, FIX 4).
THEOREM CallbackSafety == Spec => []CallbackMatchesRow
<1>1. MInv => CallbackMatchesRow
  BY DEF MInv
<1> QED
  BY <1>1, MaterializationInvariant, PTL

\* complete_materialization_run marks only runs whose rows are all stored.
THEOREM CompletedSafety == Spec => []CompletedIsWritten
<1>1. MInv => CompletedIsWritten
  BY DEF MInv
<1> QED
  BY <1>1, MaterializationInvariant, PTL

\* upsert_dataset_watermark records only materialized ingestion runs.
THEOREM WatermarkSafety == Spec => []WatermarkIsCompleted
<1>1. MInv => WatermarkIsCompleted
  BY DEF MInv
<1> QED
  BY <1>1, MaterializationInvariant, PTL

Advance == watermark <= watermark'

\* Completions in any order, under any claims, never move the watermark back.
THEOREM WatermarkMonotone == Spec => WatermarkAdvances
<1>1. ASSUME MInv, [Next]_vars PROVE [Advance]_watermark
  <2>1. watermark \in Nat /\ \A t \in tasks : IngestionRun[t.run] \in Nat
    BY <1>1, ConstantsAssumption DEF MInv, TypeOK, Tasks
  <2>2. ASSUME NEW r \in Runs, Create(r) \/ Expire(r) PROVE watermark' = watermark
    BY <2>2 DEF Create, Expire
  <2>3. ASSUME NEW w \in Workers, NEW r \in Runs, Claim(w, r) PROVE watermark' = watermark
    BY <2>3 DEF Claim
  <2>4. ASSUME NEW t \in tasks, Heartbeat(t) \/ TaskStep(t)
        PROVE  watermark' = watermark \/ watermark' = NewWatermark(IngestionRun[t.run])
    BY <2>4 DEF Heartbeat, TaskStep, ResolveInput, CheckLease, Write, Complete, Fail, Finish, Reject,
                Watermark, Notify
  <2>5. ASSUME NEW w \in Workers, Shutdown(w) \/ Exit(w) PROVE watermark' = watermark
    BY <2>5 DEF Shutdown, Exit
  <2>6. ASSUME NEW t \in tasks, watermark' = NewWatermark(IngestionRun[t.run]) PROVE Advance
    BY <2>1, <2>6 DEF NewWatermark, Advance
  <2> QED
    BY <1>1, <2>2, <2>3, <2>4, <2>5, <2>6 DEF Next, vars
<1>2. Spec => [][Advance]_watermark
  BY <1>1, MaterializationInvariant, PTL DEF Spec
<1> QED
  BY <1>2 DEF WatermarkAdvances, Advance

-----------------------------------------------------------------------------
(* The gold materialization *)

\* Every set of inputs has a least and a greatest.
LEMMA InputsOrdered ==
    ASSUME NEW S \in SUBSET Inputs, S # {}
    PROVE  /\ Min(S) \in S /\ \A m \in S : Min(S) <= m
           /\ Max(S) \in S /\ \A m \in S : Max(S) >= m
<1>1. IsFiniteSet(S) /\ S \in SUBSET Nat
  BY GoldAssumption, FS_Subset
<1> QED
  BY <1>1, MinIsLeast, MaxIsGreatest

-----------------------------------------------------------------------------
(* The replay of a set of events *)

\* What the replay is to be: each balance follows the one before it.
IsReplay(f, es, start) ==
    f = [i \in es |-> LET prior == {j \in es : j < i}
                      IN  DeltaOf[i] + IF prior = {} THEN start ELSE f[Max(prior)]]

LEMMA ReplayChosen ==
    ASSUME NEW es, NEW start, \E f : IsReplay(f, es, start)
    PROVE  IsReplay(Replay(es, start), es, start)
  BY DEF Replay, IsReplay

LEMMA ReplayStep ==
    ASSUME NEW es \in SUBSET Inputs, NEW start \in Int, NEW n \in Nat,
           \E f \in [{i \in es : i < n} -> Int] : IsReplay(f, {i \in es : i < n}, start)
    PROVE  \E f \in [{i \in es : i < n + 1} -> Int] : IsReplay(f, {i \in es : i < n + 1}, start)
<1> DEFINE U == {i \in es : i < n}
           V == {i \in es : i < n + 1}
           Next1(f, S, i) == LET prior == {j \in S : j < i}
                             IN  DeltaOf[i] + IF prior = {} THEN start ELSE f[Max(prior)]
<1>1. PICK f \in [U -> Int] : IsReplay(f, U, start)
  OBVIOUS
<1>2. \A i \in es : i \in Nat /\ DeltaOf[i] \in Int
  BY GoldAssumption
<1>3. CASE n \notin es
  <2>1. \A i \in es : i < n <=> i < n + 1
    BY <1>2, <1>3
  <2> QED
    BY <1>1, <2>1
<1>4. CASE n \in es
  <2>1. V = U \cup {n} /\ n \notin U
    <3>1. \A i \in es : i < n + 1 <=> (i < n \/ i = n)
      BY <1>2
    <3>2. ~ (n < n)
      OBVIOUS
    <3> QED
      BY <3>1, <3>2, <1>4
  <2> DEFINE g == [i \in V |-> IF i = n THEN Next1(f, U, n) ELSE f[i]]
  <2>2. U # {} => Max(U) \in U
    BY InputsOrdered
  <2>3. {j \in U : j < n} = U
    OBVIOUS
  <2>4. Next1(f, U, n) \in Int
    <3>1. U = {} => Next1(f, U, n) = DeltaOf[n] + start
      BY <2>3
    <3>2. U # {} => Next1(f, U, n) = DeltaOf[n] + f[Max(U)]
      BY <2>3
    <3> HIDE DEF Next1, U
    <3>3. U # {} => f[Max(U)] \in Int
      BY <1>1, <2>2
    <3> QED
      BY <3>1, <3>2, <3>3, <1>2, <1>4
  <2>5. g \in [V -> Int]
    BY <1>1, <2>1, <2>4
  <2>6. \A i \in U : g[i] = f[i]
    BY <2>1
  <2>7. ASSUME NEW i \in V PROVE g[i] = Next1(g, V, i)
    <3> DEFINE P == {j \in V : j < i}
    <3>1. P = {j \in U : j < i} /\ P \in SUBSET U
      BY <2>1, <2>7, <1>2
    <3>2. P # {} => Max(P) \in U
      BY <3>1, InputsOrdered
    <3>3. P # {} => g[Max(P)] = f[Max(P)]
      BY <3>2, <2>6
    <3>4. Next1(g, V, i) = Next1(f, U, i)
      BY <3>1, <3>3
    <3>5. CASE i = n
      BY <3>4, <3>5
    <3>6. CASE i # n
      <4>1. i \in U
        BY <2>1, <3>6
      <4>2. f[i] = Next1(f, U, i)
        BY <1>1, <4>1 DEF IsReplay
      <4> QED
        BY <3>4, <4>1, <4>2, <2>6
    <3> QED
      BY <3>5, <3>6
  <2>8. IsReplay(g, V, start)
    <3>1. g = [i \in V |-> g[i]]
      OBVIOUS
    <3> HIDE DEF g
    <3>2. g = [i \in V |-> Next1(g, V, i)]
      BY <3>1, <2>7, Zenon
    <3> QED
      BY <3>2 DEF IsReplay
  <2> QED
    BY <2>5, <2>8
<1> QED
  BY <1>3, <1>4

\* The replay of any set of inputs exists: the smallest prefix without one would
\* be one longer than a prefix that has one.
LEMMA ReplayExists ==
    ASSUME NEW es \in SUBSET Inputs, NEW start \in Int
    PROVE  \E f \in [es -> Int] : IsReplay(f, es, start)
<1> DEFINE Upto(n) == {i \in es : i < n}
           Has(n) == \E f \in [Upto(n) -> Int] : IsReplay(f, Upto(n), start)
           Bad == {n \in Nat : ~ Has(n)}
<1>1. \A i \in es : i \in Nat
  BY GoldAssumption
<1>2. Has(0)
  <2>1. Upto(0) = {}
    <3>1. \A i \in es : ~ (i < 0)
      BY <1>1
    <3> QED
      BY <3>1
  <2>2. \A f : f \in [{} -> Int] => IsReplay(f, {}, start)
    BY DEF IsReplay
  <2>3. [i \in {} |-> 0] \in [{} -> Int]
    OBVIOUS
  <2> QED
    BY <2>1, <2>2, <2>3
<1>3. ASSUME NEW n \in Nat, Has(n) PROVE Has(n + 1)
  BY <1>3, ReplayStep
<1> HIDE DEF Has
<1>4. Bad = {}
  <2>1. SUFFICES ASSUME Bad # {} PROVE FALSE
    OBVIOUS
  <2>2. PICK n \in Bad : \A m \in Bad : n <= m
    BY <2>1, LeastExists
  <2>3. n # 0 /\ n \in Nat
    BY <1>2, <2>2
  <2>4. n - 1 \in Nat /\ ~ (n - 1 \in Bad)
    BY <2>2, <2>3
  <2>5. Has(n - 1)
    BY <2>4
  <2>6. Has((n - 1) + 1)
    BY <2>4, <2>5, <1>3
  <2> QED
    BY <2>2, <2>3, <2>6
<1>5. \E n \in Nat : Upto(n) = es
  <2>1. CASE es = {}
    BY <2>1
  <2>2. CASE es # {}
    <3>1. Max(es) \in es /\ \A m \in es : Max(es) >= m
      BY <2>2, InputsOrdered
    <3>2. Max(es) + 1 \in Nat
      BY <3>1, <1>1
    <3>3. \A i \in es : i < Max(es) + 1
      BY <3>1, <1>1
    <3>4. Upto(Max(es) + 1) = es
      BY <3>3
    <3> QED
      BY <3>2, <3>4
  <2> QED
    BY <2>1, <2>2
<1>6. PICK n \in Nat : Upto(n) = es
  BY <1>5
<1>7. Has(n)
  BY <1>4
<1> QED
  BY <1>6, <1>7 DEF Has

\* Two replays of the same events agree.
LEMMA ReplayUnique ==
    ASSUME NEW es \in SUBSET Inputs, NEW start, NEW f, NEW g,
           IsReplay(f, es, start), IsReplay(g, es, start)
    PROVE  f = g
<1> DEFINE D == {i \in es : f[i] # g[i]}
<1>1. SUFFICES ASSUME D # {} PROVE FALSE
  <2>1. f = [i \in es |-> f[i]] /\ g = [i \in es |-> g[i]]
    BY DEF IsReplay
  <2> QED
    BY <2>1
<1>2. Min(D) \in D /\ \A m \in D : Min(D) <= m
  BY <1>1, InputsOrdered
<1>3. PICK d \in D : \A m \in D : d <= m
  BY <1>2
<1> DEFINE prior == {j \in es : j < d}
<1>4. ASSUME prior # {} PROVE Max(prior) \in es /\ Max(prior) < d
  <2>1. Max(prior) \in prior
    BY <1>4, InputsOrdered
  <2> QED
    BY <2>1
<1>5. d \in es /\ es \subseteq Nat
  BY GoldAssumption
<1>6. ASSUME prior # {} PROVE f[Max(prior)] = g[Max(prior)]
  <2>1. PICK p \in es : p = Max(prior) /\ p < d
    BY <1>4, <1>6
  <2>2. p \in D => d <= p
    BY <1>3
  <2>3. p \notin D
    BY <2>1, <2>2, <1>5
  <2> QED
    BY <2>1, <2>3
<1>7. /\ f[d] = DeltaOf[d] + IF prior = {} THEN start ELSE f[Max(prior)]
      /\ g[d] = DeltaOf[d] + IF prior = {} THEN start ELSE g[Max(prior)]
  BY <1>5 DEF IsReplay
<1>8. f[d] = g[d]
  BY <1>6, <1>7
<1> QED
  BY <1>8

\* Replay is that function.
LEMMA ReplayIs ==
    ASSUME NEW es \in SUBSET Inputs, NEW start \in Int
    PROVE  /\ Replay(es, start) \in [es -> Int]
           /\ \A i \in es : LET prior == {j \in es : j < i}
                            IN  Replay(es, start)[i] = DeltaOf[i] + IF prior = {} THEN start ELSE Replay(es, start)[Max(prior)]
<1>1. PICK f \in [es -> Int] : IsReplay(f, es, start)
  BY ReplayExists
<1>2. IsReplay(Replay(es, start), es, start)
  BY <1>1, ReplayChosen
<1>3. Replay(es, start) = f
  BY <1>1, <1>2, ReplayUnique
<1>4. \A i \in es : LET prior == {j \in es : j < i}
                    IN  f[i] = DeltaOf[i] + IF prior = {} THEN start ELSE f[Max(prior)]
  BY <1>1 DEF IsReplay
<1> QED
  BY <1>1, <1>3, <1>4

-----------------------------------------------------------------------------
(* Types *)

\* A task at work has a non-empty set of inputs, with a first one.
LEMMA TaskInputs ==
    ASSUME GoldTypeOK, TasksOK, NEW x \in GoldTasks, gpc[x] # "idle"
    PROVE  /\ gRun[x] \in GoldRuns /\ In(x) \in SUBSET Inputs /\ In(x) # {}
           /\ First(x) \in In(x) /\ \A m \in In(x) : First(x) <= m
           /\ First(x) \in Nat
<1>1. gRun[x] \in GoldRuns /\ In(x) \in SUBSET Inputs /\ In(x) # {}
  BY GoldAssumption DEF TasksOK, In
<1> QED
  BY <1>1, InputsOrdered, GoldAssumption DEF First

\* The balance before any input is a number.
LEMMA BalanceBeforeType ==
    ASSUME GoldTypeOK, NEW i
    PROVE  BalanceBefore(i) \in Int
<1> DEFINE before == {j \in snaps : j < i}
<1>1. before \in SUBSET Inputs
  BY DEF GoldTypeOK
<1>2. before # {} => Max(before) \in Inputs
  BY <1>1, InputsOrdered
<1> HIDE DEF before
<1>3. before # {} => balance[Max(before)] \in Int
  BY <1>2 DEF GoldTypeOK
<1> QED
  BY <1>3 DEF BalanceBefore, before

\* The times of a batch have a least and a greatest, those of its ends.
LEMMA CoverageType ==
    ASSUME GoldTypeOK, TasksOK, NEW x \in GoldTasks, gpc[x] # "idle", NEW d
    PROVE  Coverage(x, d) \in [status : {"partial", "complete"}, from : Nat, to : Nat]
<1> DEFINE T == {TimeOf[i] : i \in In(x)}
<1>1. In(x) \in SUBSET Inputs /\ In(x) # {}
  BY TaskInputs
<1>2. /\ Min(In(x)) \in In(x) /\ \A m \in In(x) : Min(In(x)) <= m
      /\ Max(In(x)) \in In(x) /\ \A m \in In(x) : Max(In(x)) >= m
  BY <1>1, InputsOrdered
<1>3. PICK a \in In(x), b \in In(x) : \A m \in In(x) : a <= m /\ m <= b
  BY <1>1, <1>2, GoldAssumption
<1>4. T \in SUBSET Nat /\ T # {}
  BY <1>1, GoldAssumption
<1>5. Min(T) \in Nat
  BY <1>4, MinIsLeast
<1>6. \A m \in In(x) : TimeOf[b] >= TimeOf[m]
  <2>1. SUFFICES ASSUME NEW m \in In(x) PROVE TimeOf[b] >= TimeOf[m]
    OBVIOUS
  <2>2. m \in Inputs /\ b \in Inputs /\ m <= b /\ m \in Nat /\ b \in Nat
    BY <1>1, <1>3, GoldAssumption
  <2>3. m = b \/ m < b
    BY <2>2
  <2> QED
    BY <2>2, <2>3, GoldAssumption
<1>7. TimeOf[b] \in T /\ \A t \in T : TimeOf[b] >= t
  BY <1>6
<1>8. Max(T) \in T
  <2> HIDE DEF T
  <2> QED
    BY <1>7 DEF Max
<1>9. Max(T) \in Nat
  BY <1>4, <1>8
<1>10. DatasetStatus(x, d) \in {"partial", "complete"}
  BY DEF DatasetStatus
<1> HIDE DEF T
<1>11. Coverage(x, d) = [status |-> DatasetStatus(x, d), from |-> Min(T), to |-> Max(T)]
  BY DEF Coverage, T
<1> QED
  BY <1>5, <1>9, <1>10, <1>11

CompletenessRows == [status : {"none", "partial", "complete"}, from : Nat, to : Nat]

LEMMA PairExtremes ==
    ASSUME NEW a \in Nat, NEW b \in Nat
    PROVE  Min({a, b}) \in Nat /\ Max({a, b}) \in Nat
<1>1. Min({a, b}) \in Nat
  BY MinIsLeast
<1>2. \E m \in {a, b} : \A n \in {a, b} : m >= n
  OBVIOUS
<1>3. Max({a, b}) \in {a, b}
  BY <1>2 DEF Max
<1> QED
  BY <1>1, <1>3

LEMMA MergeType ==
    ASSUME NEW old \in CompletenessRows, NEW new \in CompletenessRows
    PROVE  MergeCompleteness(old, new) \in CompletenessRows
<1>1. /\ Min({old.from, new.from}) \in Nat /\ Max({old.to, new.to}) \in Nat
  BY PairExtremes DEF CompletenessRows
<1> QED
  BY <1>1 DEF MergeCompleteness, CompletenessRows

LEMMA GoldTypeInit == GoldInit => GoldTypeOK
<1> SUFFICES ASSUME GoldInit PROVE GoldTypeOK
  OBVIOUS
<1>1. Replay(Legacy, 0) \in [Legacy -> Int]
  <2>1. Legacy \in SUBSET Inputs /\ 0 \in Int
    BY GoldAssumption
  <2> QED
    BY <2>1, ReplayIs
<1>2. balance \in [Inputs -> Int]
  BY <1>1 DEF GoldInit
<1>3. complete \in [Datasets -> [status : {"none", "partial", "complete"}, from : Nat, to : Nat]]
  BY DEF GoldInit, NoCompleteness
<1> QED
  BY <1>2, <1>3, GoldAssumption DEF GoldInit, GoldTypeOK

LEMMA GoldFaultType == ASSUME GoldTypeOK, GoldFault PROVE gFaults' \in 0..MaxGoldFaults /\ gFaults' # 0
  BY GoldAssumption DEF GoldTypeOK, GoldFault

LEMMA ClearType ==
    ASSUME GoldTypeOK, NEW x \in GoldTasks, ClearLocals(x)
    PROVE  /\ gRun' \in [GoldTasks -> GoldRuns \cup {NoRun}]
           /\ seed' \in [GoldTasks -> Int]
           /\ suffix' \in [GoldTasks -> SUBSET Inputs]
           /\ hlInputs' \in [GoldTasks -> SUBSET Inputs]
           /\ touched' \in [GoldTasks -> SUBSET GoldDatasets]
           /\ failed' \in [GoldTasks -> SUBSET (GoldDatasets \cup {"silver", "hl", "protocol"})]
  BY DEF GoldTypeOK, ClearLocals

LEMMA GoldTypeStep ==
    ASSUME GoldTypeOK, TasksOK, GoldNext
    PROVE  GoldTypeOK'
<1>1. PICK x \in GoldTasks : (\E r \in GoldRuns : StartGold(x, r)) \/ Materialize(x) \/ CrashGold(x)
  BY DEF GoldNext
<1> USE DEF GoldDatasets
<1>2. ASSUME NEW r \in GoldRuns, StartGold(x, r) PROVE GoldTypeOK'
  BY <1>2 DEF StartGold, GoldTypeOK, GoldGoto, goldTables, goldLocals
<1>3. ASSUME SaveSilver(x) PROVE GoldTypeOK'
  <2>1. In(x) \in SUBSET Inputs
    BY <1>3, TaskInputs DEF SaveSilver
  <2>2. gFaults' \in 0..MaxGoldFaults
    BY <1>3, GoldFaultType DEF SaveSilver, GoldTypeOK
  <2> QED
    BY <1>3, <2>1, <2>2 DEF SaveSilver, GoldTypeOK, GoldGoto, Fails
<1>4. ASSUME ResolveCanonical(x) PROVE GoldTypeOK'
  <2>1. gFaults' \in 0..MaxGoldFaults
    BY <1>4, GoldFaultType DEF ResolveCanonical, GoldTypeOK
  <2>2. CASE GoldGoto(x, "ledger") /\ UNCHANGED <<outcome, gRun, goldLocals, gFaults>>
    BY <1>4, <2>1, <2>2 DEF ResolveCanonical, GoldTypeOK, GoldGoto, goldTables, goldLocals
  <2>3. CASE GoldFault /\ Report(x, "failed")
    <3>1. ClearLocals(x)
      BY <2>3 DEF Report
    <3>2. outcome' \in [GoldRuns -> {"none", "done", "failed"}]
      BY <2>3 DEF Report, GoldTypeOK
    <3> QED
      BY <1>4, <2>1, <2>3, <3>1, <3>2, ClearType DEF ResolveCanonical, Report, GoldTypeOK, GoldGoto, goldTables
  <2> QED
    BY <1>4, <2>2, <2>3 DEF ResolveCanonical
<1>5. ASSUME WriteLedger(x) PROVE GoldTypeOK'
  <2>1. gFaults' \in 0..MaxGoldFaults
    BY <1>5, GoldFaultType DEF WriteLedger, GoldTypeOK
  <2>2. goldLedger' \in [Inputs -> {"none", "old", "new"}]
    BY <1>5 DEF WriteLedger, ReplaceLedger, GoldTypeOK
  <2>3. touched' \in [GoldTasks -> SUBSET GoldDatasets]
    BY <1>5 DEF WriteLedger, GoldTypeOK
  <2>4. failed' \in [GoldTasks -> SUBSET (GoldDatasets \cup {"silver", "hl", "protocol"})]
    BY <1>5 DEF WriteLedger, GoldTypeOK, Fails
  <2> QED
    BY <1>5, <2>1, <2>2, <2>3, <2>4 DEF WriteLedger, GoldTypeOK, GoldGoto
<1>6. ASSUME ReadSeed(x) PROVE GoldTypeOK'
  <2>1. gFaults' \in 0..MaxGoldFaults
    BY <1>6, GoldFaultType DEF ReadSeed, GoldTypeOK
  <2>2. BalanceBefore(First(x)) \in Int
    BY BalanceBeforeType
  <2> QED
    BY <1>6, <2>1, <2>2 DEF ReadSeed, SkipBalances, Fails, GoldTypeOK, GoldGoto, goldTables
<1>7. ASSUME ReadSuffix(x) PROVE GoldTypeOK'
  <2>1. gFaults' \in 0..MaxGoldFaults
    BY <1>7, GoldFaultType DEF ReadSuffix, GoldTypeOK
  <2> QED
    BY <1>7, <2>1 DEF ReadSuffix, SkipBalances, Fails, GoldTypeOK, GoldGoto, goldTables
<1>8. ASSUME ReadDeltas(x) PROVE GoldTypeOK'
  <2>1. gFaults' \in 0..MaxGoldFaults
    BY <1>8, GoldFaultType DEF ReadDeltas, GoldTypeOK
  <2>2. touched' \in [GoldTasks -> SUBSET GoldDatasets]
    BY <1>8 DEF ReadDeltas, SkipBalances, GoldTypeOK
  <2>3. failed' \in [GoldTasks -> SUBSET (GoldDatasets \cup {"silver", "hl", "protocol"})]
    BY <1>8 DEF ReadDeltas, SkipBalances, Fails, GoldTypeOK
  <2>4. gpc' \in [GoldTasks -> {"idle", "silver", "canonical", "ledger", "seed", "suffix", "deltas",
                              "balances", "hl", "pnl", "trades", "protocol", "status", "report"}]
    BY <1>8 DEF ReadDeltas, SkipBalances, GoldGoto, GoldTypeOK
  <2> QED
    BY <1>8, <2>1, <2>2, <2>3, <2>4 DEF ReadDeltas, GoldTypeOK, goldTables
<1>9. ASSUME WriteBalances(x) PROVE GoldTypeOK'
  <2>1. gFaults' \in 0..MaxGoldFaults
    BY <1>9, GoldFaultType DEF WriteBalances, GoldTypeOK
  <2>2. Recompute(x) \in SUBSET Inputs
    BY <1>9, TaskInputs DEF WriteBalances, Recompute, GoldTypeOK
  <2>3. Replay(Recompute(x), seed[x]) \in [Recompute(x) -> Int]
    BY <2>2, ReplayIs DEF GoldTypeOK
  <2>4. balance' \in [Inputs -> Int] /\ snaps' \subseteq Inputs /\ deltas' \subseteq snaps'
    BY <1>9, <2>2, <2>3 DEF WriteBalances, GoldTypeOK
  <2>5. touched' \in [GoldTasks -> SUBSET GoldDatasets]
    BY <1>9 DEF WriteBalances, GoldTypeOK
  <2>6. failed' \in [GoldTasks -> SUBSET (GoldDatasets \cup {"silver", "hl", "protocol"})]
    BY <1>9 DEF WriteBalances, GoldTypeOK, Fails
  <2> QED
    BY <1>9, <2>1, <2>4, <2>5, <2>6 DEF WriteBalances, GoldTypeOK, GoldGoto
<1>10. ASSUME ReadHlInputs(x) PROVE GoldTypeOK'
  <2>1. gFaults' \in 0..MaxGoldFaults
    BY <1>10, GoldFaultType DEF ReadHlInputs, GoldTypeOK
  <2>2. hlInputs' \in [GoldTasks -> SUBSET Inputs]
    BY <1>10 DEF ReadHlInputs, HlWalletInputs, GoldTypeOK
  <2>3. failed' \in [GoldTasks -> SUBSET (GoldDatasets \cup {"silver", "hl", "protocol"})]
    BY <1>10 DEF ReadHlInputs, Fails, GoldTypeOK
  <2>4. gpc' \in [GoldTasks -> {"idle", "silver", "canonical", "ledger", "seed", "suffix", "deltas",
                              "balances", "hl", "pnl", "trades", "protocol", "status", "report"}]
    BY <1>10 DEF ReadHlInputs, GoldGoto, GoldTypeOK
  <2> QED
    BY <1>10, <2>1, <2>2, <2>3, <2>4 DEF ReadHlInputs, GoldTypeOK, goldTables
<1>11. ASSUME ReplacePnl(x) PROVE GoldTypeOK'
  <2>1. gFaults' \in 0..MaxGoldFaults
    BY <1>11, GoldFaultType DEF ReplacePnl, GoldTypeOK
  <2> QED
    BY <1>11, <2>1 DEF ReplacePnl, Fails, GoldTypeOK, GoldGoto
<1>12. ASSUME ReplaceTrades(x) PROVE GoldTypeOK'
  <2>1. gFaults' \in 0..MaxGoldFaults
    BY <1>12, GoldFaultType DEF ReplaceTrades, GoldTypeOK
  <2> QED
    BY <1>12, <2>1 DEF ReplaceTrades, Fails, GoldTypeOK, GoldGoto
<1>13. ASSUME SaveProtocol(x) PROVE GoldTypeOK'
  <2>1. gFaults' \in 0..MaxGoldFaults
    BY <1>13, GoldFaultType DEF SaveProtocol, GoldTypeOK
  <2>2. In(x) \in SUBSET Inputs
    BY <1>13, TaskInputs DEF SaveProtocol
  <2> QED
    BY <1>13, <2>1, <2>2 DEF SaveProtocol, Fails, GoldTypeOK, GoldGoto
<1>14. ASSUME UpdateCompleteness(x) PROVE GoldTypeOK'
  <2>1. gFaults' \in 0..MaxGoldFaults
    BY <1>14, GoldFaultType DEF UpdateCompleteness, GoldTypeOK
  <2>2. \A d \in Datasets : MergeCompleteness(complete[d], Coverage(x, d)) \in CompletenessRows
    <3>1. SUFFICES ASSUME NEW d \in Datasets
                   PROVE  MergeCompleteness(complete[d], Coverage(x, d)) \in CompletenessRows
      OBVIOUS
    <3>2. Coverage(x, d) \in CompletenessRows
      BY <1>14, CoverageType DEF UpdateCompleteness, CompletenessRows
    <3>3. complete[d] \in CompletenessRows
      BY DEF GoldTypeOK, CompletenessRows
    <3> QED
      BY <3>2, <3>3, MergeType
  <2>3. complete' \in [Datasets -> CompletenessRows]
    <3>1. complete \in [Datasets -> CompletenessRows]
      BY DEF GoldTypeOK, CompletenessRows
    <3> QED
      BY <1>14, <2>2, <3>1 DEF UpdateCompleteness
  <2> QED
    BY <1>14, <2>1, <2>3 DEF UpdateCompleteness, GoldTypeOK, GoldGoto, goldLocals, CompletenessRows
<1>15. ASSUME FinishGold(x) PROVE GoldTypeOK'
  <2>1. gFaults' \in 0..MaxGoldFaults
    BY <1>15, GoldFaultType DEF FinishGold, GoldTypeOK
  <2>2. complete' \in [Datasets -> CompletenessRows]
    <3> DEFINE new == [Coverage(x, "silver") EXCEPT !.status = "partial"]
    <3>1. Coverage(x, "silver") \in [status : {"partial", "complete"}, from : Nat, to : Nat]
      BY <1>15, CoverageType DEF FinishGold
    <3>2. new \in CompletenessRows
      BY <3>1 DEF CompletenessRows
    <3>3. complete \in [Datasets -> CompletenessRows] /\ "silver" \in Datasets
      BY DEF GoldTypeOK, CompletenessRows, Datasets
    <3>4. MergeCompleteness(complete["silver"], new) \in CompletenessRows
      BY <3>2, <3>3, MergeType
    <3>5. complete' = [complete EXCEPT !["silver"] = MergeCompleteness(complete["silver"], new)] \/ complete' = complete
      BY <1>15, <3>3 DEF FinishGold
    <3> HIDE DEF new
    <3> QED
      BY <3>3, <3>4, <3>5
  <2>3. outcome' \in [GoldRuns -> {"none", "done", "failed"}]
    BY <1>15 DEF FinishGold, Report, GoldTypeOK
  <2>4. ClearLocals(x)
    BY <1>15 DEF FinishGold, Report
  <2> QED
    BY <1>15, <2>1, <2>2, <2>3, <2>4, ClearType DEF FinishGold, Report, GoldTypeOK, GoldGoto, CompletenessRows
<1>16. ASSUME CrashGold(x) PROVE GoldTypeOK'
  <2>1. gFaults' \in 0..MaxGoldFaults
    BY <1>16, GoldFaultType DEF CrashGold
  <2> QED
    BY <1>16, <2>1, ClearType DEF CrashGold, GoldTypeOK, GoldGoto, goldTables
<1> QED
  BY <1>1, <1>2, <1>3, <1>4, <1>5, <1>6, <1>7, <1>8, <1>9, <1>10, <1>11, <1>12, <1>13, <1>14, <1>15, <1>16
     DEF Materialize


-----------------------------------------------------------------------------
(* One step of one task *)

GoldTaskStep(x) == (\E r \in GoldRuns : StartGold(x, r)) \/ Materialize(x) \/ CrashGold(x)

Locals(y) == <<gpc[y], gRun[y], failed[y], seed[y], suffix[y], hlInputs[y]>>

\* A task changes its own locals only.
LEMMA OtherTasks ==
    ASSUME GoldTypeOK, NEW x \in GoldTasks, GoldTaskStep(x), NEW y \in GoldTasks, y # x
    PROVE  Locals(y)' = Locals(y)
<1>1. ASSUME NEW r \in GoldRuns, StartGold(x, r) PROVE Locals(y)' = Locals(y)
  BY <1>1 DEF StartGold, GoldGoto, goldTables, goldLocals, Locals, GoldTypeOK
<1>2. ASSUME SaveSilver(x) PROVE Locals(y)' = Locals(y)
  BY <1>2 DEF SaveSilver, Fails, GoldGoto, Locals, GoldTypeOK
<1>3. ASSUME ResolveCanonical(x) PROVE Locals(y)' = Locals(y)
  BY <1>3 DEF ResolveCanonical, Report, ClearLocals, goldTables, goldLocals, GoldGoto, Locals, GoldTypeOK
<1>4. ASSUME WriteLedger(x) PROVE Locals(y)' = Locals(y)
  BY <1>4 DEF WriteLedger, Fails, GoldGoto, Locals, GoldTypeOK
<1>5. ASSUME ReadSeed(x) PROVE Locals(y)' = Locals(y)
  BY <1>5 DEF ReadSeed, SkipBalances, goldTables, Fails, GoldGoto, Locals, GoldTypeOK
<1>6. ASSUME ReadSuffix(x) PROVE Locals(y)' = Locals(y)
  BY <1>6 DEF ReadSuffix, SkipBalances, goldTables, Fails, GoldGoto, Locals, GoldTypeOK
<1>7. ASSUME ReadDeltas(x) PROVE Locals(y)' = Locals(y)
  BY <1>7 DEF ReadDeltas, SkipBalances, goldTables, Fails, GoldGoto, Locals, GoldTypeOK
<1>8. ASSUME WriteBalances(x) PROVE Locals(y)' = Locals(y)
  BY <1>8 DEF WriteBalances, Fails, GoldGoto, Locals, GoldTypeOK
<1>9. ASSUME ReadHlInputs(x) PROVE Locals(y)' = Locals(y)
  BY <1>9 DEF ReadHlInputs, goldTables, Fails, GoldGoto, Locals, GoldTypeOK
<1>10. ASSUME ReplacePnl(x) PROVE Locals(y)' = Locals(y)
  BY <1>10 DEF ReplacePnl, Fails, GoldGoto, Locals, GoldTypeOK
<1>11. ASSUME ReplaceTrades(x) PROVE Locals(y)' = Locals(y)
  BY <1>11 DEF ReplaceTrades, Fails, GoldGoto, Locals, GoldTypeOK
<1>12. ASSUME SaveProtocol(x) PROVE Locals(y)' = Locals(y)
  BY <1>12 DEF SaveProtocol, Fails, GoldGoto, Locals, GoldTypeOK
<1>13. ASSUME UpdateCompleteness(x) PROVE Locals(y)' = Locals(y)
  BY <1>13 DEF UpdateCompleteness, goldLocals, GoldGoto, Locals, GoldTypeOK
<1>14. ASSUME FinishGold(x) PROVE Locals(y)' = Locals(y)
  BY <1>14 DEF FinishGold, Report, ClearLocals, GoldGoto, Locals, GoldTypeOK
<1>15. ASSUME CrashGold(x) PROVE Locals(y)' = Locals(y)
  BY <1>15 DEF CrashGold, ClearLocals, goldTables, GoldGoto, Locals, GoldTypeOK
<1> QED
  BY <1>1, <1>2, <1>3, <1>4, <1>5, <1>6, <1>7, <1>8, <1>9, <1>10, <1>11, <1>12, <1>13, <1>14, <1>15 DEF GoldTaskStep, Materialize

\* A task keeps its run until it returns.
LEMMA RunKept ==
    ASSUME GoldTypeOK, NEW x \in GoldTasks, GoldTaskStep(x)
    PROVE  \/ gpc'[x] = "idle"
           \/ gpc[x] = "idle" /\ gpc'[x] = "silver" /\ gRun'[x] \in GoldRuns
           \/ gpc[x] # "idle" /\ gRun'[x] = gRun[x]
<1> DEFINE Kept == \/ gpc'[x] = "idle"
                   \/ gpc[x] = "idle" /\ gpc'[x] = "silver" /\ gRun'[x] \in GoldRuns
                   \/ gpc[x] # "idle" /\ gRun'[x] = gRun[x]
<1>1. ASSUME NEW r \in GoldRuns, StartGold(x, r) PROVE Kept
  <2>1. \/ gpc' = gpc
        \/ gRun' = [gRun EXCEPT ![x] = r] /\ gpc' = [gpc EXCEPT ![x] = "silver"]
    BY <1>1 DEF StartGold, GoldGoto
  <2>2. gpc[x] = "idle"
    BY <1>1 DEF StartGold
  <2> QED
    BY <2>1, <2>2 DEF GoldTypeOK
<1>2. ASSUME SaveSilver(x) PROVE Kept
  BY <1>2 DEF SaveSilver, Fails, GoldGoto, GoldTypeOK
<1>3. ASSUME ResolveCanonical(x) PROVE Kept
  <2>1. gpc' = [gpc EXCEPT ![x] = "idle"] \/ gRun' = gRun
    BY <1>3 DEF ResolveCanonical, Report, GoldGoto
  <2>2. gpc[x] = "canonical"
    BY <1>3 DEF ResolveCanonical
  <2> QED
    BY <2>1, <2>2 DEF GoldTypeOK
<1>4. ASSUME WriteLedger(x) PROVE Kept
  BY <1>4 DEF WriteLedger, Fails, GoldGoto, GoldTypeOK
<1>5. ASSUME ReadSeed(x) PROVE Kept
  BY <1>5 DEF ReadSeed, SkipBalances, goldTables, Fails, GoldGoto, GoldTypeOK
<1>6. ASSUME ReadSuffix(x) PROVE Kept
  BY <1>6 DEF ReadSuffix, SkipBalances, goldTables, Fails, GoldGoto, GoldTypeOK
<1>7. ASSUME ReadDeltas(x) PROVE Kept
  BY <1>7 DEF ReadDeltas, SkipBalances, goldTables, Fails, GoldGoto, GoldTypeOK
<1>8. ASSUME WriteBalances(x) PROVE Kept
  BY <1>8 DEF WriteBalances, Fails, GoldGoto, GoldTypeOK
<1>9. ASSUME ReadHlInputs(x) PROVE Kept
  BY <1>9 DEF ReadHlInputs, goldTables, Fails, GoldGoto, GoldTypeOK
<1>10. ASSUME ReplacePnl(x) PROVE Kept
  BY <1>10 DEF ReplacePnl, Fails, GoldGoto, GoldTypeOK
<1>11. ASSUME ReplaceTrades(x) PROVE Kept
  BY <1>11 DEF ReplaceTrades, Fails, GoldGoto, GoldTypeOK
<1>12. ASSUME SaveProtocol(x) PROVE Kept
  BY <1>12 DEF SaveProtocol, Fails, GoldGoto, GoldTypeOK
<1>13. ASSUME UpdateCompleteness(x) PROVE Kept
  BY <1>13 DEF UpdateCompleteness, goldLocals, GoldGoto, GoldTypeOK
<1>14. ASSUME FinishGold(x) PROVE Kept
  <2>1. gpc' = [gpc EXCEPT ![x] = "idle"]
    BY <1>14 DEF FinishGold, Report, GoldGoto
  <2> QED
    BY <2>1 DEF GoldTypeOK
<1>15. ASSUME CrashGold(x) PROVE Kept
  <2>1. gpc' = [gpc EXCEPT ![x] = "idle"]
    BY <1>15 DEF CrashGold, GoldGoto
  <2> QED
    BY <2>1 DEF GoldTypeOK
<1> QED
  BY <1>1, <1>2, <1>3, <1>4, <1>5, <1>6, <1>7, <1>8, <1>9, <1>10, <1>11, <1>12, <1>13, <1>14, <1>15 DEF GoldTaskStep, Materialize

LEMMA TasksStep ==
    ASSUME GoldTypeOK, TasksOK, NEW x \in GoldTasks, GoldTaskStep(x)
    PROVE  TasksOK'
  BY OtherTasks, RunKept DEF TasksOK, Locals

\* Silver rows are never removed.
LEMMA SilverGrows ==
    ASSUME NEW x \in GoldTasks, GoldTaskStep(x)
    PROVE  silverOf \subseteq silverOf'
<1>1. ASSUME NEW r \in GoldRuns, StartGold(x, r) PROVE silverOf \subseteq silverOf'
  BY <1>1 DEF StartGold, GoldGoto, goldTables, goldLocals, goldTables
<1>2. ASSUME SaveSilver(x) PROVE silverOf \subseteq silverOf'
  BY <1>2 DEF SaveSilver, Fails, GoldGoto, goldTables
<1>3. ASSUME ResolveCanonical(x) PROVE silverOf \subseteq silverOf'
  BY <1>3 DEF ResolveCanonical, Report, ClearLocals, goldTables, goldLocals, GoldGoto, goldTables
<1>4. ASSUME WriteLedger(x) PROVE silverOf \subseteq silverOf'
  BY <1>4 DEF WriteLedger, Fails, GoldGoto, goldTables
<1>5. ASSUME ReadSeed(x) PROVE silverOf \subseteq silverOf'
  BY <1>5 DEF ReadSeed, SkipBalances, goldTables, Fails, GoldGoto, goldTables
<1>6. ASSUME ReadSuffix(x) PROVE silverOf \subseteq silverOf'
  BY <1>6 DEF ReadSuffix, SkipBalances, goldTables, Fails, GoldGoto, goldTables
<1>7. ASSUME ReadDeltas(x) PROVE silverOf \subseteq silverOf'
  BY <1>7 DEF ReadDeltas, SkipBalances, goldTables, Fails, GoldGoto, goldTables
<1>8. ASSUME WriteBalances(x) PROVE silverOf \subseteq silverOf'
  BY <1>8 DEF WriteBalances, Fails, GoldGoto, goldTables
<1>9. ASSUME ReadHlInputs(x) PROVE silverOf \subseteq silverOf'
  BY <1>9 DEF ReadHlInputs, goldTables, Fails, GoldGoto, goldTables
<1>10. ASSUME ReplacePnl(x) PROVE silverOf \subseteq silverOf'
  BY <1>10 DEF ReplacePnl, Fails, GoldGoto, goldTables
<1>11. ASSUME ReplaceTrades(x) PROVE silverOf \subseteq silverOf'
  BY <1>11 DEF ReplaceTrades, Fails, GoldGoto, goldTables
<1>12. ASSUME SaveProtocol(x) PROVE silverOf \subseteq silverOf'
  BY <1>12 DEF SaveProtocol, Fails, GoldGoto, goldTables
<1>13. ASSUME UpdateCompleteness(x) PROVE silverOf \subseteq silverOf'
  BY <1>13 DEF UpdateCompleteness, goldLocals, GoldGoto, goldTables
<1>14. ASSUME FinishGold(x) PROVE silverOf \subseteq silverOf'
  BY <1>14 DEF FinishGold, Report, ClearLocals, GoldGoto, goldTables
<1>15. ASSUME CrashGold(x) PROVE silverOf \subseteq silverOf'
  BY <1>15 DEF CrashGold, ClearLocals, goldTables, GoldGoto
<1> QED
  BY <1>1, <1>2, <1>3, <1>4, <1>5, <1>6, <1>7, <1>8, <1>9, <1>10, <1>11, <1>12, <1>13, <1>14, <1>15 DEF GoldTaskStep, Materialize


\* A run is reported done by a task at its report of which nothing failed, and
\* failed by one of which something did, on a fault or for a rejected payload.
LEMMA Outcomes ==
    ASSUME GoldTypeOK, NEW x \in GoldTasks, GoldTaskStep(x), NEW r \in GoldRuns
    PROVE  \/ outcome'[r] = outcome[r]
           \/ /\ gpc[x] = "report" /\ gpc'[x] = "idle" /\ gRun[x] = r
              /\ outcome'[r] = IF failed[x] = {} THEN "done" ELSE "failed"
           \/ outcome'[r] = "failed" /\ (gFaults' # 0 \/ RunInputs[r] \cap Rejected # {})
<1> DEFINE Reported == \/ outcome'[r] = outcome[r]
                       \/ /\ gpc[x] = "report" /\ gpc'[x] = "idle" /\ gRun[x] = r
                          /\ outcome'[r] = IF failed[x] = {} THEN "done" ELSE "failed"
                       \/ outcome'[r] = "failed" /\ (gFaults' # 0 \/ RunInputs[r] \cap Rejected # {})
<1>1. ASSUME NEW s \in GoldRuns, StartGold(x, s) PROVE Reported
  <2>1. outcome' = outcome \/ (outcome' = [outcome EXCEPT ![s] = "failed"] /\ RunInputs[s] \cap Rejected # {})
    BY <1>1 DEF StartGold
  <2> QED
    BY <2>1 DEF GoldTypeOK
<1>2. ASSUME ResolveCanonical(x) PROVE Reported
  <2>1. outcome' = outcome \/ (outcome' = [outcome EXCEPT ![gRun[x]] = "failed"] /\ gFaults' # 0)
    BY <1>2, GoldFaultType DEF ResolveCanonical, Report
  <2> QED
    BY <2>1 DEF GoldTypeOK
<1>3. ASSUME FinishGold(x) PROVE Reported
  <2>1. /\ gpc[x] = "report" /\ gpc' = [gpc EXCEPT ![x] = "idle"]
        /\ outcome' = [outcome EXCEPT ![gRun[x]] = IF failed[x] = {} THEN "done" ELSE "failed"]
    BY <1>3 DEF FinishGold, Report, GoldGoto
  <2>2. gpc'[x] = "idle"
    BY <2>1 DEF GoldTypeOK
  <2>3. CASE gRun[x] = r
    BY <2>1, <2>2, <2>3 DEF GoldTypeOK
  <2>4. CASE gRun[x] # r
    BY <2>1, <2>4 DEF GoldTypeOK
  <2> QED
    BY <2>3, <2>4
<1>4. ASSUME SaveSilver(x) PROVE Reported
  BY <1>4 DEF SaveSilver
<1>5. ASSUME WriteLedger(x) PROVE Reported
  BY <1>5 DEF WriteLedger
<1>6. ASSUME ReadSeed(x) PROVE Reported
  BY <1>6 DEF ReadSeed
<1>7. ASSUME ReadSuffix(x) PROVE Reported
  BY <1>7 DEF ReadSuffix
<1>8. ASSUME ReadDeltas(x) PROVE Reported
  BY <1>8 DEF ReadDeltas
<1>9. ASSUME WriteBalances(x) PROVE Reported
  BY <1>9 DEF WriteBalances
<1>10. ASSUME ReadHlInputs(x) PROVE Reported
  BY <1>10 DEF ReadHlInputs
<1>11. ASSUME ReplacePnl(x) PROVE Reported
  BY <1>11 DEF ReplacePnl
<1>12. ASSUME ReplaceTrades(x) PROVE Reported
  BY <1>12 DEF ReplaceTrades
<1>13. ASSUME SaveProtocol(x) PROVE Reported
  BY <1>13 DEF SaveProtocol
<1>14. ASSUME UpdateCompleteness(x) PROVE Reported
  BY <1>14 DEF UpdateCompleteness
<1>15. ASSUME CrashGold(x) PROVE Reported
  BY <1>15 DEF CrashGold
<1> QED
  BY <1>1, <1>2, <1>3, <1>4, <1>5, <1>6, <1>7, <1>8, <1>9, <1>10, <1>11, <1>12, <1>13, <1>14, <1>15 DEF GoldTaskStep, Materialize

\* While a task works on its run, what failed stays failed.
LEMMA FailedGrows ==
    ASSUME GoldTypeOK, NEW x \in GoldTasks, GoldTaskStep(x), gpc'[x] # "idle"
    PROVE  failed[x] \subseteq failed'[x]
<1>1. ASSUME NEW r \in GoldRuns, StartGold(x, r) PROVE failed[x] \subseteq failed'[x]
  BY <1>1 DEF StartGold, GoldGoto, goldTables, goldLocals, GoldTypeOK
<1>2. ASSUME SaveSilver(x) PROVE failed[x] \subseteq failed'[x]
  BY <1>2 DEF SaveSilver, Fails, GoldGoto, GoldTypeOK
<1>3. ASSUME ResolveCanonical(x) PROVE failed[x] \subseteq failed'[x]
  BY <1>3 DEF ResolveCanonical, Report, ClearLocals, goldTables, goldLocals, GoldGoto, GoldTypeOK
<1>4. ASSUME WriteLedger(x) PROVE failed[x] \subseteq failed'[x]
  BY <1>4 DEF WriteLedger, Fails, GoldGoto, GoldTypeOK
<1>5. ASSUME ReadSeed(x) PROVE failed[x] \subseteq failed'[x]
  BY <1>5 DEF ReadSeed, SkipBalances, goldTables, Fails, GoldGoto, GoldTypeOK
<1>6. ASSUME ReadSuffix(x) PROVE failed[x] \subseteq failed'[x]
  BY <1>6 DEF ReadSuffix, SkipBalances, goldTables, Fails, GoldGoto, GoldTypeOK
<1>7. ASSUME ReadDeltas(x) PROVE failed[x] \subseteq failed'[x]
  BY <1>7 DEF ReadDeltas, SkipBalances, goldTables, Fails, GoldGoto, GoldTypeOK
<1>8. ASSUME WriteBalances(x) PROVE failed[x] \subseteq failed'[x]
  BY <1>8 DEF WriteBalances, Fails, GoldGoto, GoldTypeOK
<1>9. ASSUME ReadHlInputs(x) PROVE failed[x] \subseteq failed'[x]
  BY <1>9 DEF ReadHlInputs, goldTables, Fails, GoldGoto, GoldTypeOK
<1>10. ASSUME ReplacePnl(x) PROVE failed[x] \subseteq failed'[x]
  BY <1>10 DEF ReplacePnl, Fails, GoldGoto, GoldTypeOK
<1>11. ASSUME ReplaceTrades(x) PROVE failed[x] \subseteq failed'[x]
  BY <1>11 DEF ReplaceTrades, Fails, GoldGoto, GoldTypeOK
<1>12. ASSUME SaveProtocol(x) PROVE failed[x] \subseteq failed'[x]
  BY <1>12 DEF SaveProtocol, Fails, GoldGoto, GoldTypeOK
<1>13. ASSUME UpdateCompleteness(x) PROVE failed[x] \subseteq failed'[x]
  BY <1>13 DEF UpdateCompleteness, goldLocals, GoldGoto, GoldTypeOK
<1>14. ASSUME FinishGold(x) PROVE failed[x] \subseteq failed'[x]
  BY <1>14 DEF FinishGold, Report, ClearLocals, GoldGoto, GoldTypeOK
<1>15. ASSUME CrashGold(x) PROVE failed[x] \subseteq failed'[x]
  BY <1>15 DEF CrashGold, ClearLocals, goldTables, GoldGoto, GoldTypeOK
<1> QED
  BY <1>1, <1>2, <1>3, <1>4, <1>5, <1>6, <1>7, <1>8, <1>9, <1>10, <1>11, <1>12, <1>13, <1>14, <1>15 DEF GoldTaskStep, Materialize

\* A task past its Silver statement has stored its rows, unless that failed.
LEMMA SilverOwn ==
    ASSUME GoldTypeOK, TasksOK, SilverOK, NEW x \in GoldTasks, GoldTaskStep(x),
           gpc'[x] \notin {"idle", "silver"}, "silver" \notin failed'[x]
    PROVE  In(x)' \subseteq silverOf'
<1>1. gpc[x] # "idle" /\ gRun'[x] = gRun[x]
  BY RunKept
<1>2. In(x)' = In(x)
  BY <1>1 DEF In
<1>3. CASE gpc[x] = "silver"
  <2>1. SaveSilver(x)
    BY <1>1, <1>3 DEF GoldTaskStep, Materialize, StartGold, ResolveCanonical, WriteLedger, ReadSeed, ReadSuffix,
       ReadDeltas, WriteBalances, ReadHlInputs, ReplacePnl, ReplaceTrades, SaveProtocol, UpdateCompleteness,
       FinishGold, CrashGold, GoldGoto, GoldTypeOK
  <2>2. silverOf' = silverOf \cup In(x) \/ "silver" \in failed'[x]
    BY <2>1 DEF SaveSilver, Fails, GoldTypeOK
  <2> QED
    BY <1>2, <2>2
<1>4. CASE gpc[x] # "silver"
  <2>1. "silver" \notin failed[x]
    BY <1>1, <1>4, FailedGrows
  <2> QED
    BY <1>1, <1>2, <1>4, <2>1, SilverGrows DEF SilverOK
<1> QED
  BY <1>3, <1>4

LEMMA SilverStep ==
    ASSUME GoldTypeOK, TasksOK, SilverOK, NEW x \in GoldTasks, GoldTaskStep(x)
    PROVE  SilverOK'
<1>1. ASSUME NEW y \in GoldTasks, gpc'[y] \notin {"idle", "silver"}, "silver" \notin failed'[y]
      PROVE  In(y)' \subseteq silverOf'
  <2>1. CASE y = x
    BY <1>1, <2>1, SilverOwn
  <2>2. CASE y # x
    BY <1>1, <2>2, OtherTasks, SilverGrows DEF SilverOK, Locals, In
  <2> QED
    BY <2>1, <2>2
<1>2. ASSUME NEW r \in GoldRuns, outcome'[r] = "done" PROVE RunInputs[r] \subseteq silverOf'
  <2>1. outcome[r] = "done" \/ (gpc[x] = "report" /\ gRun[x] = r /\ failed[x] = {})
    BY <1>2, Outcomes
  <2> QED
    BY <2>1, SilverGrows DEF SilverOK, In
<1> QED
  BY <1>1, <1>2 DEF SilverOK


\* A repaired slice stays repaired.
LEMMA RepairedStays ==
    ASSUME GoldTypeOK, NEW x \in GoldTasks, GoldTaskStep(x), NEW S \in SUBSET Inputs, Repaired(S)
    PROVE  Repaired(S)'
<1>1. goldLedger' = goldLedger \/ goldLedger' = ReplaceLedger(x)
  <2>1. ASSUME NEW r \in GoldRuns, StartGold(x, r) PROVE goldLedger' = goldLedger \/ goldLedger' = ReplaceLedger(x)
    BY <2>1 DEF StartGold, GoldGoto, goldTables, goldLocals
  <2>2. ASSUME SaveSilver(x) PROVE goldLedger' = goldLedger \/ goldLedger' = ReplaceLedger(x)
    BY <2>2 DEF SaveSilver, Fails, GoldGoto, goldTables
  <2>3. ASSUME ResolveCanonical(x) PROVE goldLedger' = goldLedger \/ goldLedger' = ReplaceLedger(x)
    BY <2>3 DEF ResolveCanonical, Report, ClearLocals, goldTables, goldLocals, GoldGoto, goldTables
  <2>4. ASSUME WriteLedger(x) PROVE goldLedger' = goldLedger \/ goldLedger' = ReplaceLedger(x)
    BY <2>4 DEF WriteLedger, Fails, GoldGoto, goldTables
  <2>5. ASSUME ReadSeed(x) PROVE goldLedger' = goldLedger \/ goldLedger' = ReplaceLedger(x)
    BY <2>5 DEF ReadSeed, SkipBalances, goldTables, Fails, GoldGoto
  <2>6. ASSUME ReadSuffix(x) PROVE goldLedger' = goldLedger \/ goldLedger' = ReplaceLedger(x)
    BY <2>6 DEF ReadSuffix, SkipBalances, goldTables, Fails, GoldGoto
  <2>7. ASSUME ReadDeltas(x) PROVE goldLedger' = goldLedger \/ goldLedger' = ReplaceLedger(x)
    BY <2>7 DEF ReadDeltas, SkipBalances, goldTables, Fails, GoldGoto
  <2>8. ASSUME WriteBalances(x) PROVE goldLedger' = goldLedger \/ goldLedger' = ReplaceLedger(x)
    BY <2>8 DEF WriteBalances, Fails, GoldGoto, goldTables
  <2>9. ASSUME ReadHlInputs(x) PROVE goldLedger' = goldLedger \/ goldLedger' = ReplaceLedger(x)
    BY <2>9 DEF ReadHlInputs, goldTables, Fails, GoldGoto
  <2>10. ASSUME ReplacePnl(x) PROVE goldLedger' = goldLedger \/ goldLedger' = ReplaceLedger(x)
    BY <2>10 DEF ReplacePnl, Fails, GoldGoto, goldTables
  <2>11. ASSUME ReplaceTrades(x) PROVE goldLedger' = goldLedger \/ goldLedger' = ReplaceLedger(x)
    BY <2>11 DEF ReplaceTrades, Fails, GoldGoto, goldTables
  <2>12. ASSUME SaveProtocol(x) PROVE goldLedger' = goldLedger \/ goldLedger' = ReplaceLedger(x)
    BY <2>12 DEF SaveProtocol, Fails, GoldGoto, goldTables
  <2>13. ASSUME UpdateCompleteness(x) PROVE goldLedger' = goldLedger \/ goldLedger' = ReplaceLedger(x)
    BY <2>13 DEF UpdateCompleteness, goldLocals, GoldGoto, goldTables
  <2>14. ASSUME FinishGold(x) PROVE goldLedger' = goldLedger \/ goldLedger' = ReplaceLedger(x)
    BY <2>14 DEF FinishGold, Report, ClearLocals, GoldGoto, goldTables
  <2>15. ASSUME CrashGold(x) PROVE goldLedger' = goldLedger \/ goldLedger' = ReplaceLedger(x)
    BY <2>15 DEF CrashGold, ClearLocals, goldTables, GoldGoto
  <2> QED
    BY <2>1, <2>2, <2>3, <2>4, <2>5, <2>6, <2>7, <2>8, <2>9, <2>10, <2>11, <2>12, <2>13, <2>14, <2>15 DEF GoldTaskStep, Materialize
<1> QED
  BY <1>1 DEF Repaired, ReplaceLedger

LEMMA LedgerStep ==
    ASSUME GoldTypeOK, TasksOK, LedgerOK, NEW x \in GoldTasks, GoldTaskStep(x)
    PROVE  LedgerOK'
<1> DEFINE Before == {"idle", "silver", "canonical", "ledger"}
<1>1. SUFFICES ASSUME NEW y \in GoldTasks, gpc'[y] \notin Before,
                      "wallet_ledger" \notin failed'[y], LedgerBatch(y)' # {}
               PROVE  Repaired(In(y))'
  BY DEF LedgerOK
<1>2. CASE y # x
  <2>1. gpc'[y] = gpc[y] /\ gRun'[y] = gRun[y] /\ failed'[y] = failed[y]
    BY <1>2, OtherTasks DEF Locals
  <2>2. In(y)' = In(y)
    BY <2>1 DEF In
  <2>3. LedgerBatch(y) # {}
    BY <1>1, <2>2 DEF LedgerBatch
  <2>4. Repaired(In(y)) /\ In(y) \in SUBSET Inputs
    BY <1>1, <2>1, <2>3, TaskInputs DEF LedgerOK
  <2>5. PICK S \in SUBSET Inputs : S = In(y)
    BY <2>4
  <2>6. Repaired(S)'
    BY <2>4, <2>5, RepairedStays
  <2> QED
    BY <2>2, <2>5, <2>6 DEF Repaired
<1>3. CASE y = x
  <2>1. gpc[x] # "idle" /\ gRun'[x] = gRun[x]
    BY <1>1, <1>3, RunKept
  <2>2. In(x)' = In(x)
    BY <2>1 DEF In
  <2>3. LedgerBatch(x) # {}
    BY <1>1, <1>3, <2>2 DEF LedgerBatch
  <2>4. CASE gpc[x] \in Before
    <3>1. WriteLedger(x)
      BY <1>1, <1>3, <2>1, <2>4 DEF GoldTaskStep, Materialize, StartGold, SaveSilver, ResolveCanonical, WriteLedger, ReadSeed, ReadSuffix, ReadDeltas, WriteBalances, ReadHlInputs, ReplacePnl, ReplaceTrades, SaveProtocol, UpdateCompleteness, FinishGold, CrashGold, Report, GoldGoto, GoldTypeOK
    <3>2. goldLedger' = ReplaceLedger(x) \/ "wallet_ledger" \in failed'[x]
      BY <2>3, <3>1 DEF WriteLedger, Fails, GoldTypeOK
    <3>3. goldLedger' = ReplaceLedger(x)
      BY <1>1, <1>3, <3>2
    <3>4. In(x) \in SUBSET Inputs
      BY <2>1, TaskInputs
    <3> QED
      BY <1>3, <2>2, <3>3, <3>4 DEF Repaired, ReplaceLedger
  <2>5. CASE gpc[x] \notin Before
    <3>1. "wallet_ledger" \notin failed[x]
      BY <1>1, <1>3, FailedGrows
    <3>2. Repaired(In(x)) /\ In(x) \in SUBSET Inputs
      BY <2>1, <2>3, <2>5, <3>1, TaskInputs DEF LedgerOK
    <3>3. PICK S \in SUBSET Inputs : S = In(x)
      BY <3>2
    <3>4. Repaired(S)'
      BY <3>2, <3>3, RepairedStays
    <3> QED
      BY <1>3, <2>2, <3>3, <3>4 DEF Repaired
  <2> QED
    BY <2>4, <2>5
<1> QED
  BY <1>2, <1>3

LEMMA DoneStep ==
    ASSUME GoldTypeOK, TasksOK, LedgerOK, DoneIsRepaired, NEW x \in GoldTasks, GoldTaskStep(x)
    PROVE  DoneIsRepaired'
<1>1. SUFFICES ASSUME NEW r \in GoldRuns, outcome'[r] = "done", RunInputs[r] \cap InLedger # {}
               PROVE  Repaired(RunInputs[r])'
  BY DEF DoneIsRepaired, Repaired
<1>2. outcome[r] = "done" \/ (gpc[x] = "report" /\ gRun[x] = r /\ failed[x] = {})
  BY <1>1, Outcomes
<1>3. Repaired(RunInputs[r])
  BY <1>1, <1>2 DEF DoneIsRepaired, Repaired, LedgerOK, LedgerBatch, In
<1>4. RunInputs[r] \in SUBSET Inputs
  BY GoldAssumption
<1> QED
  BY <1>3, <1>4, RepairedStays


\* Snapshots are added with their deltas, and never removed.
LEMMA SnapsGrow ==
    ASSUME FailuresOK, NEW x \in GoldTasks, GoldTaskStep(x)
    PROVE  snaps \subseteq snaps' /\ snaps' \subseteq Legacy \cup deltas'
<1> USE DEF FailuresOK
<1>1. ASSUME NEW r \in GoldRuns, StartGold(x, r) PROVE snaps \subseteq snaps' /\ snaps' \subseteq Legacy \cup deltas'
  BY <1>1 DEF StartGold, GoldGoto, goldTables, goldLocals
<1>2. ASSUME SaveSilver(x) PROVE snaps \subseteq snaps' /\ snaps' \subseteq Legacy \cup deltas'
  BY <1>2 DEF SaveSilver, Fails, GoldGoto, goldTables
<1>3. ASSUME ResolveCanonical(x) PROVE snaps \subseteq snaps' /\ snaps' \subseteq Legacy \cup deltas'
  BY <1>3 DEF ResolveCanonical, Report, ClearLocals, goldTables, goldLocals, GoldGoto
<1>4. ASSUME WriteLedger(x) PROVE snaps \subseteq snaps' /\ snaps' \subseteq Legacy \cup deltas'
  BY <1>4 DEF WriteLedger, Fails, GoldGoto, goldTables
<1>5. ASSUME ReadSeed(x) PROVE snaps \subseteq snaps' /\ snaps' \subseteq Legacy \cup deltas'
  BY <1>5 DEF ReadSeed, SkipBalances, goldTables, Fails, GoldGoto
<1>6. ASSUME ReadSuffix(x) PROVE snaps \subseteq snaps' /\ snaps' \subseteq Legacy \cup deltas'
  BY <1>6 DEF ReadSuffix, SkipBalances, goldTables, Fails, GoldGoto
<1>7. ASSUME ReadDeltas(x) PROVE snaps \subseteq snaps' /\ snaps' \subseteq Legacy \cup deltas'
  BY <1>7 DEF ReadDeltas, SkipBalances, goldTables, Fails, GoldGoto
<1>8. ASSUME WriteBalances(x) PROVE snaps \subseteq snaps' /\ snaps' \subseteq Legacy \cup deltas'
  BY <1>8 DEF WriteBalances, Fails, GoldGoto, goldTables
<1>9. ASSUME ReadHlInputs(x) PROVE snaps \subseteq snaps' /\ snaps' \subseteq Legacy \cup deltas'
  BY <1>9 DEF ReadHlInputs, goldTables, Fails, GoldGoto
<1>10. ASSUME ReplacePnl(x) PROVE snaps \subseteq snaps' /\ snaps' \subseteq Legacy \cup deltas'
  BY <1>10 DEF ReplacePnl, Fails, GoldGoto, goldTables
<1>11. ASSUME ReplaceTrades(x) PROVE snaps \subseteq snaps' /\ snaps' \subseteq Legacy \cup deltas'
  BY <1>11 DEF ReplaceTrades, Fails, GoldGoto, goldTables
<1>12. ASSUME SaveProtocol(x) PROVE snaps \subseteq snaps' /\ snaps' \subseteq Legacy \cup deltas'
  BY <1>12 DEF SaveProtocol, Fails, GoldGoto, goldTables
<1>13. ASSUME UpdateCompleteness(x) PROVE snaps \subseteq snaps' /\ snaps' \subseteq Legacy \cup deltas'
  BY <1>13 DEF UpdateCompleteness, goldLocals, GoldGoto, goldTables
<1>14. ASSUME FinishGold(x) PROVE snaps \subseteq snaps' /\ snaps' \subseteq Legacy \cup deltas'
  BY <1>14 DEF FinishGold, Report, ClearLocals, GoldGoto, goldTables
<1>15. ASSUME CrashGold(x) PROVE snaps \subseteq snaps' /\ snaps' \subseteq Legacy \cup deltas'
  BY <1>15 DEF CrashGold, ClearLocals, goldTables, GoldGoto
<1> QED
  BY <1>1, <1>2, <1>3, <1>4, <1>5, <1>6, <1>7, <1>8, <1>9, <1>10, <1>11, <1>12, <1>13, <1>14, <1>15 DEF GoldTaskStep, Materialize

LEMMA SuffixStays ==
    ASSUME GoldTypeOK, FailuresOK, NEW x \in GoldTasks, GoldTaskStep(x)
    PROVE  suffix'[x] \subseteq snaps
<1>0. suffix[x] \subseteq snaps
  BY DEF FailuresOK
<1>1. ASSUME NEW r \in GoldRuns, StartGold(x, r) PROVE suffix'[x] \subseteq snaps
  BY <1>1, <1>0 DEF StartGold, GoldGoto, goldTables, goldLocals, GoldTypeOK
<1>2. ASSUME SaveSilver(x) PROVE suffix'[x] \subseteq snaps
  BY <1>2, <1>0 DEF SaveSilver, Fails, GoldGoto, GoldTypeOK
<1>3. ASSUME ResolveCanonical(x) PROVE suffix'[x] \subseteq snaps
  BY <1>3, <1>0 DEF ResolveCanonical, Report, ClearLocals, goldTables, goldLocals, GoldGoto, GoldTypeOK
<1>4. ASSUME WriteLedger(x) PROVE suffix'[x] \subseteq snaps
  BY <1>4, <1>0 DEF WriteLedger, Fails, GoldGoto, GoldTypeOK
<1>5. ASSUME ReadSeed(x) PROVE suffix'[x] \subseteq snaps
  BY <1>5, <1>0 DEF ReadSeed, SkipBalances, goldTables, Fails, GoldGoto, GoldTypeOK
<1>6. ASSUME ReadSuffix(x) PROVE suffix'[x] \subseteq snaps
  BY <1>6, <1>0 DEF ReadSuffix, SkipBalances, goldTables, Fails, GoldGoto, GoldTypeOK
<1>7. ASSUME ReadDeltas(x) PROVE suffix'[x] \subseteq snaps
  BY <1>7, <1>0 DEF ReadDeltas, SkipBalances, goldTables, Fails, GoldGoto, GoldTypeOK
<1>8. ASSUME WriteBalances(x) PROVE suffix'[x] \subseteq snaps
  BY <1>8, <1>0 DEF WriteBalances, Fails, GoldGoto, GoldTypeOK
<1>9. ASSUME ReadHlInputs(x) PROVE suffix'[x] \subseteq snaps
  BY <1>9, <1>0 DEF ReadHlInputs, goldTables, Fails, GoldGoto, GoldTypeOK
<1>10. ASSUME ReplacePnl(x) PROVE suffix'[x] \subseteq snaps
  BY <1>10, <1>0 DEF ReplacePnl, Fails, GoldGoto, GoldTypeOK
<1>11. ASSUME ReplaceTrades(x) PROVE suffix'[x] \subseteq snaps
  BY <1>11, <1>0 DEF ReplaceTrades, Fails, GoldGoto, GoldTypeOK
<1>12. ASSUME SaveProtocol(x) PROVE suffix'[x] \subseteq snaps
  BY <1>12, <1>0 DEF SaveProtocol, Fails, GoldGoto, GoldTypeOK
<1>13. ASSUME UpdateCompleteness(x) PROVE suffix'[x] \subseteq snaps
  BY <1>13, <1>0 DEF UpdateCompleteness, goldLocals, GoldGoto, GoldTypeOK
<1>14. ASSUME FinishGold(x) PROVE suffix'[x] \subseteq snaps
  BY <1>14, <1>0 DEF FinishGold, Report, ClearLocals, GoldGoto, GoldTypeOK
<1>15. ASSUME CrashGold(x) PROVE suffix'[x] \subseteq snaps
  BY <1>15, <1>0 DEF CrashGold, ClearLocals, goldTables, GoldGoto, GoldTypeOK
<1> QED
  BY <1>1, <1>2, <1>3, <1>4, <1>5, <1>6, <1>7, <1>8, <1>9, <1>10, <1>11, <1>12, <1>13, <1>14, <1>15 DEF GoldTaskStep, Materialize

\* The count of faults never goes back to zero.
LEMMA FaultsCount ==
    ASSUME GoldTypeOK, NEW x \in GoldTasks, GoldTaskStep(x), gFaults' = 0
    PROVE  gFaults = 0 /\ ~ GoldFault
<1>1. gFaults' = gFaults \/ GoldFault
  <2>1. ASSUME NEW r \in GoldRuns, StartGold(x, r) PROVE gFaults' = gFaults \/ GoldFault
    BY <2>1 DEF StartGold, GoldGoto, goldTables, goldLocals
  <2>2. ASSUME SaveSilver(x) PROVE gFaults' = gFaults \/ GoldFault
    BY <2>2 DEF SaveSilver, Fails, GoldGoto, goldTables
  <2>3. ASSUME ResolveCanonical(x) PROVE gFaults' = gFaults \/ GoldFault
    BY <2>3 DEF ResolveCanonical, Report, ClearLocals, goldTables, goldLocals, GoldGoto
  <2>4. ASSUME WriteLedger(x) PROVE gFaults' = gFaults \/ GoldFault
    BY <2>4 DEF WriteLedger, Fails, GoldGoto, goldTables
  <2>5. ASSUME ReadSeed(x) PROVE gFaults' = gFaults \/ GoldFault
    BY <2>5 DEF ReadSeed, SkipBalances, goldTables, Fails, GoldGoto
  <2>6. ASSUME ReadSuffix(x) PROVE gFaults' = gFaults \/ GoldFault
    BY <2>6 DEF ReadSuffix, SkipBalances, goldTables, Fails, GoldGoto
  <2>7. ASSUME ReadDeltas(x) PROVE gFaults' = gFaults \/ GoldFault
    BY <2>7 DEF ReadDeltas, SkipBalances, goldTables, Fails, GoldGoto
  <2>8. ASSUME WriteBalances(x) PROVE gFaults' = gFaults \/ GoldFault
    BY <2>8 DEF WriteBalances, Fails, GoldGoto, goldTables
  <2>9. ASSUME ReadHlInputs(x) PROVE gFaults' = gFaults \/ GoldFault
    BY <2>9 DEF ReadHlInputs, goldTables, Fails, GoldGoto
  <2>10. ASSUME ReplacePnl(x) PROVE gFaults' = gFaults \/ GoldFault
    BY <2>10 DEF ReplacePnl, Fails, GoldGoto, goldTables
  <2>11. ASSUME ReplaceTrades(x) PROVE gFaults' = gFaults \/ GoldFault
    BY <2>11 DEF ReplaceTrades, Fails, GoldGoto, goldTables
  <2>12. ASSUME SaveProtocol(x) PROVE gFaults' = gFaults \/ GoldFault
    BY <2>12 DEF SaveProtocol, Fails, GoldGoto, goldTables
  <2>13. ASSUME UpdateCompleteness(x) PROVE gFaults' = gFaults \/ GoldFault
    BY <2>13 DEF UpdateCompleteness, goldLocals, GoldGoto, goldTables
  <2>14. ASSUME FinishGold(x) PROVE gFaults' = gFaults \/ GoldFault
    BY <2>14 DEF FinishGold, Report, ClearLocals, GoldGoto, goldTables
  <2>15. ASSUME CrashGold(x) PROVE gFaults' = gFaults \/ GoldFault
    BY <2>15 DEF CrashGold, ClearLocals, goldTables, GoldGoto
  <2> QED
    BY <2>1, <2>2, <2>3, <2>4, <2>5, <2>6, <2>7, <2>8, <2>9, <2>10, <2>11, <2>12, <2>13, <2>14, <2>15 DEF GoldTaskStep, Materialize
<1> QED
  BY <1>1, GoldFaultType

\* Without a failed statement a task fails only over rows of the earlier release.
LEMMA FaultlessTask ==
    ASSUME GoldTypeOK, TasksOK, FailuresOK, NEW x \in GoldTasks, GoldTaskStep(x), gFaults' = 0
    PROVE  \/ failed'[x] = {}
           \/ failed'[x] = failed[x] /\ gpc[x] # "idle" /\ gpc'[x] # "idle"
           \/ /\ failed'[x] = failed[x] \cup {"balance_history"} /\ ~ (Legacy \subseteq In(x))
              /\ gpc[x] # "idle" /\ gpc'[x] # "idle"
<1> DEFINE Same == failed'[x] = failed[x] /\ gpc[x] # "idle" /\ gpc'[x] # "idle"
           Stuck == /\ failed'[x] = failed[x] \cup {"balance_history"} /\ ~ (Legacy \subseteq In(x))
                    /\ gpc[x] # "idle" /\ gpc'[x] # "idle"
<1>1. gFaults = 0 /\ ~ GoldFault
  BY FaultsCount
<1>2. gpc[x] = "idle" => failed[x] = {}
  BY <1>1 DEF FailuresOK
<1>3. ASSUME NEW r \in GoldRuns, StartGold(x, r) PROVE failed'[x] = {}
  BY <1>2, <1>3 DEF StartGold, goldLocals
<1>4. ASSUME ReadDeltas(x) PROVE Same \/ Stuck
  <2>1. gpc[x] = "deltas" /\ gpc'[x] \in {"balances", "hl"}
    BY <1>1, <1>4 DEF ReadDeltas, SkipBalances, GoldGoto, GoldTypeOK
  <2>2. CASE Recomputable(x)
    BY <1>1, <1>4, <2>1, <2>2 DEF ReadDeltas
  <2>3. CASE ~ Recomputable(x)
    <3>1. failed'[x] = failed[x] \cup {"balance_history"}
      BY <1>1, <1>4, <2>3 DEF ReadDeltas, SkipBalances, Fails, GoldTypeOK
    <3>2. ~ (Legacy \subseteq In(x))
      BY <2>3 DEF Recomputable, FailuresOK
    <3> QED
      BY <2>1, <3>1, <3>2
  <2> QED
    BY <2>2, <2>3
<1>5. ASSUME SaveSilver(x) PROVE Same
  BY <1>1, <1>5 DEF SaveSilver, GoldGoto, GoldTypeOK
<1>6. ASSUME ResolveCanonical(x) PROVE Same
  BY <1>1, <1>6 DEF ResolveCanonical, GoldGoto, GoldTypeOK, goldLocals
<1>7. ASSUME WriteLedger(x) PROVE Same
  BY <1>1, <1>7 DEF WriteLedger, GoldGoto, GoldTypeOK
<1>8. ASSUME ReadSeed(x) PROVE Same
  BY <1>1, <1>8 DEF ReadSeed, GoldGoto, GoldTypeOK
<1>9. ASSUME ReadSuffix(x) PROVE Same
  BY <1>1, <1>9 DEF ReadSuffix, GoldGoto, GoldTypeOK
<1>10. ASSUME WriteBalances(x) PROVE Same
  BY <1>1, <1>10 DEF WriteBalances, GoldGoto, GoldTypeOK
<1>11. ASSUME ReadHlInputs(x) PROVE Same
  BY <1>1, <1>11 DEF ReadHlInputs, GoldGoto, GoldTypeOK
<1>12. ASSUME ReplacePnl(x) PROVE Same
  BY <1>1, <1>12 DEF ReplacePnl, GoldGoto, GoldTypeOK
<1>13. ASSUME ReplaceTrades(x) PROVE Same
  BY <1>1, <1>13 DEF ReplaceTrades, GoldGoto, GoldTypeOK
<1>14. ASSUME SaveProtocol(x) PROVE Same
  BY <1>1, <1>14 DEF SaveProtocol, GoldGoto, GoldTypeOK
<1>15. ASSUME UpdateCompleteness(x) PROVE Same
  BY <1>1, <1>15 DEF UpdateCompleteness, GoldGoto, GoldTypeOK, goldLocals
<1>16. ASSUME FinishGold(x) PROVE failed'[x] = {}
  BY <1>16 DEF FinishGold, Report, ClearLocals, GoldTypeOK
<1>17. ~ CrashGold(x)
  BY <1>1 DEF CrashGold
<1> QED
  BY <1>3, <1>4, <1>5, <1>6, <1>7, <1>8, <1>9, <1>10, <1>11, <1>12, <1>13, <1>14, <1>15, <1>16, <1>17 DEF GoldTaskStep, Materialize

LEMMA FailuresStep ==
    ASSUME GoldTypeOK, TasksOK, FailuresOK, NEW x \in GoldTasks, GoldTaskStep(x)
    PROVE  FailuresOK'
<1>1. snaps' \subseteq Legacy \cup deltas'
  BY SnapsGrow
<1>2. ASSUME NEW y \in GoldTasks PROVE suffix'[y] \subseteq snaps'
  <2>1. CASE y = x
    BY <2>1, SuffixStays, SnapsGrow
  <2>2. CASE y # x
    BY <2>2, OtherTasks, SnapsGrow DEF FailuresOK, Locals
  <2> QED
    BY <2>1, <2>2
<1>3. ASSUME gFaults' = 0, NEW y \in GoldTasks
      PROVE  /\ failed'[y] \subseteq {"balance_history"}
             /\ gpc'[y] # "idle" /\ Legacy \subseteq In(y)' => failed'[y] = {}
             /\ gpc'[y] = "idle" => failed'[y] = {}
  <2>1. gFaults = 0
    BY <1>3, FaultsCount
  <2>2. CASE y # x
    BY <2>1, <2>2, OtherTasks DEF FailuresOK, Locals, In
  <2>3. CASE y = x
    <3>1. CASE failed'[x] = {}
      BY <2>3, <3>1
    <3>2. CASE failed'[x] = failed[x] /\ gpc[x] # "idle" /\ gpc'[x] # "idle"
      <4>1. In(x)' = In(x)
        BY <3>2, RunKept DEF In
      <4> QED
        BY <2>1, <2>3, <3>2, <4>1 DEF FailuresOK
    <3>3. CASE /\ failed'[x] = failed[x] \cup {"balance_history"} /\ ~ (Legacy \subseteq In(x))
               /\ gpc[x] # "idle" /\ gpc'[x] # "idle"
      <4>1. In(x)' = In(x)
        BY <3>3, RunKept DEF In
      <4> QED
        BY <2>1, <2>3, <3>3, <4>1 DEF FailuresOK
    <3> QED
      BY <1>3, <3>1, <3>2, <3>3, FaultlessTask
  <2> QED
    BY <2>2, <2>3
<1> QED
  BY <1>1, <1>2, <1>3 DEF FailuresOK

LEMMA SucceedsStep ==
    ASSUME GoldTypeOK, TasksOK, FailuresOK, SucceedsUnlessFaulted, NEW x \in GoldTasks, GoldTaskStep(x)
    PROVE  SucceedsUnlessFaulted'
<1>1. SUFFICES ASSUME NEW r \in GoldRuns, gFaults' = 0, RunInputs[r] \cap Rejected = {},
                      Legacy \subseteq RunInputs[r]
               PROVE  outcome'[r] # "failed"
  BY DEF SucceedsUnlessFaulted
<1>2. gFaults = 0
  BY <1>1, FaultsCount
<1>3. outcome[r] # "failed"
  BY <1>1, <1>2 DEF SucceedsUnlessFaulted
<1>4. gpc[x] = "report" /\ gRun[x] = r => failed[x] = {}
  BY <1>1, <1>2 DEF FailuresOK, In
<1> QED
  BY <1>1, <1>3, <1>4, Outcomes


\* The statements past the analytics.
PastAnalytics == {"protocol", "status", "report"}

\* The other statements neither write the analytics nor enter or leave their section.
LEMMA OtherStatements ==
    ASSUME GoldTypeOK, NEW x \in GoldTasks, GoldTaskStep(x),
           ~ ReadHlInputs(x), ~ ReplacePnl(x), ~ ReplaceTrades(x)
    PROVE  /\ pnlFrom' = pnlFrom /\ tradesFrom' = tradesFrom
           /\ gpc'[x] \notin {"pnl", "trades"}
           /\ gpc'[x] \in PastAnalytics => gpc[x] \in PastAnalytics
<1> DEFINE Outside == /\ pnlFrom' = pnlFrom /\ tradesFrom' = tradesFrom
                      /\ gpc'[x] \notin {"pnl", "trades"}
                      /\ gpc'[x] \in PastAnalytics => gpc[x] \in PastAnalytics
<1> USE DEF PastAnalytics
<1>1. ASSUME NEW r \in GoldRuns, StartGold(x, r) PROVE Outside
  BY <1>1 DEF StartGold, GoldGoto, goldTables, GoldTypeOK
<1>2. ASSUME SaveSilver(x) PROVE Outside
  BY <1>2 DEF SaveSilver, GoldGoto, GoldTypeOK
<1>3. ASSUME ResolveCanonical(x) PROVE Outside
  BY <1>3 DEF ResolveCanonical, Report, goldTables, GoldGoto, GoldTypeOK
<1>4. ASSUME WriteLedger(x) PROVE Outside
  BY <1>4 DEF WriteLedger, GoldGoto, GoldTypeOK
<1>5. ASSUME ReadSeed(x) PROVE Outside
  BY <1>5 DEF ReadSeed, SkipBalances, goldTables, GoldGoto, GoldTypeOK
<1>6. ASSUME ReadSuffix(x) PROVE Outside
  BY <1>6 DEF ReadSuffix, SkipBalances, goldTables, GoldGoto, GoldTypeOK
<1>7. ASSUME ReadDeltas(x) PROVE Outside
  BY <1>7 DEF ReadDeltas, SkipBalances, goldTables, GoldGoto, GoldTypeOK
<1>8. ASSUME WriteBalances(x) PROVE Outside
  BY <1>8 DEF WriteBalances, GoldGoto, GoldTypeOK
<1>9. ASSUME SaveProtocol(x) PROVE Outside
  BY <1>9 DEF SaveProtocol, GoldGoto, GoldTypeOK
<1>10. ASSUME UpdateCompleteness(x) PROVE Outside
  BY <1>10 DEF UpdateCompleteness, GoldGoto, GoldTypeOK
<1>11. ASSUME FinishGold(x) PROVE Outside
  BY <1>11 DEF FinishGold, Report, GoldGoto, GoldTypeOK
<1>12. ASSUME CrashGold(x) PROVE Outside
  BY <1>12 DEF CrashGold, goldTables, GoldGoto, GoldTypeOK
<1> QED
  BY <1>1, <1>2, <1>3, <1>4, <1>5, <1>6, <1>7, <1>8, <1>9, <1>10, <1>11, <1>12 DEF GoldTaskStep, Materialize

\* A run becomes settled only by a task that gets past the analytics of it.
LEMMA SettledSteps ==
    ASSUME GoldTypeOK, NEW x \in GoldTasks, GoldTaskStep(x), NEW r \in GoldRuns, Settled(r)'
    PROVE  \/ Settled(r)
           \/ /\ gRun'[x] = r /\ gpc'[x] \in PastAnalytics /\ gpc[x] \notin PastAnalytics
              /\ "hl" \notin failed'[x] /\ "silver" \notin failed'[x]
<1>1. CASE outcome'[r] = "done"
  <2>1. outcome[r] = "done" \/ (gpc[x] = "report" /\ gRun[x] = r /\ failed[x] = {})
    BY <1>1, Outcomes
  <2> QED
    BY <2>1 DEF Settled
<1>2. CASE outcome'[r] # "done"
  <2>1. PICK y \in GoldTasks : /\ gRun'[y] = r /\ gpc'[y] \in PastAnalytics
                              /\ "hl" \notin failed'[y] /\ "silver" \notin failed'[y]
    BY <1>2 DEF Settled, PastAnalytics
  <2>2. CASE y # x
    BY <2>1, <2>2, OtherTasks DEF Settled, Locals, PastAnalytics
  <2>3. CASE y = x /\ gpc[x] \in PastAnalytics
    <3>1. failed[x] \subseteq failed'[x] /\ gRun'[x] = gRun[x]
      BY <2>1, <2>3, FailedGrows, RunKept DEF PastAnalytics
    <3> QED
      BY <2>1, <2>3, <3>1 DEF Settled, PastAnalytics
  <2>4. CASE y = x /\ gpc[x] \notin PastAnalytics
    BY <2>1, <2>4
  <2> QED
    BY <2>2, <2>3, <2>4
<1> QED
  BY <1>1, <1>2

\* A settled run has its Silver rows.
LEMMA SettledHasSilver ==
    ASSUME SilverOK, NEW r \in GoldRuns, Settled(r)
    PROVE  RunInputs[r] \subseteq silverOf
  BY DEF SilverOK, Settled, In

LEMMA AnalyticsStep ==
    ASSUME GoldTypeOK, TasksOK, SilverOK, AnalyticsOK, NEW x \in GoldTasks, GoldTaskStep(x),
           "hl" \notin raced'
    PROVE  AnalyticsOK'
<1> DEFINE Quiet == \A y \in GoldTasks \ {x} : gpc[y] \notin {"pnl", "trades"}
           Cover(r) == Fills(r) \subseteq pnlFrom' \cap tradesFrom'
           HasRead(y) == /\ \A r \in GoldRuns : Settled(r)' => Fills(r) \subseteq hlInputs'[y]
                         /\ "silver" \notin failed'[y] => In(y)' \cap FillInputs \subseteq hlInputs'[y]
                         /\ gpc'[y] = "trades" /\ "hl" \notin failed'[y] => pnlFrom' = hlInputs'[y]
<1>1. SUFFICES /\ \A r \in GoldRuns : Settled(r)' => Cover(r)
               /\ \A y \in GoldTasks : gpc'[y] \in {"pnl", "trades"} => HasRead(y)
  BY DEF AnalyticsOK, Section, Fills
<1>2. /\ \A r \in GoldRuns : Settled(r) => Fills(r) \subseteq pnlFrom \cap tradesFrom
      /\ \A y \in GoldTasks : gpc[y] \in {"pnl", "trades"} =>
            /\ \A r \in GoldRuns : Settled(r) => Fills(r) \subseteq hlInputs[y]
            /\ "silver" \notin failed[y] => In(y) \cap FillInputs \subseteq hlInputs[y]
            /\ gpc[y] = "trades" /\ "hl" \notin failed[y] => pnlFrom = hlInputs[y]
  BY DEF AnalyticsOK, Section
<1>3. ASSUME NEW y \in GoldTasks, y # x
      PROVE  /\ gpc'[y] = gpc[y] /\ failed'[y] = failed[y] /\ hlInputs'[y] = hlInputs[y]
             /\ In(y)' = In(y)
  BY <1>3, OtherTasks DEF Locals, In
<1>4. CASE ~ ReadHlInputs(x) /\ ~ ReplacePnl(x) /\ ~ ReplaceTrades(x)
  <2>1. /\ pnlFrom' = pnlFrom /\ tradesFrom' = tradesFrom
        /\ gpc'[x] \notin {"pnl", "trades"}
        /\ gpc'[x] \in PastAnalytics => gpc[x] \in PastAnalytics
    BY <1>4, OtherStatements
  <2>2. \A r \in GoldRuns : Settled(r)' => Settled(r)
    BY <2>1, SettledSteps
  <2> HIDE DEF PastAnalytics
  <2> QED
    BY <1>2, <1>3, <2>1, <2>2
<1>5. CASE ReadHlInputs(x)
  <2>1. /\ gpc[x] = "hl" /\ pnlFrom' = pnlFrom /\ tradesFrom' = tradesFrom /\ gRun' = gRun
        /\ failed[x] \subseteq failed'[x]
    BY <1>5 DEF ReadHlInputs, goldTables, Fails, GoldTypeOK
  <2>2. ASSUME "silver" \notin failed[x] PROVE In(x) \subseteq silverOf
    BY <2>1, <2>2 DEF SilverOK
  <2>3. ASSUME gpc'[x] \in PastAnalytics, "hl" \notin failed'[x], "silver" \notin failed'[x]
        PROVE  In(x) \cap FillInputs = {}
    <3>1. In(x) \cap FillInputs = {} \/ HlWalletInputs(x) = {}
      BY <1>5, <2>3 DEF ReadHlInputs, Fails, GoldGoto, GoldTypeOK, PastAnalytics
    <3> QED
      BY <2>1, <2>2, <2>3, <3>1 DEF HlWalletInputs
  <2>4. \A r \in GoldRuns : Settled(r)' => Settled(r) \/ Fills(r) = {}
    BY <2>1, <2>3, SettledSteps DEF Fills, In
  <2>5. ASSUME gpc'[x] \in {"pnl", "trades"}
        PROVE  hlInputs'[x] = silverOf \cap FillInputs /\ gpc'[x] = "pnl"
    BY <1>5, <2>5 DEF ReadHlInputs, HlWalletInputs, GoldGoto, GoldTypeOK
  <2>6. \A r \in GoldRuns : Settled(r) => Fills(r) \subseteq silverOf \cap FillInputs
    BY SettledHasSilver DEF Fills
  <2>7. In(x)' = In(x)
    BY <2>1 DEF In
  <2>8. ASSUME gpc'[x] \in {"pnl", "trades"} PROVE HasRead(x)
    BY <2>1, <2>2, <2>4, <2>5, <2>6, <2>7, <2>8
  <2> QED
    BY <1>2, <1>3, <2>1, <2>4, <2>8
<1>6. CASE ReplacePnl(x)
  <2>1. /\ gpc[x] = "pnl" /\ gpc'[x] = "trades" /\ tradesFrom' = tradesFrom /\ gRun' = gRun
        /\ failed[x] \subseteq failed'[x] /\ hlInputs' = hlInputs
        /\ pnlFrom' = hlInputs[x] \/ (pnlFrom' = pnlFrom /\ "hl" \in failed'[x])
    BY <1>6 DEF ReplacePnl, Fails, GoldGoto, GoldTypeOK
  <2>2. Quiet
    BY <1>6 DEF ReplacePnl, Races, Section
  <2>3. \A r \in GoldRuns : Settled(r)' => Settled(r)
    BY <2>1, SettledSteps DEF PastAnalytics
  <2>4. In(x)' = In(x)
    BY <2>1 DEF In
  <2>5. HasRead(x)
    BY <1>2, <2>1, <2>3, <2>4
  <2> QED
    BY <1>2, <1>3, <2>1, <2>2, <2>3, <2>5
<1>7. CASE ReplaceTrades(x)
  <2>1. /\ gpc[x] = "trades" /\ gpc'[x] = "protocol" /\ pnlFrom' = pnlFrom /\ gRun' = gRun
        /\ failed[x] \subseteq failed'[x] /\ hlInputs' = hlInputs
        /\ tradesFrom' = hlInputs[x] \/ (tradesFrom' = tradesFrom /\ "hl" \in failed'[x])
    BY <1>7 DEF ReplaceTrades, Fails, GoldGoto, GoldTypeOK
  <2>2. Quiet
    BY <1>7 DEF ReplaceTrades, Races, Section
  <2>3. ASSUME NEW r \in GoldRuns, Settled(r)' PROVE Cover(r)
    <3>1. CASE Settled(r)
      BY <1>2, <2>1, <3>1
    <3>2. CASE gRun'[x] = r /\ "hl" \notin failed'[x] /\ "silver" \notin failed'[x]
      <4>1. /\ "hl" \notin failed[x] /\ "silver" \notin failed[x]
            /\ tradesFrom' = hlInputs[x] /\ In(x) = RunInputs[r]
        BY <2>1, <3>2 DEF In
      <4> QED
        BY <1>2, <2>1, <4>1 DEF Fills
    <3> QED
      BY <2>3, <3>1, <3>2, SettledSteps
  <2> QED
    BY <1>3, <2>1, <2>2, <2>3
<1> QED
  BY <1>4, <1>5, <1>6, <1>7


-----------------------------------------------------------------------------
(* The balance history *)

\* The statements between the read of the balances and their write.
BalanceSection == {"suffix", "deltas", "balances"}

\* The other statements neither write balances nor enter the section.
LEMMA NoBalanceStatement ==
    ASSUME GoldTypeOK, NEW x \in GoldTasks, GoldTaskStep(x),
           ~ ReadSeed(x), ~ ReadSuffix(x), ~ ReadDeltas(x), ~ WriteBalances(x)
    PROVE  /\ balance' = balance /\ snaps' = snaps /\ deltas' = deltas
           /\ gpc'[x] \notin BalanceSection
<1> DEFINE Outside == /\ balance' = balance /\ snaps' = snaps /\ deltas' = deltas
                      /\ gpc'[x] \notin BalanceSection
<1> USE DEF BalanceSection
<1>1. ASSUME NEW r \in GoldRuns, StartGold(x, r) PROVE Outside
  BY <1>1 DEF StartGold, GoldGoto, goldTables, GoldTypeOK
<1>2. ASSUME SaveSilver(x) PROVE Outside
  BY <1>2 DEF SaveSilver, GoldGoto, GoldTypeOK
<1>3. ASSUME ResolveCanonical(x) PROVE Outside
  BY <1>3 DEF ResolveCanonical, Report, goldTables, GoldGoto, GoldTypeOK
<1>4. ASSUME WriteLedger(x) PROVE Outside
  BY <1>4 DEF WriteLedger, GoldGoto, GoldTypeOK
<1>5. ASSUME ReadHlInputs(x) PROVE Outside
  BY <1>5 DEF ReadHlInputs, goldTables, GoldGoto, GoldTypeOK
<1>6. ASSUME ReplacePnl(x) PROVE Outside
  BY <1>6 DEF ReplacePnl, GoldGoto, GoldTypeOK
<1>7. ASSUME ReplaceTrades(x) PROVE Outside
  BY <1>7 DEF ReplaceTrades, GoldGoto, GoldTypeOK
<1>8. ASSUME SaveProtocol(x) PROVE Outside
  BY <1>8 DEF SaveProtocol, GoldGoto, GoldTypeOK
<1>9. ASSUME UpdateCompleteness(x) PROVE Outside
  BY <1>9 DEF UpdateCompleteness, GoldGoto, GoldTypeOK
<1>10. ASSUME FinishGold(x) PROVE Outside
  BY <1>10 DEF FinishGold, Report, GoldGoto, GoldTypeOK
<1>11. ASSUME CrashGold(x) PROVE Outside
  BY <1>11 DEF CrashGold, goldTables, GoldGoto, GoldTypeOK
<1> QED
  BY <1>1, <1>2, <1>3, <1>4, <1>5, <1>6, <1>7, <1>8, <1>9, <1>10, <1>11 DEF GoldTaskStep, Materialize

\* The greatest element is the only one.
LEMMA MaxUnique ==
    ASSUME NEW S \in SUBSET Inputs, NEW n \in S, \A m \in S : n >= m
    PROVE  Max(S) = n
<1>1. Max(S) \in S /\ Max(S) >= n
  BY InputsOrdered
<1>2. n >= Max(S) /\ n \in Nat /\ Max(S) \in Nat
  BY <1>1, GoldAssumption
<1> QED
  BY <1>1, <1>2

\* A replay that starts from the balance before its first event and takes in every
\* stored event after it leaves a history that adds up.
LEMMA ReplayAddsUp ==
    ASSUME GoldTypeOK, BalancesAddUp, NEW es \in SUBSET Inputs, NEW F \in es,
           \A j \in es : F <= j,
           \A j \in snaps : j >= F => j \in es,
           balance' = [i \in Inputs |-> IF i \in es THEN Replay(es, BalanceBefore(F))[i] ELSE balance[i]],
           snaps' = snaps \cup es, deltas' = deltas \cup es
    PROVE  BalancesAddUp'
<1> DEFINE start == BalanceBefore(F)
           R == Replay(es, start)
<1>1. start \in Int
  BY BalanceBeforeType
<1>2. /\ R \in [es -> Int]
      /\ \A i \in es : LET prior == {j \in es : j < i}
                       IN  R[i] = DeltaOf[i] + IF prior = {} THEN start ELSE R[Max(prior)]
  BY <1>1, ReplayIs
<1>3. \A i \in Inputs : balance'[i] = IF i \in es THEN R[i] ELSE balance[i]
  OBVIOUS
<1> HIDE DEF R, start
<1>4. /\ \A i \in Inputs : i \in Nat
      /\ snaps \subseteq Inputs /\ deltas \subseteq snaps /\ F \in Inputs
  BY GoldAssumption DEF GoldTypeOK
<1>5. SUFFICES ASSUME NEW i \in deltas' PROVE balance'[i] = DeltaOf[i] + BalanceBefore(i)'
  BY DEF BalancesAddUp
<1>6. i \in Inputs /\ i \in Nat /\ F \in Nat
  BY <1>4, <1>5
<1> DEFINE after == {j \in snaps' : j < i}
<1>7. after \in SUBSET Inputs
  BY <1>4
<1>8. BalanceBefore(i)' = IF after = {} THEN 0 ELSE balance'[Max(after)]
  BY DEF BalanceBefore
<1>9. CASE i \in es
  <2> DEFINE prior == {j \in es : j < i}
  <2>1. balance'[i] = DeltaOf[i] + IF prior = {} THEN start ELSE R[Max(prior)]
    BY <1>2, <1>3, <1>6, <1>9
  <2>2. prior \in SUBSET Inputs
    OBVIOUS
  <2>3. CASE prior = {}
    <3>1. i = F
      BY <1>6, <1>9, <2>3
    <3>2. after = {j \in snaps : j < F}
      <4>1. \A j \in es : ~ (j < i)
        BY <2>3
      <4> QED
        BY <3>1, <4>1
    <3>3. CASE after = {}
      BY <1>8, <2>1, <2>3, <3>2, <3>3 DEF start, BalanceBefore
    <3>4. CASE after # {}
      <4>1. Max(after) \in after
        BY <1>7, <3>4, InputsOrdered
      <4>2. PICK m \in after : m = Max(after)
        BY <4>1
      <4>3. m \in Inputs /\ m \notin es
        BY <1>7, <2>3, <4>2
      <4>4. balance'[m] = balance[m]
        BY <1>3, <4>3
      <4>5. start = balance[m]
        BY <3>2, <3>4, <4>2 DEF start, BalanceBefore
      <4> QED
        BY <1>8, <2>1, <2>3, <3>4, <4>2, <4>4, <4>5
    <3> QED
      BY <3>3, <3>4
  <2>4. CASE prior # {}
    <3>1. Max(prior) \in prior /\ \A m \in prior : Max(prior) >= m
      BY <2>2, <2>4, InputsOrdered
    <3>2. PICK p \in prior : p = Max(prior) /\ \A m \in prior : p >= m
      BY <3>1
    <3>3. p \in after /\ p \in es /\ p >= F /\ p \in Nat
      BY <1>4, <1>6, <3>2
    <3>4. ASSUME NEW m \in after PROVE p >= m
      <4>1. CASE m \in es
        BY <3>2, <4>1
      <4>2. CASE m \notin es
        <5>1. m \in snaps /\ ~ (m >= F) /\ m \in Nat
          BY <1>4, <4>2
        <5> QED
          BY <1>6, <3>3, <5>1
      <4> QED
        BY <4>1, <4>2
    <3>5. Max(after) = p
      BY <1>7, <3>3, <3>4, MaxUnique
    <3>6. balance'[p] = R[p]
      BY <1>3, <3>3
    <3> QED
      BY <1>8, <2>1, <2>4, <3>2, <3>3, <3>5, <3>6
  <2> QED
    BY <2>3, <2>4
<1>10. CASE i \notin es
  <2>1. i \in deltas /\ i \in snaps /\ i < F
    BY <1>4, <1>6, <1>10
  <2>2. \A j \in es : ~ (j < i)
    BY <1>4, <1>6, <2>1
  <2>3. after = {j \in snaps : j < i}
    BY <2>2
  <2>4. balance'[i] = balance[i] /\ balance[i] = DeltaOf[i] + BalanceBefore(i)
    BY <1>3, <1>6, <1>10, <2>1 DEF BalancesAddUp
  <2>5. CASE after = {}
    BY <1>8, <2>3, <2>4, <2>5 DEF BalanceBefore
  <2>6. CASE after # {}
    <3>1. Max(after) \in after
      BY <1>7, <2>6, InputsOrdered
    <3>2. PICK m \in after : m = Max(after)
      BY <3>1
    <3>3. m \in Inputs /\ m \notin es
      BY <1>7, <2>2, <3>2
    <3>4. balance'[m] = balance[m]
      BY <1>3, <3>3
    <3>5. BalanceBefore(i) = balance[m]
      BY <2>3, <2>6, <3>2 DEF BalanceBefore
    <3> QED
      BY <1>8, <2>4, <2>6, <3>2, <3>4, <3>5
  <2> QED
    BY <2>5, <2>6
<1> QED
  BY <1>9, <1>10

LEMMA BalancesStep ==
    ASSUME GoldTypeOK, TasksOK, BalancesAddUp, BalanceReadsOK, NEW x \in GoldTasks, GoldTaskStep(x),
           "balance" \notin raced'
    PROVE  BalancesAddUp' /\ BalanceReadsOK'
<1> DEFINE HasRead(y) ==
             /\ gpc[y] \in BalanceSection => seed[y] = BalanceBefore(First(y))
             /\ gpc[y] \in {"deltas", "balances"} => suffix[y] = {i \in snaps : i >= First(y)}
<1>1. \A y \in GoldTasks : HasRead(y)
  BY DEF BalanceReadsOK, Section, BalanceSection
<1>2. SUFFICES BalancesAddUp' /\ \A y \in GoldTasks : HasRead(y)'
  BY DEF BalanceReadsOK, Section, BalanceSection
<1>3. ASSUME NEW y \in GoldTasks, y # x
      PROVE  /\ gpc'[y] = gpc[y] /\ seed'[y] = seed[y] /\ suffix'[y] = suffix[y]
             /\ First(y)' = First(y)
  BY <1>3, OtherTasks DEF Locals, First, In
<1>4. ASSUME balance' = balance, snaps' = snaps
      PROVE  \A y \in GoldTasks \ {x} : HasRead(y)'
  BY <1>1, <1>3, <1>4 DEF BalanceBefore
<1>5. ASSUME balance' = balance, snaps' = snaps, deltas' = deltas
      PROVE  BalancesAddUp'
  BY <1>5 DEF BalancesAddUp, BalanceBefore
<1>6. CASE ~ ReadSeed(x) /\ ~ ReadSuffix(x) /\ ~ ReadDeltas(x) /\ ~ WriteBalances(x)
  <2>1. /\ balance' = balance /\ snaps' = snaps /\ deltas' = deltas
        /\ gpc'[x] \notin BalanceSection
    BY <1>6, NoBalanceStatement
  <2>2. HasRead(x)'
    BY <2>1 DEF BalanceSection
  <2> QED
    BY <1>4, <1>5, <2>1, <2>2
<1>7. CASE ReadSeed(x)
  <2>1. balance' = balance /\ snaps' = snaps /\ deltas' = deltas /\ gRun' = gRun
    BY <1>7 DEF ReadSeed, goldTables
  <2>2. \/ gpc'[x] = "suffix" /\ seed'[x] = BalanceBefore(First(x))
        \/ gpc'[x] = "hl"
    BY <1>7 DEF ReadSeed, SkipBalances, GoldGoto, GoldTypeOK
  <2>3. First(x)' = First(x)
    BY <2>1 DEF First, In
  <2>4. BalanceBefore(First(x))' = BalanceBefore(First(x))
    BY <2>1, <2>3 DEF BalanceBefore
  <2>5. HasRead(x)'
    BY <2>2, <2>4 DEF BalanceSection
  <2> QED
    BY <1>4, <1>5, <2>1, <2>5
<1>8. CASE ReadSuffix(x)
  <2>1. /\ balance' = balance /\ snaps' = snaps /\ deltas' = deltas /\ gRun' = gRun
        /\ seed' = seed /\ gpc[x] = "suffix"
    BY <1>8 DEF ReadSuffix, goldTables
  <2>2. \/ gpc'[x] = "deltas" /\ suffix'[x] = {i \in snaps : i >= First(x)}
        \/ gpc'[x] = "hl"
    BY <1>8 DEF ReadSuffix, SkipBalances, GoldGoto, GoldTypeOK
  <2>3. First(x)' = First(x)
    BY <2>1 DEF First, In
  <2>4. BalanceBefore(First(x))' = BalanceBefore(First(x))
    BY <2>1, <2>3 DEF BalanceBefore
  <2>5. HasRead(x)'
    BY <1>1, <2>1, <2>2, <2>3, <2>4 DEF BalanceSection
  <2> QED
    BY <1>4, <1>5, <2>1, <2>5
<1>9. CASE ReadDeltas(x)
  <2>1. /\ balance' = balance /\ snaps' = snaps /\ deltas' = deltas /\ gRun' = gRun
        /\ seed' = seed /\ suffix' = suffix /\ gpc[x] = "deltas"
    BY <1>9 DEF ReadDeltas, goldTables
  <2>2. gpc'[x] \in {"balances", "hl"}
    BY <1>9 DEF ReadDeltas, SkipBalances, GoldGoto, GoldTypeOK
  <2>3. First(x)' = First(x)
    BY <2>1 DEF First, In
  <2>4. BalanceBefore(First(x))' = BalanceBefore(First(x))
    BY <2>1, <2>3 DEF BalanceBefore
  <2>5. HasRead(x)'
    BY <1>1, <2>1, <2>2, <2>3, <2>4 DEF BalanceSection
  <2> QED
    BY <1>4, <1>5, <2>1, <2>5
<1>10. CASE WriteBalances(x)
  <2>1. gpc[x] = "balances" /\ gpc'[x] = "hl"
    BY <1>10 DEF WriteBalances, GoldGoto, GoldTypeOK
  <2>2. \A y \in GoldTasks \ {x} : gpc[y] \notin BalanceSection
    BY <1>10 DEF WriteBalances, Races, Section, BalanceSection
  <2>3. \A y \in GoldTasks : HasRead(y)'
    BY <1>3, <2>1, <2>2 DEF BalanceSection
  <2>4. CASE balance' = balance /\ snaps' = snaps /\ deltas' = deltas
    BY <1>5, <2>3, <2>4
  <2>5. CASE ~ (balance' = balance /\ snaps' = snaps /\ deltas' = deltas)
    <3> DEFINE es == Recompute(x)
    <3>1. /\ balance' = [i \in Inputs |-> IF i \in es THEN Replay(es, seed[x])[i] ELSE balance[i]]
          /\ snaps' = snaps \cup es /\ deltas' = deltas \cup es
      BY <1>10, <2>5 DEF WriteBalances
    <3>2. seed[x] = BalanceBefore(First(x)) /\ suffix[x] = {i \in snaps : i >= First(x)}
      BY <1>1, <2>1 DEF BalanceSection
    <3>3. /\ In(x) \in SUBSET Inputs /\ First(x) \in In(x)
          /\ \A m \in In(x) : First(x) <= m
      BY <2>1, TaskInputs
    <3>4. es \in SUBSET Inputs /\ First(x) \in es
      BY <3>2, <3>3 DEF Recompute, GoldTypeOK
    <3>5. \A j \in es : First(x) <= j
      BY <3>2, <3>3, GoldAssumption DEF Recompute, GoldTypeOK
    <3>6. \A j \in snaps : j >= First(x) => j \in es
      BY <3>2 DEF Recompute
    <3> HIDE DEF es
    <3>7. PICK F \in es : F = First(x)
      BY <3>4
    <3>8. balance' = [i \in Inputs |-> IF i \in es THEN Replay(es, BalanceBefore(F))[i] ELSE balance[i]]
      BY <3>1, <3>2, <3>7
    <3>9. BalancesAddUp'
      BY <3>1, <3>4, <3>5, <3>6, <3>7, <3>8, ReplayAddsUp
    <3> QED
      BY <2>3, <3>9
  <2> QED
    BY <2>4, <2>5
<1> QED
  BY <1>6, <1>7, <1>8, <1>9, <1>10


-----------------------------------------------------------------------------
(* The theorems *)

\* A race is never forgotten.
LEMMA RacedGrows ==
    ASSUME NEW x \in GoldTasks, GoldTaskStep(x)
    PROVE  raced \subseteq raced'
<1>1. ASSUME NEW r \in GoldRuns, StartGold(x, r) PROVE raced \subseteq raced'
  BY <1>1 DEF StartGold, Races
<1>2. ASSUME SaveSilver(x) PROVE raced \subseteq raced'
  BY <1>2 DEF SaveSilver, Races
<1>3. ASSUME ResolveCanonical(x) PROVE raced \subseteq raced'
  BY <1>3 DEF ResolveCanonical, Races
<1>4. ASSUME WriteLedger(x) PROVE raced \subseteq raced'
  BY <1>4 DEF WriteLedger, Races
<1>5. ASSUME ReadSeed(x) PROVE raced \subseteq raced'
  BY <1>5 DEF ReadSeed, Races
<1>6. ASSUME ReadSuffix(x) PROVE raced \subseteq raced'
  BY <1>6 DEF ReadSuffix, Races
<1>7. ASSUME ReadDeltas(x) PROVE raced \subseteq raced'
  BY <1>7 DEF ReadDeltas, Races
<1>8. ASSUME WriteBalances(x) PROVE raced \subseteq raced'
  BY <1>8 DEF WriteBalances, Races
<1>9. ASSUME ReadHlInputs(x) PROVE raced \subseteq raced'
  BY <1>9 DEF ReadHlInputs, Races
<1>10. ASSUME ReplacePnl(x) PROVE raced \subseteq raced'
  BY <1>10 DEF ReplacePnl, Races
<1>11. ASSUME ReplaceTrades(x) PROVE raced \subseteq raced'
  BY <1>11 DEF ReplaceTrades, Races
<1>12. ASSUME SaveProtocol(x) PROVE raced \subseteq raced'
  BY <1>12 DEF SaveProtocol, Races
<1>13. ASSUME UpdateCompleteness(x) PROVE raced \subseteq raced'
  BY <1>13 DEF UpdateCompleteness, Races
<1>14. ASSUME FinishGold(x) PROVE raced \subseteq raced'
  BY <1>14 DEF FinishGold, Races
<1>15. ASSUME CrashGold(x) PROVE raced \subseteq raced'
  BY <1>15 DEF CrashGold, Races
<1> QED
  BY <1>1, <1>2, <1>3, <1>4, <1>5, <1>6, <1>7, <1>8, <1>9, <1>10, <1>11, <1>12, <1>13, <1>14, <1>15 DEF GoldTaskStep, Materialize

LEMMA GoldInvInit == GoldInit => GoldInv
<1> SUFFICES ASSUME GoldInit PROVE GoldInv
  OBVIOUS
<1>1. GoldTypeOK
  BY GoldTypeInit
<1>2. \A x \in GoldTasks : gpc[x] = "idle" /\ failed[x] = {} /\ suffix[x] = {}
  BY DEF GoldInit
<1>3. \A r \in GoldRuns : outcome[r] = "none"
  BY DEF GoldInit
<1>4. TasksOK /\ SilverOK /\ LedgerOK /\ DoneIsRepaired /\ SucceedsUnlessFaulted
  BY <1>2, <1>3 DEF TasksOK, SilverOK, LedgerOK, DoneIsRepaired, SucceedsUnlessFaulted
<1>5. BalancesAddUp /\ BalanceReadsOK
  BY <1>2 DEF GoldInit, BalancesAddUp, BalanceReadsOK, Section
<1>6. AnalyticsOK
  BY <1>2, <1>3 DEF AnalyticsOK, Settled, Section
<1>7. FailuresOK
  BY <1>2 DEF FailuresOK, GoldInit
<1> QED
  BY <1>1, <1>4, <1>5, <1>6, <1>7 DEF GoldInv

LEMMA GoldInvStep == GoldInv /\ [GoldNext]_goldVars => GoldInv'
<1> SUFFICES ASSUME GoldInv, [GoldNext]_goldVars PROVE GoldInv'
  OBVIOUS
<1>1. CASE GoldNext
  <2>1. PICK x \in GoldTasks : GoldTaskStep(x)
    BY <1>1 DEF GoldNext, GoldTaskStep
  <2>2. GoldTypeOK' /\ TasksOK' /\ SilverOK' /\ LedgerOK' /\ DoneIsRepaired'
    BY <1>1, <2>1, GoldTypeStep, TasksStep, SilverStep, LedgerStep, DoneStep DEF GoldInv
  <2>3. FailuresOK' /\ SucceedsUnlessFaulted'
    BY <2>1, FailuresStep, SucceedsStep DEF GoldInv
  <2>4. ASSUME "balance" \notin raced' PROVE BalancesAddUp' /\ BalanceReadsOK'
    BY <2>1, <2>4, RacedGrows, BalancesStep DEF GoldInv
  <2>5. ASSUME "hl" \notin raced' PROVE AnalyticsOK'
    BY <2>1, <2>5, RacedGrows, AnalyticsStep DEF GoldInv
  <2> QED
    BY <2>2, <2>3, <2>4, <2>5 DEF GoldInv
<1>2. CASE UNCHANGED goldVars
  <2> USE <1>2 DEF goldVars, goldTables, goldLocals, GoldInv
  <2>1. GoldTypeOK' /\ TasksOK'
    BY DEF GoldTypeOK, TasksOK
  <2>2. SilverOK' /\ DoneIsRepaired' /\ SucceedsUnlessFaulted'
    BY DEF SilverOK, In, DoneIsRepaired, SucceedsUnlessFaulted
  <2>3. LedgerOK'
    BY DEF LedgerOK, Repaired, LedgerBatch, In
  <2>4. BalancesAddUp' <=> BalancesAddUp
    BY DEF BalancesAddUp, BalanceBefore
  <2>5. BalanceReadsOK' <=> BalanceReadsOK
    BY DEF BalanceReadsOK, BalanceBefore, First, In
  <2>6. AnalyticsOK' <=> AnalyticsOK
    BY DEF AnalyticsOK, Settled, In
  <2>7. FailuresOK'
    BY DEF FailuresOK, In
  <2> QED
    BY <2>1, <2>2, <2>3, <2>4, <2>5, <2>6, <2>7
<1> QED
  BY <1>1, <1>2

\* The tables agree with what the tasks at work have done, at every statement.
THEOREM GoldInvariant == GoldSpec => []GoldInv
  BY GoldInvInit, GoldInvStep, PTL DEF GoldSpec

\* For any number of tasks, runs and inputs, in any order of runs, retries and
\* failures: in a history in which no task wrote balances while another stood between
\* its read and its write, each stored balance is the one before it plus its delta
\* (materialize_gold_from_silver, save_balance_snapshots_with_deltas).
THEOREM BalancesHold == GoldSpec => []BalancesAddUpUnraced
<1>1. GoldInv => BalancesAddUpUnraced
  BY DEF GoldInv, BalancesAddUpUnraced
<1> QED
  BY <1>1, GoldInvariant, PTL

\* A run reported done is repaired and in the analytics; without a failed statement
\* only malformed payloads and rows of the earlier release make a run fail.
THEOREM GoldReports == GoldSpec => []GoldConsistent
<1>1. GoldInv => GoldConsistent
  BY DEF GoldInv, GoldConsistent, AnalyticsCoverDone, AnalyticsOK, Settled, Fills
<1> QED
  BY <1>1, GoldInvariant, PTL

-----------------------------------------------------------------------------
(* Lists of rows and of records, and the tables they are written to *)

(* The ledger of a payload *)

\* A list of keyed rows: finitely many positions, and no key at two of them.
IsList(f) ==
    /\ DOMAIN f \in SUBSET Int /\ IsFiniteSet(DOMAIN f)
    /\ \A i, j \in DOMAIN f : f[i].key = f[j].key => i = j

\* A list of records of one kind.
IsEntries(f, kind) ==
    /\ IsList(f)
    /\ \A i \in DOMAIN f : f[i].key[1] = kind /\ f[i].asset \in Assets /\ f[i].amt \in Int

\* Nothing of a list is lost when it is written, in either way, ...
LEMMA LatestIsAll == ASSUME NEW f, IsList(f) PROVE Latest(f) = Range(f)
<1>1. \A i, j \in DOMAIN f : j > i => f[j].key # f[i].key
  BY DEF IsList
<1> QED
  BY <1>1 DEF Latest, Range

LEMMA InsertedIsAll == ASSUME NEW f, IsList(f) PROVE InsertNew({}, f) = Range(f)
<1>1. \A i, j \in DOMAIN f : j < i => f[j].key # f[i].key
  BY DEF IsList
<1> QED
  BY <1>1 DEF InsertNew, Range

\* ... and the second time nothing is new.
LEMMA InsertedTwice == ASSUME NEW f PROVE InsertNew(Range(f), f) = Range(f)
<1>1. \A k \in DOMAIN f : f[k] \in Range(f)
  BY DEF Range
<1> QED
  BY <1>1 DEF InsertNew

LEMMA ListCounts ==
    ASSUME NEW f, IsList(f)
    PROVE  IsFiniteSet(Range(f)) /\ Cardinality(Range(f)) = Cardinality(DOMAIN f)
<1>1. OneToOne(f, DOMAIN f) /\ IsFiniteSet(DOMAIN f)
  BY DEF OneToOne, IsList
<1>2. Range(f) = ImageOf(f, DOMAIN f)
  BY DEF Range, ImageOf
<1> QED
  BY <1>1, <1>2, CountMapped

\* The amounts of an asset, zero for the records of the others.
AmountsOf(h, f, a, D) ==
    \A i \in D : h[i] \in Int /\ h[i] = IF i \in DOMAIN f /\ f[i].asset = a THEN f[i].amt ELSE 0

LEMMA SeqNetIs ==
    ASSUME NEW f, NEW a, NEW D, IsFiniteSet(D), DOMAIN f \in SUBSET D, NEW h, AmountsOf(h, f, a, D)
    PROVE  SeqNet(f, a) = SumFunctionOnSet(h, D) /\ SeqNet(f, a) \in Int
<1> DEFINE T == {j \in DOMAIN f : f[j].asset = a}
           g == [i \in T |-> f[i].amt]
<1>1. IsCount(h, D) /\ T \in SUBSET D
  BY DEF IsCount, AmountsOf
<1>2. \A i \in D \ T : h[i] = 0
  BY DEF AmountsOf
<1>3. \A i \in T : g[i] = h[i]
  BY DEF AmountsOf
<1>4. SumFunction(g) = SumFunctionOnSet(h, T) /\ SumFunction(g) \in Int
  <2>1. DOMAIN g = T
    OBVIOUS
  <2> HIDE DEF g, T
  <2> QED
    BY <1>1, <1>3, <2>1, SumGiven
<1>5. SumFunctionOnSet(h, D) = SumFunctionOnSet(h, T)
  <2> HIDE DEF T
  <2> QED
    BY <1>1, <1>2, SumSkip
<1>6. SeqNet(f, a) = SumFunction(g)
  BY DEF SeqNet
<1> QED
  BY <1>4, <1>5, <1>6

LEMMA AmountsExist ==
    ASSUME NEW f, NEW kind, IsEntries(f, kind), NEW a
    PROVE  \E h : AmountsOf(h, f, a, DOMAIN f)
<1> DEFINE h == [i \in DOMAIN f |-> IF f[i].asset = a THEN f[i].amt ELSE 0]
<1>1. AmountsOf(h, f, a, DOMAIN f)
  BY DEF AmountsOf, IsEntries
<1> QED
  BY <1>1

LEMMA SeqNetType ==
    ASSUME NEW f, NEW kind, IsEntries(f, kind), NEW a
    PROVE  SeqNet(f, a) \in Int
<1>1. PICK h : AmountsOf(h, f, a, DOMAIN f)
  BY AmountsExist
<1>2. IsFiniteSet(DOMAIN f)
  BY DEF IsEntries, IsList
<1> QED
  BY <1>1, <1>2, SeqNetIs

\* Leaving out the zeros changes no amount.
LEMMA NonZeroEntries ==
    ASSUME NEW f, NEW kind, IsEntries(f, kind), NEW a
    PROVE  IsEntries(NonZero(f), kind) /\ SeqNet(NonZero(f), a) = SeqNet(f, a)
<1> DEFINE g == NonZero(f)
<1>1. DOMAIN g = {i \in DOMAIN f : f[i].amt # 0} /\ \A i \in DOMAIN g : g[i] = f[i]
  BY DEF NonZero, Restrict
<1>2. IsFiniteSet(DOMAIN f) /\ DOMAIN f \in SUBSET Int /\ DOMAIN g \in SUBSET DOMAIN f
  BY <1>1 DEF IsEntries, IsList
<1>3. IsFiniteSet(DOMAIN g)
  BY <1>2, FS_Subset
<1>4. IsEntries(g, kind)
  <2> HIDE DEF g
  <2> QED
    BY <1>1, <1>2, <1>3 DEF IsEntries, IsList
<1>5. PICK h : AmountsOf(h, f, a, DOMAIN f)
  BY AmountsExist
<1>6. AmountsOf(h, g, a, DOMAIN f)
  <2> HIDE DEF g
  <2> QED
    BY <1>1, <1>2, <1>5 DEF AmountsOf
<1>7. SeqNet(g, a) = SumFunctionOnSet(h, DOMAIN f)
  <2> HIDE DEF g
  <2> QED
    BY <1>2, <1>6, SeqNetIs
<1> QED
  BY <1>2, <1>4, <1>5, <1>7, SeqNetIs

\* No record of the asset, no amount.
LEMMA SeqNetNone ==
    ASSUME NEW f, IsFiniteSet(DOMAIN f), NEW a, \A i \in DOMAIN f : f[i].asset # a
    PROVE  SeqNet(f, a) = 0
<1> DEFINE h == [i \in {} |-> 0]
           T == {j \in DOMAIN f : f[j].asset = a}
<1>1. T = {}
  OBVIOUS
<1>2. SeqNet(f, a) = SumFunctionOnSet([i \in T |-> f[i].amt], {})
  BY <1>1 DEF SeqNet, SumFunction
<1> QED
  BY <1>2, SumEmpty

\* A sum over numbered summands, one more at a time.
LEMMA SumUpTo ==
    ASSUME NEW n \in Nat, NEW m, m = n + 1, NEW g, IsCount(g, 1 .. m)
    PROVE  /\ SumFunctionOnSet(g, 1 .. m) = SumFunctionOnSet(g, 1 .. n) + g[m]
           /\ SumFunctionOnSet(g, 1 .. n) \in Int
<1>1. IsFiniteSet(1 .. m)
  BY FS_Interval
<1>2. (1 .. m) \ {m} = 1 .. n /\ m \in 1 .. m
  OBVIOUS
<1>3. PICK S : S = 1 .. m
  OBVIOUS
<1>4. IsFiniteSet(S) /\ IsCount(g, S) /\ S \in SUBSET S
  BY <1>1, <1>3
<1>5. \A x \in S : /\ SumFunctionOnSet(g, S \ {x}) \in Int
                  /\ SumFunctionOnSet(g, S) = g[x] + SumFunctionOnSet(g, S \ {x})
  BY <1>4, SumWithin
<1>6. /\ SumFunctionOnSet(g, S \ {m}) \in Int
      /\ SumFunctionOnSet(g, S) = g[m] + SumFunctionOnSet(g, S \ {m})
  <2>1. m \in S
    BY <1>2, <1>3
  <2> QED
    BY <2>1, <1>5
<1>7. S \ {m} = 1 .. n
  BY <1>2, <1>3
<1>8. g[m] \in Int
  BY <1>2 DEF IsCount
<1>9. SumFunctionOnSet(g, S \ {m}) = SumFunctionOnSet(g, 1 .. n)
  BY <1>7
<1>10. SumFunctionOnSet(g, S) = SumFunctionOnSet(g, 1 .. m)
  BY <1>3
<1>11. PICK t \in Int : t = SumFunctionOnSet(g, S \ {m})
  BY <1>6
<1> QED
  BY <1>6, <1>8, <1>9, <1>10, <1>11

LEMMA SumOfThree ==
    ASSUME NEW g, IsCount(g, 1 .. 3)
    PROVE  /\ SumFunctionOnSet(g, 1 .. 1) = g[1]
           /\ SumFunctionOnSet(g, 1 .. 2) = g[1] + g[2]
           /\ SumFunctionOnSet(g, 1 .. 3) = g[1] + g[2] + g[3]
<1>1. /\ IsCount(g, 1 .. 1) /\ IsCount(g, 1 .. 2)
      /\ 1 = 0 + 1 /\ 2 = 1 + 1 /\ 3 = 2 + 1 /\ {0, 1, 2} \subseteq Nat
      /\ g[1] \in Int /\ g[2] \in Int /\ g[3] \in Int
  BY DEF IsCount
<1>2. SumFunctionOnSet(g, 1 .. 0) = 0
  <2>1. 1 .. 0 = {}
    OBVIOUS
  <2> QED
    BY <2>1, SumEmpty
<1>3. SumFunctionOnSet(g, 1 .. 1) = SumFunctionOnSet(g, 1 .. 0) + g[1]
  BY <1>1, SumUpTo
<1>4. SumFunctionOnSet(g, 1 .. 2) = SumFunctionOnSet(g, 1 .. 1) + g[2]
  BY <1>1, SumUpTo
<1>5. SumFunctionOnSet(g, 1 .. 3) = SumFunctionOnSet(g, 1 .. 2) + g[3]
  BY <1>1, SumUpTo
<1> QED
  BY <1>1, <1>2, <1>3, <1>4, <1>5

LEMMA SumOfEight ==
    ASSUME NEW g, IsCount(g, 1 .. 8)
    PROVE  SumFunctionOnSet(g, 1 .. 8) = g[1] + g[2] + g[3] + g[4] + g[5] + g[6] + g[7] + g[8]
<1>1. /\ IsCount(g, 1 .. 4) /\ IsCount(g, 1 .. 5) /\ IsCount(g, 1 .. 6) /\ IsCount(g, 1 .. 7)
      /\ 4 = 3 + 1 /\ 5 = 4 + 1 /\ 6 = 5 + 1 /\ 7 = 6 + 1 /\ 8 = 7 + 1
      /\ {3, 4, 5, 6, 7} \subseteq Nat /\ \A n \in 1 .. 8 : g[n] \in Int
  BY DEF IsCount
<1>2. SumFunctionOnSet(g, 1 .. 3) = g[1] + g[2] + g[3]
  <2>1. IsCount(g, 1 .. 3)
    BY DEF IsCount
  <2> QED
    BY <2>1, SumOfThree
<1>3. SumFunctionOnSet(g, 1 .. 4) = SumFunctionOnSet(g, 1 .. 3) + g[4]
  BY <1>1, SumUpTo
<1>4. SumFunctionOnSet(g, 1 .. 5) = SumFunctionOnSet(g, 1 .. 4) + g[5]
  BY <1>1, SumUpTo
<1>5. SumFunctionOnSet(g, 1 .. 6) = SumFunctionOnSet(g, 1 .. 5) + g[6]
  BY <1>1, SumUpTo
<1>6. SumFunctionOnSet(g, 1 .. 7) = SumFunctionOnSet(g, 1 .. 6) + g[7]
  BY <1>1, SumUpTo
<1>7. SumFunctionOnSet(g, 1 .. 8) = SumFunctionOnSet(g, 1 .. 7) + g[8]
  BY <1>1, SumUpTo
<1> QED
  BY <1>1, <1>2, <1>3, <1>4, <1>5, <1>6, <1>7

\* Lists of distinct kinds.
AreEntries(L, n, kinds) ==
    /\ DOMAIN L = 1 .. n /\ n \in Nat
    /\ \A k \in 1 .. n : IsEntries(L[k], kinds[k])
    /\ \A k, l \in 1 .. n : kinds[k] = kinds[l] => k = l

LEMMA WrittenIs ==
    ASSUME NEW L, NEW n, NEW kinds, AreEntries(L, n, kinds)
    PROVE  /\ Written(L) = UNION {Range(L[k]) : k \in 1 .. n}
           /\ IsFiniteSet(Written(L))
           /\ \A x \in Written(L) : x.asset \in Assets /\ x.amt \in Int
<1>1. \A k \in 1 .. n : /\ Latest(L[k]) = Range(L[k]) /\ IsFiniteSet(Range(L[k]))
                        /\ \A x \in Range(L[k]) : x.asset \in Assets /\ x.amt \in Int
  <2>1. TAKE k \in 1 .. n
  <2>2. IsList(L[k])
    BY DEF AreEntries, IsEntries
  <2>3. \A x \in Range(L[k]) : x.asset \in Assets /\ x.amt \in Int
    BY DEF AreEntries, IsEntries, Range
  <2> QED
    BY <2>2, <2>3, LatestIsAll, ListCounts
<1>2. Written(L) = UNION {Range(L[k]) : k \in 1 .. n}
  BY <1>1 DEF Written, AreEntries
<1>3. IsFiniteSet({Range(L[k]) : k \in 1 .. n})
  <2>1. IsFiniteSet(1 .. n)
    BY FS_Interval DEF AreEntries
  <2> DEFINE b == [k \in 1 .. n |-> Range(L[k])]
  <2>2. ImageOf(b, 1 .. n) = {Range(L[k]) : k \in 1 .. n}
    BY DEF ImageOf
  <2> HIDE DEF b
  <2> QED
    BY <2>1, <2>2, ImageFinite
<1>4. IsFiniteSet(Written(L))
  BY <1>1, <1>2, <1>3, FS_UNION
<1> QED
  BY <1>1, <1>2, <1>4

\* What is written of several lists adds up to what each of them adds up to.
LEMMA WrittenNet ==
    ASSUME NEW L, NEW n, NEW kinds, AreEntries(L, n, kinds), NEW a,
           NEW g, \A k \in 1 .. n : g[k] = SeqNet(L[k], a)
    PROVE  IsCount(g, 1 .. n) /\ NetOf(Written(L), a) = SumFunctionOnSet(g, 1 .. n)
<1> DEFINE W == Written(L)
           f == [x \in W |-> IF x.asset = a THEN x.amt ELSE 0]
           kk == [x \in W |-> CHOOSE k \in 1 .. n : kinds[k] = x.key[1]]
<1>1. /\ W = UNION {Range(L[k]) : k \in 1 .. n}
      /\ IsFiniteSet(W)
      /\ \A x \in W : x.asset \in Assets /\ x.amt \in Int
  BY WrittenIs
<1>2. IsFiniteSet(1 .. n)
  BY FS_Interval DEF AreEntries
<1>3. \A k \in 1 .. n : \A x \in Range(L[k]) : x \in W /\ kk[x] = k
  <2>1. TAKE k \in 1 .. n
  <2>2. TAKE x \in Range(L[k])
  <2>3. x \in W
    BY <1>1
  <2>4. x.key[1] = kinds[k]
    BY DEF AreEntries, IsEntries, Range
  <2>5. \A l \in 1 .. n : kinds[l] = x.key[1] => l = k
    BY <2>4 DEF AreEntries
  <2> QED
    BY <2>3, <2>4, <2>5
<1>4. Grouped(kk, W, 1 .. n)
  <2>1. \A x \in W : \E k \in 1 .. n : x \in Range(L[k])
    BY <1>1
  <2> HIDE DEF W, kk
  <2> QED
    BY <1>3, <2>1 DEF Grouped
<1>5. \A k \in 1 .. n : GroupOf(kk, W, k) = Range(L[k])
  <2>1. TAKE k \in 1 .. n
  <2>2. ASSUME NEW x \in W, kk[x] = k PROVE x \in Range(L[k])
    <3>1. PICK l \in 1 .. n : x \in Range(L[l])
      BY <1>1
    <3>2. kk[x] = l
      BY <3>1, <1>3
    <3> QED
      BY <2>2, <3>1, <3>2
  <2> HIDE DEF W, kk
  <2> QED
    BY <1>3, <2>2 DEF GroupOf
<1>6. IsCount(f, W)
  BY <1>1 DEF IsCount
<1>7. \A k \in 1 .. n : g[k] = SumFunctionOnSet(f, GroupOf(kk, W, k))
  <2>1. TAKE k \in 1 .. n
  <2> DEFINE e == L[k]
  <2>2. IsEntries(e, kinds[k])
    BY DEF AreEntries
  <2>3. PICK h : AmountsOf(h, e, a, DOMAIN e)
    BY <2>2, AmountsExist
  <2>4. IsFiniteSet(DOMAIN e) /\ OneToOne(e, DOMAIN e) /\ Range(e) = ImageOf(e, DOMAIN e)
    BY <2>2 DEF IsEntries, IsList, OneToOne, Range, ImageOf
  <2>5. IsCount(h, DOMAIN e)
    BY <2>3 DEF IsCount, AmountsOf
  <2>6. Carried(f, e, h, DOMAIN e)
    <3>1. \A i \in DOMAIN e : e[i] \in W
      <4>1. \A i \in DOMAIN e : e[i] \in Range(L[k])
        BY DEF Range
      <4> HIDE DEF kk, W, e
      <4> QED
        BY <4>1, <1>3
    <3>2. \A x \in W : f[x] = IF x.asset = a THEN x.amt ELSE 0
      OBVIOUS
    <3> HIDE DEF f, W, e
    <3>3. \A i \in DOMAIN e : h[i] = IF e[i].asset = a THEN e[i].amt ELSE 0
      BY <2>3 DEF AmountsOf
    <3>4. ASSUME NEW i \in DOMAIN e PROVE f[e[i]] = h[i]
      <4>1. PICK x \in W : x = e[i]
        BY <3>1
      <4> QED
        BY <3>2, <3>3, <4>1
    <3> QED
      BY <3>4 DEF Carried
  <2>7. SeqNet(e, a) = SumFunctionOnSet(h, DOMAIN e)
    <3> HIDE DEF e
    <3> QED
      BY <2>3, <2>4, SeqNetIs
  <2>8. SumFunctionOnSet(f, Range(e)) = SumFunctionOnSet(h, DOMAIN e)
    <3> HIDE DEF f, e
    <3> QED
      BY <2>4, <2>5, <2>6, SumReindex
  <2> QED
    BY <1>5, <2>7, <2>8
<1>8. NetOf(W, a) = SumFunctionOnSet(f, W)
  <2> DEFINE T == {y \in W : y.asset = a}
             m == [x \in T |-> x.amt]
  <2>1. T \in SUBSET W /\ DOMAIN m = T /\ \A x \in T : m[x] = f[x]
    OBVIOUS
  <2>2. \A x \in W \ T : f[x] = 0
    OBVIOUS
  <2>3. NetOf(W, a) = SumFunction(m)
    BY DEF NetOf
  <2> HIDE DEF T, m, f, W
  <2>4. SumFunction(m) = SumFunctionOnSet(f, T)
    BY <1>1, <1>6, <2>1, SumGiven
  <2> QED
    BY <1>1, <1>6, <2>1, <2>2, <2>3, <2>4, SumSkip
<1>9. IsCount(g, 1 .. n) /\ SumFunctionOnSet(g, 1 .. n) = SumFunctionOnSet(f, W)
  <2>1. SumsOf(g, f, kk, W, 1 .. n)
    BY <1>7 DEF SumsOf
  <2>2. PICK C : C = 1 .. n
    OBVIOUS
  <2> HIDE DEF f, W, kk
  <2>3. IsFiniteSet(C) /\ Grouped(kk, W, C) /\ SumsOf(g, f, kk, W, C)
    BY <1>2, <1>4, <2>1, <2>2
  <2>4. IsCount(g, C) /\ SumFunctionOnSet(g, C) = SumFunctionOnSet(f, W)
    BY <1>1, <1>6, <2>3, SumByGroup
  <2> QED
    BY <2>2, <2>4
<1> QED
  BY <1>8, <1>9

-----------------------------------------------------------------------------
(* The Silver rows of a Solana payload *)

LEMMA PayloadIs ==
    ASSUME NEW p \in Payloads
    PROVE  /\ p.chain \in {"solana", "evm", "hyperliquid"}
           /\ p.chain = "solana" => SolanaOK(p)
           /\ p.chain = "evm" => EvmOK(p)
           /\ p.chain = "hyperliquid" => HyperliquidOK(p)
  BY PayloadsAssumption

LEMMA ExtractedIs ==
    ASSUME NEW p \in Payloads
    PROVE  LET r == Extracted(p)
           IN /\ p.chain = "solana" =>
                     /\ r.transfers = SolanaTransfers(p) /\ r.deltas = SolanaDeltas(p)
                     /\ r.events = SolanaEvents(p)
              /\ p.chain = "evm" =>
                     r.transfers = EvmTransfers(p) /\ r.events = EvmEvents(p) /\ r.deltas = <<>>
              /\ p.chain # "hyperliquid" => r.fills = <<>> /\ r.funding = <<>> /\ r.positions = <<>>
              /\ p.chain = "hyperliquid" =>
                     /\ r.transfers = HlTransfers(p) /\ r.deltas = HlDeltas(p) /\ r.events = <<>>
                     /\ r.fills = HlFills(p) /\ r.funding = HlFunding(p) /\ r.positions = HlPositions(p)
  BY PayloadIs DEF Extracted, NoRows

LEMMA NoList == IsList(<<>>) /\ DOMAIN <<>> = {} /\ \A kind : IsEntries(<<>>, kind)
<1>1. DOMAIN <<>> = {}
  OBVIOUS
<1>2. IsFiniteSet({})
  BY FS_EmptySet
<1> QED
  BY <1>1, <1>2 DEF IsList, IsEntries

LEMMA OneRow == ASSUME NEW x PROVE IsList(<<x>>) /\ DOMAIN <<x>> = {1}
<1>1. DOMAIN <<x>> = {1}
  OBVIOUS
<1>2. IsFiniteSet({1})
  BY FS_Singleton
<1> QED
  BY <1>1, <1>2 DEF IsList

LEMMA DomainFinite ==
    ASSUME NEW S, NEW s \in Seq(S), NEW f, DOMAIN f \in SUBSET DOMAIN s
    PROVE  IsFiniteSet(DOMAIN f) /\ DOMAIN f \in SUBSET Int /\ IsFiniteSet(DOMAIN s)
<1>1. DOMAIN s = 1 .. Len(s) /\ Len(s) \in Nat
  OBVIOUS
<1>2. IsFiniteSet(DOMAIN s)
  BY <1>1, FS_Interval
<1> QED
  BY <1>1, <1>2, FS_Subset

LEMMA ConcatIs ==
    ASSUME NEW S, NEW s \in Seq(S), NEW t \in Seq(S), NEW n, n = Len(s)
    PROVE  /\ s \o t \in Seq(S) /\ DOMAIN (s \o t) = 1 .. n + Len(t)
           /\ n \in Nat /\ Len(t) \in Nat /\ DOMAIN s = 1 .. n /\ DOMAIN t = 1 .. Len(t)
           /\ \A i \in 1 .. n : (s \o t)[i] = s[i]
           /\ \A i \in 1 .. Len(t) : (s \o t)[n + i] = t[i]
           /\ \A i \in 1 .. n + Len(t) : i > n => i - n \in 1 .. Len(t) /\ (s \o t)[i] = t[i - n]
<1>1. /\ s \o t \in Seq(S) /\ Len(s \o t) = n + Len(t)
      /\ n \in Nat /\ Len(t) \in Nat /\ DOMAIN s = 1 .. n /\ DOMAIN t = 1 .. Len(t)
  OBVIOUS
<1>2. \A i \in 1 .. n + Len(t) : (s \o t)[i] = IF i <= n THEN s[i] ELSE t[i - n]
  OBVIOUS
<1>3. ASSUME NEW i \in 1 .. Len(t) PROVE (s \o t)[n + i] = t[i]
  <2>1. PICK k \in 1 .. n + Len(t) : k = n + i
    BY <1>1
  <2>2. ~ (k <= n) /\ k - n = i
    BY <1>1, <2>1
  <2> QED
    BY <1>2, <2>1, <2>2
<1>4. DOMAIN (s \o t) = 1 .. n + Len(t)
  BY <1>1
<1> QED
  BY <1>1, <1>2, <1>3, <1>4

-----------------------------------------------------------------------------
(* Solana *)

Balance == [acct : Nat, mint : Tokens, owner : STRING, amt : Int]

\* The balances of a side, found by account, mint and owner.
LEMMA HeldIs ==
    ASSUME NEW side \in Seq(Balance), NEW b,
           \A i, j \in DOMAIN side : side[i].acct = side[j].acct => i = j
    PROVE  /\ Held(side, b) \in Int
           /\ \A i \in DOMAIN side : TokenKey(side[i]) = TokenKey(b) => Held(side, b) = side[i].amt
           /\ (\A i \in DOMAIN side : TokenKey(side[i]) # TokenKey(b)) => Held(side, b) = 0
<1> DEFINE same == {i \in DOMAIN side : TokenKey(side[i]) = TokenKey(b)}
<1>1. same \in SUBSET Nat
  OBVIOUS
<1>2. same # {} => Min(same) \in same
  <2> HIDE DEF same
  <2> QED
    BY <1>1, MinIsLeast
<1>3. Held(side, b) = IF same = {} THEN 0 ELSE side[Min(same)].amt
  BY DEF Held
<1>4. \A i, j \in same : i = j
  <2>1. \A i, j \in same : side[i].acct = side[j].acct
    BY DEF TokenKey
  <2> QED
    BY <2>1
<1>5. \A i \in DOMAIN side : side[i].amt \in Int
  <2>1. \A i \in DOMAIN side : side[i] \in Balance
    OBVIOUS
  <2> QED
    BY <2>1 DEF Balance
<1>6. \A i \in DOMAIN side : i \in same <=> TokenKey(side[i]) = TokenKey(b)
  OBVIOUS
<1>7. same \subseteq DOMAIN side
  OBVIOUS
<1> HIDE DEF same
<1>8. \A i \in same : same # {} /\ Min(same) = i
  BY <1>2, <1>4
<1> QED
  BY <1>2, <1>3, <1>5, <1>6, <1>7, <1>8

LEMMA SolanaIs ==
    ASSUME NEW p \in Payloads, p.chain = "solana"
    PROVE  /\ p.tpost \in Seq(Balance) /\ p.tpre \in Seq(Balance)
           /\ \A i, j \in DOMAIN p.tpost : p.tpost[i].acct = p.tpost[j].acct => i = j
           /\ \A i, j \in DOMAIN p.tpre : p.tpre[i].acct = p.tpre[j].acct => i = j
           /\ p.failed \in BOOLEAN /\ p.fee \in Int /\ (p.failed => p.tpost = p.tpre)
           /\ Wallet \in STRING \ {"none", "unknown", "external"}
<1>1. SolanaOK(p)
  BY PayloadIs
<1>2. \A side \in {p.tpre, p.tpost} :
          /\ side \in Seq(Balance)
          /\ \A i, j \in DOMAIN side : side[i].acct = side[j].acct => i = j
  BY <1>1 DEF SolanaOK, Balance
<1> QED
  BY <1>1, <1>2, PayloadsAssumption DEF SolanaOK

LEMMA TokenEntriesAre ==
    ASSUME NEW p \in Payloads, p.chain = "solana"
    PROVE  LET all == TokenEntries(p)
               n == Len(p.tpost)
           IN /\ all \in Seq(Balance) /\ DOMAIN all = 1 .. n + Len(p.tpre)
              /\ n \in Nat /\ Len(p.tpre) \in Nat
              /\ DOMAIN p.tpost = 1 .. n /\ DOMAIN p.tpre = 1 .. Len(p.tpre)
              /\ \A i \in 1 .. n : all[i] = p.tpost[i]
              /\ \A i \in 1 .. Len(p.tpre) : all[n + i] = p.tpre[i]
              /\ \A i \in DOMAIN all : i > n => i - n \in 1 .. Len(p.tpre) /\ all[i] = p.tpre[i - n]
<1>1. p.tpost \in Seq(Balance) /\ p.tpre \in Seq(Balance)
  BY SolanaIs
<1>2. PICK s \in Seq(Balance) : s = p.tpost
  BY <1>1
<1>3. PICK t \in Seq(Balance) : t = p.tpre
  BY <1>1
<1>4. PICK n : n = Len(s)
  OBVIOUS
<1>5. /\ s \o t \in Seq(Balance) /\ DOMAIN (s \o t) = 1 .. n + Len(t)
      /\ n \in Nat /\ Len(t) \in Nat /\ DOMAIN s = 1 .. n /\ DOMAIN t = 1 .. Len(t)
      /\ \A i \in 1 .. n : (s \o t)[i] = s[i]
      /\ \A i \in 1 .. Len(t) : (s \o t)[n + i] = t[i]
      /\ \A i \in 1 .. n + Len(t) : i > n => i - n \in 1 .. Len(t) /\ (s \o t)[i] = t[i - n]
  BY <1>4, ConcatIs
<1>6. PICK all : all = s \o t
  OBVIOUS
<1>7. TokenEntries(p) = all
  BY <1>2, <1>3, <1>6 DEF TokenEntries
<1>8. /\ all \in Seq(Balance) /\ DOMAIN all = 1 .. n + Len(t)
      /\ \A i \in 1 .. n : all[i] = s[i]
      /\ \A i \in 1 .. Len(t) : all[n + i] = t[i]
      /\ \A i \in DOMAIN all : i > n => i - n \in 1 .. Len(t) /\ all[i] = t[i - n]
  BY <1>5, <1>6
<1> QED
  BY <1>2, <1>3, <1>4, <1>5, <1>7, <1>8

LEMMA ChangeType ==
    ASSUME NEW p \in Payloads, p.chain = "solana", NEW b
    PROVE  Change(p, b) \in Int /\ Held(p.tpost, b) \in Int /\ Held(p.tpre, b) \in Int
  BY SolanaIs, HeldIs DEF Change

\* The transfer of a position: who it is to or from, and how much.
LEMMA TransferIs ==
    ASSUME NEW p \in Payloads, p.chain = "solana", NEW i \in DOMAIN SolanaTransfers(p)
    PROVE  LET t == SolanaTransfers(p)[i]
               b == TokenEntries(p)[i]
           IN /\ i \in DOMAIN TokenEntries(p) /\ i \in Moved(p) /\ ~p.failed
              /\ Change(p, b) \in Int
              /\ \/ Change(p, b) > 0 /\ t.from = "unknown" /\ t.to = b.owner /\ t.amt = Change(p, b)
                 \/ Change(p, b) < 0 /\ t.from = b.owner /\ t.to = "unknown" /\ t.amt = -Change(p, b)
              /\ t.token = b.mint /\ t.symbol = Symbol[b.mint] /\ t.known = TRUE
              /\ t.index = GroupIndex(p, i)
              /\ Parties(p, b) = <<t.from, t.to>>
              /\ t.key = <<t.from, t.to, t.token, t.index>>
              /\ t.amt \in Int
<1> DEFINE b == TokenEntries(p)[i]
           c == Change(p, b)
           P == Parties(p, b)
<1>1. i \in Moved(p) /\ ~p.failed
  BY DEF SolanaTransfers
<1>2. i \in DOMAIN TokenEntries(p) /\ c # 0
  BY <1>1 DEF Moved
<1>3. c \in Int
  BY ChangeType
<1>4. SolanaTransfers(p)[i] =
          Transfer(P[1], P[2], b.mint, Symbol[b.mint], IF c > 0 THEN c ELSE -c, TRUE, GroupIndex(p, i))
  BY <1>1 DEF SolanaTransfers
<1>5. IF c > 0 THEN P = <<"unknown", b.owner>> ELSE P = <<b.owner, "unknown">>
  BY DEF Parties
<1>6. P = <<P[1], P[2]>>
  BY <1>5
<1> HIDE DEF b, c, P
<1>8. LET t == SolanaTransfers(p)[i]
      IN t.key = <<P[1], P[2], b.mint, GroupIndex(p, i)>> /\ t.from = P[1] /\ t.to = P[2] /\ t.token = b.mint
         /\ t.symbol = Symbol[b.mint] /\ t.amt = (IF c > 0 THEN c ELSE -c) /\ t.known = TRUE /\ t.index = GroupIndex(p, i)
  <2>1. PICK t : t = SolanaTransfers(p)[i]
    OBVIOUS
  <2>2. PICK a : a = IF c > 0 THEN c ELSE -c
    OBVIOUS
  <2>3. t = Transfer(P[1], P[2], b.mint, Symbol[b.mint], a, TRUE, GroupIndex(p, i))
    BY <1>4, <2>1, <2>2
  <2>4. /\ t.key = <<P[1], P[2], b.mint, GroupIndex(p, i)>> /\ t.from = P[1] /\ t.to = P[2]
        /\ t.token = b.mint /\ t.symbol = Symbol[b.mint] /\ t.amt = a /\ t.known = TRUE /\ t.index = GroupIndex(p, i)
    BY <2>3 DEF Transfer
  <2> QED
    BY <2>1, <2>2, <2>4
<1>9. IF c > 0 THEN P[1] = "unknown" /\ P[2] = b.owner ELSE P[1] = b.owner /\ P[2] = "unknown"
  BY <1>5
<1>10. /\ \/ c > 0 /\ P[1] = "unknown" /\ P[2] = b.owner
          \/ c < 0 /\ P[1] = b.owner /\ P[2] = "unknown"
       /\ c > 0 => (IF c > 0 THEN c ELSE -c) = c
       /\ c < 0 => (IF c > 0 THEN c ELSE -c) = -c
       /\ (IF c > 0 THEN c ELSE -c) \in Int
  BY <1>2, <1>3, <1>9
<1> QED
  BY <1>1, <1>2, <1>3, <1>6, <1>8, <1>10 DEF b, c, P

\* Two of one group, from the same party to the same and of the same mint, have
\* different numbers.
LEMMA GroupIndexUnique ==
    ASSUME NEW p \in Payloads, p.chain = "solana",
           NEW i \in Moved(p), NEW j \in Moved(p),
           TokenEntries(p)[i].mint = TokenEntries(p)[j].mint,
           Parties(p, TokenEntries(p)[i]) = Parties(p, TokenEntries(p)[j]),
           GroupIndex(p, i) = GroupIndex(p, j)
    PROVE  i = j
<1> DEFINE all == TokenEntries(p)
           R == {k \in Moved(p) : all[k].mint = all[i].mint /\ Parties(p, all[k]) = Parties(p, all[i])}
           L == {x \in R \X R : x[1] < x[2]}
<1>1. R \in SUBSET Int /\ IsFiniteSet(R) /\ i \in R /\ j \in R
  <2>1. all \in Seq(Balance)
    BY TokenEntriesAre
  <2>2. IsFiniteSet(DOMAIN all) /\ DOMAIN all \in SUBSET Int
    BY <2>1, DomainFinite
  <2>3. R \subseteq DOMAIN all
    BY DEF Moved
  <2> QED
    BY <2>2, <2>3, FS_Subset
<1>2. IsOrder(R, L)
  <2> HIDE DEF R
  <2> QED
    BY <1>1 DEF IsOrder
<1>3. ASSUME NEW k \in R PROVE GroupIndex(p, k) = RankIn(R, L, k)
  <2>1. {m \in Moved(p) : m < k /\ all[m].mint = all[k].mint /\ Parties(p, all[m]) = Parties(p, all[k])}
        = {s \in R : <<s, k>> \in L}
    OBVIOUS
  <2> QED
    BY <2>1 DEF GroupIndex, RankIn
<1>4. RankIn(R, L, i) = RankIn(R, L, j)
  BY <1>1, <1>3
<1> HIDE DEF R, L
<1> QED
  BY <1>1, <1>2, <1>4, RankInUnique

LEMMA SolanaTransfersList ==
    ASSUME NEW p \in Payloads, p.chain = "solana"
    PROVE  IsList(SolanaTransfers(p)) /\ DOMAIN SolanaTransfers(p) \in SUBSET DOMAIN TokenEntries(p)
<1> DEFINE f == SolanaTransfers(p)
<1>1. DOMAIN f \in SUBSET DOMAIN TokenEntries(p)
  BY TransferIs
<1>2. IsFiniteSet(DOMAIN f) /\ DOMAIN f \in SUBSET Int
  <2> HIDE DEF f
  <2> QED
    BY <1>1, TokenEntriesAre, DomainFinite
<1>3. ASSUME NEW i \in DOMAIN f, NEW j \in DOMAIN f, f[i].key = f[j].key PROVE i = j
  <2>1. /\ i \in Moved(p) /\ j \in Moved(p)
        /\ f[i].key = <<f[i].from, f[i].to, f[i].token, f[i].index>>
        /\ f[j].key = <<f[j].from, f[j].to, f[j].token, f[j].index>>
        /\ f[i].token = TokenEntries(p)[i].mint /\ f[j].token = TokenEntries(p)[j].mint
        /\ f[i].index = GroupIndex(p, i) /\ f[j].index = GroupIndex(p, j)
        /\ Parties(p, TokenEntries(p)[i]) = <<f[i].from, f[i].to>>
        /\ Parties(p, TokenEntries(p)[j]) = <<f[j].from, f[j].to>>
    BY TransferIs
  <2> HIDE DEF f
  <2>2. f[i].from = f[j].from /\ f[i].to = f[j].to /\ f[i].token = f[j].token /\ f[i].index = f[j].index
    BY <2>1, <1>3
  <2> QED
    BY <2>1, <2>2, GroupIndexUnique
<1> QED
  BY <1>1, <1>2, <1>3 DEF IsList

LEMMA SolanaDeltasList ==
    ASSUME NEW p \in Payloads, p.chain = "solana"
    PROVE  /\ IsList(SolanaDeltas(p))
           /\ \A i \in DOMAIN AccountKeys(p) : LamportChange(p, i) \in Int
           /\ IsFiniteSet(DOMAIN AccountKeys(p)) /\ DOMAIN AccountKeys(p) \in SUBSET Int
           /\ \A i, j \in DOMAIN AccountKeys(p) : AccountKeys(p)[i] = AccountKeys(p)[j] => i = j
           /\ \A i : i \in DOMAIN SolanaDeltas(p) <=> i \in DOMAIN AccountKeys(p) /\ LamportChange(p, i) # 0
           /\ \A i \in DOMAIN SolanaDeltas(p) :
                  LET d == SolanaDeltas(p)[i]
                  IN /\ d.account = AccountKeys(p)[i] /\ d.token = "SOL" /\ d.amt = LamportChange(p, i)
                     /\ d.payer \in BOOLEAN /\ d.key = <<d.account, d.token>>
<1> DEFINE keys == AccountKeys(p)
           f == SolanaDeltas(p)
<1>1. SolanaOK(p)
  BY PayloadIs
<1>2. keys \in Seq(STRING) /\ \A i, j \in DOMAIN keys : keys[i] = keys[j] => i = j
  <2>1. p.keys \in Seq(STRING) /\ p.loaded \in Seq(STRING)
    BY <1>1 DEF SolanaOK
  <2>2. p.keys \o p.loaded \in Seq(STRING)
    BY <2>1
  <2>3. \A i, j \in DOMAIN keys : keys[i] = keys[j] => i = j
    BY <1>1 DEF SolanaOK
  <2> QED
    BY <2>1, <2>2, <2>3 DEF AccountKeys
<1>3. DOMAIN f = {k \in DOMAIN keys : LamportChange(p, k) # 0}
  BY DEF SolanaDeltas
<1>4. IsFiniteSet(DOMAIN f) /\ DOMAIN f \in SUBSET Int /\ IsFiniteSet(DOMAIN keys)
  <2>1. DOMAIN f \in SUBSET DOMAIN keys
    BY <1>3
  <2> HIDE DEF f, keys
  <2> QED
    BY <1>2, <2>1, DomainFinite
<1>5. \A i \in DOMAIN keys : LamportChange(p, i) \in Int
  <2>1. p.pre \in Seq(Int) /\ p.post \in Seq(Int)
    BY <1>1 DEF SolanaOK
  <2>2. (\A i \in DOMAIN p.pre : p.pre[i] \in Int) /\ \A i \in DOMAIN p.post : p.post[i] \in Int
    BY <2>1
  <2> QED
    BY <2>2 DEF LamportChange
<1>6. \A i \in DOMAIN f : f[i] = Delta(keys[i], "SOL", LamportChange(p, i), i = 1)
  BY DEF SolanaDeltas
<1>7. \A k, t, a, y : LET d == Delta(k, t, a, y)
                      IN d.key = <<k, t>> /\ d.account = k /\ d.token = t /\ d.amt = a /\ d.payer = y
  BY DEF Delta
<1>8. \A i \in DOMAIN f :
          LET d == f[i] IN /\ d.account = keys[i] /\ d.token = "SOL" /\ d.amt = LamportChange(p, i)
                           /\ d.payer = (i = 1) /\ d.key = <<d.account, d.token>>
  <2> HIDE DEF f, keys
  <2> QED
    BY <1>6, <1>7
<1>9. DOMAIN keys \in SUBSET Int
  BY <1>2
<1>10. \A i, j \in DOMAIN f : f[i].key = f[j].key => i = j
  <2>1. \A i, j \in DOMAIN f : f[i].key = f[j].key => keys[i] = keys[j]
    <3> HIDE DEF f, keys
    <3> QED
      BY <1>8
  <2> HIDE DEF f, keys
  <2> QED
    BY <1>2, <1>3, <2>1
<1> HIDE DEF keys, f
<1>11. IsList(f)
  BY <1>4, <1>10 DEF IsList
<1>12. \A i \in DOMAIN f : (i = 1) \in BOOLEAN
  OBVIOUS
<1> QED
  BY <1>2, <1>3, <1>4, <1>5, <1>8, <1>9, <1>11, <1>12 DEF keys, f

LEMMA SolanaEventsList ==
    ASSUME NEW p \in Payloads, p.chain = "solana"
    PROVE  IsList(SolanaEvents(p))
<1> DEFINE all == (IF p.parsed THEN p.instrs ELSE <<>>) \o p.inner
           f == SolanaEvents(p)
<1>1. SolanaOK(p)
  BY PayloadIs
<1>2. all \in Seq(STRING)
  <2>1. p.instrs \in Seq(STRING) /\ p.inner \in Seq(STRING)
    BY <1>1 DEF SolanaOK
  <2>2. PICK s \in Seq(STRING) : s = IF p.parsed THEN p.instrs ELSE <<>>
    <3>1. <<>> \in Seq(STRING)
      OBVIOUS
    <3> QED
      BY <2>1, <3>1
  <2>3. s \o p.inner \in Seq(STRING)
    BY <2>1
  <2> QED
    BY <2>2, <2>3
<1>3. DOMAIN f \in SUBSET DOMAIN all /\ \A i \in DOMAIN f : f[i].key = i - 1
  <2>1. Len(all) \in Nat /\ DOMAIN all = 1 .. Len(all)
    <3> HIDE DEF all
    <3> QED
      BY <1>2
  <2>2. f = IF p.failed THEN <<>> ELSE [i \in 1 .. Len(all) |-> Event(all[i], i - 1)]
    BY DEF SolanaEvents
  <2>3. \A c, i : Event(c, i).key = i
    BY DEF Event
  <2> HIDE DEF f, all
  <2> QED
    BY <2>1, <2>2, <2>3
<1>4. IsFiniteSet(DOMAIN f) /\ DOMAIN f \in SUBSET Int
  <2> HIDE DEF f, all
  <2> QED
    BY <1>2, <1>3, DomainFinite
<1> HIDE DEF f
<1>5. IsList(f)
  BY <1>3, <1>4 DEF IsList
<1> QED
  BY <1>5 DEF f

-----------------------------------------------------------------------------
(* The Silver rows of an EVM and of a Hyperliquid payload *)

(* EVM *)

LEMMA EvmIs ==
    ASSUME NEW p \in Payloads, p.chain = "evm"
    PROVE  /\ p.value \in Fields /\ p.gas \in Fields /\ p.failed \in BOOLEAN /\ p.single \in BOOLEAN
           /\ p.value.n \in Int /\ p.gas.n \in Int
           /\ DOMAIN p.logs \in SUBSET Int /\ IsFiniteSet(DOMAIN p.logs)
           /\ \A i \in DOMAIN p.logs : LET log == p.logs[i]
                                       IN /\ log.token \in Tokens /\ log.data.n \in Int
                                          /\ log.from \in STRING /\ log.to \in STRING
           /\ \A i, j \in DOMAIN p.logs : LogIndex(p.logs[i], i - 1) = LogIndex(p.logs[j], j - 1) => i = j
           /\ p.single => DOMAIN p.logs = {1}
           /\ (p.from = "none" => p.to = "none")
<1>1. EvmOK(p)
  BY PayloadIs
<1> DEFINE Log == [token : Tokens, sig : STRING, topics : Nat, from : STRING, to : STRING,
                   data : Fields, index : Fields]
<1>2. p.logs \in Seq(Log)
  BY <1>1 DEF EvmOK
<1>3. \A f \in Fields : f.n \in Int
  BY DEF Fields
<1>4. \A i \in DOMAIN p.logs : p.logs[i] \in Log
  <2> HIDE DEF Log
  <2> QED
    BY <1>2
<1>5. \A log \in Log : log.token \in Tokens /\ log.data.n \in Int /\ log.from \in STRING /\ log.to \in STRING
  BY <1>3
<1>6. DOMAIN p.logs \in SUBSET Int /\ IsFiniteSet(DOMAIN p.logs)
  <2> HIDE DEF Log
  <2> QED
    BY <1>2, DomainFinite
<1>7. Len(p.logs) = 1 => DOMAIN p.logs = {1}
  <2> HIDE DEF Log
  <2>1. DOMAIN p.logs = 1 .. Len(p.logs)
    BY <1>2
  <2> QED
    BY <2>1
<1> HIDE DEF Log
<1>8. \A i \in DOMAIN p.logs : LET log == p.logs[i]
                               IN /\ log.token \in Tokens /\ log.data.n \in Int
                                  /\ log.from \in STRING /\ log.to \in STRING
  BY <1>4, <1>5
<1>9. /\ p.value \in Fields /\ p.gas \in Fields /\ p.failed \in BOOLEAN /\ p.single \in BOOLEAN
      /\ \A i, j \in DOMAIN p.logs : LogIndex(p.logs[i], i - 1) = LogIndex(p.logs[j], j - 1) => i = j
      /\ p.single => Len(p.logs) = 1
      /\ (p.from = "none" => p.to = "none")
  BY <1>1 DEF EvmOK
<1> QED
  BY <1>3, <1>6, <1>7, <1>8, <1>9

\* The decimals that Silver reads for a token, or 0 for an amount left raw.
LEMMA LogDecimals ==
    ASSUME NEW p \in Payloads, p.chain = "evm", NEW token \in Tokens
    PROVE  (IF HasDecimals(p, token) THEN DecimalsOf(p, token) ELSE 0) \in Decimals
<1>1. Hinted(p, token) => p.decimals[token].n \in Decimals
  <2>1. EvmOK(p)
    BY PayloadIs
  <2> QED
    BY <2>1 DEF EvmOK, Hinted
<1>2. 0 \in Decimals /\ TableDecimals[token] \in Decimals
  BY PayloadsAssumption
<1> QED
  BY <1>1, <1>2 DEF DecimalsOf

\* The amounts of a log, normalized either way, and the symbol of its token.
LEMMA LogAmountIs ==
    ASSUME NEW p \in Payloads, p.chain = "evm", NEW i \in DOMAIN p.logs
    PROVE  LET log == p.logs[i]
           IN /\ log.token \in Tokens /\ Symbol[log.token] \in Assets
              /\ LogAmount(p, log) \in Int /\ Normalized(log.data.n, TableDecimals[log.token]) \in Int
<1>1. PICK log : log = p.logs[i]
  OBVIOUS
<1>2. log.token \in Tokens /\ log.data.n \in Int
  BY <1>1, EvmIs
<1>3. Symbol[log.token] \in Assets /\ TableDecimals[log.token] \in Decimals
  BY <1>2, PayloadsAssumption
<1>4. \A d \in Decimals : Normalized(log.data.n, d) \in Int
  <2>1. TAKE d \in Decimals
  <2>2. PICK q \in Int : q = Quanta[d]
    BY PayloadsAssumption
  <2>3. PICK n \in Int : n = log.data.n
    BY <1>2
  <2>4. n * q \in Int
    OBVIOUS
  <2> QED
    BY <2>2, <2>3, <2>4 DEF Normalized
<1>5. (IF HasDecimals(p, log.token) THEN DecimalsOf(p, log.token) ELSE 0) \in Decimals
  BY <1>2, LogDecimals
<1>6. LogAmount(p, log) \in Int
  <2>1. PICK d \in Decimals : d = IF HasDecimals(p, log.token) THEN DecimalsOf(p, log.token) ELSE 0
    BY <1>5
  <2> QED
    BY <1>4, <2>1 DEF LogAmount
<1> QED
  BY <1>1, <1>2, <1>3, <1>4, <1>6

LEMMA EvmTransfersList ==
    ASSUME NEW p \in Payloads, p.chain = "evm"
    PROVE  /\ IsList(EvmTransfers(p))
           /\ DOMAIN EvmTransfers(p) = {k \in DOMAIN p.logs : ~p.failed /\ IsTransfer(p.logs[k])}
           /\ \A i \in DOMAIN EvmTransfers(p) :
                 LET t == EvmTransfers(p)[i]
                     log == p.logs[i]
                 IN /\ t.from = log.from /\ t.to = log.to /\ t.token = log.token
                    /\ t.symbol = Symbol[log.token] /\ t.amt = LogAmount(p, log)
                    /\ t.known = HasDecimals(p, log.token)
                    /\ t.key = <<t.from, t.to, t.token, t.index>>
           /\ \A i, j \in DOMAIN EvmTransfers(p) :
                 EvmTransfers(p)[i].index = EvmTransfers(p)[j].index => i = j
<1> DEFINE f == EvmTransfers(p)
           D == {k \in DOMAIN p.logs : ~p.failed /\ IsTransfer(p.logs[k])}
           x(i) == IF p.single THEN 0 ELSE LogIndex(p.logs[i], i - 1)
<1>1. DOMAIN f = D
  BY DEF EvmTransfers
<1>2. \A i \in D : f[i] = Transfer(p.logs[i].from, p.logs[i].to, p.logs[i].token, Symbol[p.logs[i].token],
                                   LogAmount(p, p.logs[i]), HasDecimals(p, p.logs[i].token), x(i))
  BY DEF EvmTransfers
<1>3. \A i \in D : LET t == f[i]
                       log == p.logs[i]
                   IN /\ t.from = log.from /\ t.to = log.to /\ t.token = log.token
                      /\ t.symbol = Symbol[log.token] /\ t.amt = LogAmount(p, log)
                      /\ t.known = HasDecimals(p, log.token)
                      /\ t.key = <<t.from, t.to, t.token, t.index>> /\ t.index = x(i)
  <2>1. TAKE i \in D
  <2>2. PICK log : log = p.logs[i]
    OBVIOUS
  <2>3. PICK y, n : y = HasDecimals(p, log.token) /\ n = LogAmount(p, log)
    OBVIOUS
  <2>4. f[i] = Transfer(log.from, log.to, log.token, Symbol[log.token], n, y, x(i))
    BY <1>2, <2>2, <2>3
  <2> HIDE DEF f, D, x
  <2>5. LET t == f[i]
        IN /\ t.from = log.from /\ t.to = log.to /\ t.token = log.token
           /\ t.symbol = Symbol[log.token] /\ t.amt = n /\ t.known = y /\ t.key = <<t.from, t.to, t.token, t.index>> /\ t.index = x(i)
    BY <2>4 DEF Transfer
  <2> QED
    BY <2>2, <2>3, <2>5
<1>4. \A i, j \in D : f[i].index = f[j].index => i = j
  <2>1. \A i, j \in D : f[i].index = f[j].index => x(i) = x(j)
    <3> HIDE DEF f, D, x
    <3> QED
      BY <1>3
  <2>2. \A i, j \in D : x(i) = x(j) => i = j
    <3>1. D \subseteq DOMAIN p.logs
      OBVIOUS
    <3>2. CASE p.single
      <4>1. \A i \in D : i = 1
        BY <3>1, <3>2, EvmIs
      <4> QED
        BY <4>1
    <3>3. CASE ~p.single
      <4>1. \A i \in D : x(i) = LogIndex(p.logs[i], i - 1)
        BY <3>3
      <4> HIDE DEF D, x
      <4> QED
        BY <3>1, <4>1, EvmIs
    <3> QED
      BY <3>2, <3>3
  <2> HIDE DEF f, D, x
  <2> QED
    BY <2>1, <2>2
<1>5. IsFiniteSet(D) /\ D \in SUBSET Int
  <2>1. D \in SUBSET DOMAIN p.logs
    OBVIOUS
  <2> HIDE DEF D
  <2> QED
    BY <2>1, EvmIs, FS_Subset
<1> HIDE DEF f, x
<1>6. \A i, j \in D : f[i].key = f[j].key => i = j
  <2>1. ASSUME NEW i \in D, NEW j \in D, f[i].key = f[j].key PROVE f[i].index = f[j].index
    <3>1. \A k \in D : f[k].key = <<f[k].from, f[k].to, f[k].token, f[k].index>>
      BY <1>3
    <3>2. <<f[i].from, f[i].to, f[i].token, f[i].index>> = <<f[j].from, f[j].to, f[j].token, f[j].index>>
      <4> HIDE DEF D
      <4> QED
        BY <2>1, <3>1
    <3> QED
      BY <3>2
  <2> HIDE DEF D
  <2> QED
    BY <1>4, <2>1
<1>7. IsList(f)
  <2> HIDE DEF D
  <2> QED
    BY <1>1, <1>5, <1>6 DEF IsList
<1> QED
  BY <1>1, <1>3, <1>4, <1>7 DEF f

LEMMA EvmEventsList ==
    ASSUME NEW p \in Payloads, p.chain = "evm"
    PROVE  IsList(EvmEvents(p))
<1> DEFINE f == EvmEvents(p)
<1>1. DOMAIN f = DOMAIN p.logs /\ \A i \in DOMAIN f : f[i].key = LogIndex(p.logs[i], i - 1)
  <2>1. EvmOK(p)
    BY PayloadIs
  <2>2. DOMAIN p.logs = 1 .. Len(p.logs)
    BY <2>1 DEF EvmOK
  <2>3. \A c, i : Event(c, i).key = i
    BY DEF Event
  <2>4. f = [i \in 1 .. Len(p.logs) |-> Event(p.logs[i].token, LogIndex(p.logs[i], i - 1))]
    BY DEF EvmEvents
  <2> HIDE DEF f
  <2> QED
    BY <2>2, <2>3, <2>4
<1> HIDE DEF f
<1>2. IsList(f)
  BY <1>1, EvmIs DEF IsList
<1> QED
  BY <1>2 DEF f

-----------------------------------------------------------------------------
(* Hyperliquid *)

LEMMA HyperliquidIs ==
    ASSUME NEW p \in Payloads, p.chain = "hyperliquid"
    PROVE  /\ HyperliquidOK(p)
           /\ p.type \in {"fill", "funding", "deposit", "withdraw", "liquidation", "funding_rate"}
           /\ p.coin \in Assets /\ p.side \in {"A", "B"} /\ p.feeToken \in Assets \cup {"none"}
           /\ {p.sz, p.px, p.pnl, p.fee, p.usdc} \subseteq Fields
           /\ p.sz.n \in Int /\ p.pnl.n \in Int /\ p.fee.n \in Int /\ p.usdc.n \in Int
           /\ FeeAsset(p) \in Assets /\ "USDC" \in Assets
<1>1. HyperliquidOK(p)
  BY PayloadIs
<1>2. \A f \in Fields : f.n \in Int
  BY DEF Fields
<1>3. {"SOL", "ETH", "USDC"} \subseteq Assets
  BY PayloadsAssumption
<1> QED
  BY <1>1, <1>2, <1>3 DEF HyperliquidOK, FeeAsset

LEMMA AtMostOneRow ==
    ASSUME NEW f, DOMAIN f \in SUBSET {1}
    PROVE  IsList(f)
<1>1. IsFiniteSet({1}) /\ {1} \in SUBSET Int
  BY FS_Singleton
<1>2. IsFiniteSet(DOMAIN f)
  BY <1>1, FS_Subset
<1> QED
  BY <1>1, <1>2 DEF IsList

LEMMA HyperliquidLists ==
    ASSUME NEW p \in Payloads, p.chain = "hyperliquid"
    PROVE  /\ DOMAIN HlTransfers(p) \in SUBSET {1} /\ DOMAIN HlDeltas(p) \in SUBSET {1}
           /\ DOMAIN HlFills(p) \in SUBSET {1} /\ DOMAIN HlFunding(p) \in SUBSET {1}
           /\ DOMAIN HlPositions(p) \in SUBSET {1}
<1>1. DOMAIN <<>> = {} /\ \A x : DOMAIN <<x>> = {1}
  OBVIOUS
<1>2. HlTransfers(p) = <<>> \/ \E x : HlTransfers(p) = <<x>>
  BY DEF HlTransfers
<1>3. HlDeltas(p) = <<>> \/ \E x : HlDeltas(p) = <<x>>
  BY DEF HlDeltas
<1>4. HlFills(p) = <<>> \/ \E x : HlFills(p) = <<x>>
  BY DEF HlFills
<1>5. HlFunding(p) = <<>> \/ \E x : HlFunding(p) = <<x>>
  BY DEF HlFunding
<1>6. HlPositions(p) = <<>> \/ \E x : HlPositions(p) = <<x>>
  BY DEF HlPositions
<1> QED
  BY <1>1, <1>2, <1>3, <1>4, <1>5, <1>6

\* No row that a payload yields has the key of another.
LEMMA RowsAreLists ==
    ASSUME NEW p \in Payloads, NEW t \in Tables
    PROVE  IsList(Extracted(p)[t])
<1> DEFINE r == Extracted(p)
<1>1. /\ IsList(r.transfers) /\ IsList(r.deltas) /\ IsList(r.events)
      /\ IsList(r.fills) /\ IsList(r.funding) /\ IsList(r.positions)
  <2>1. CASE p.chain = "solana"
    BY <2>1, ExtractedIs, NoList, SolanaTransfersList, SolanaDeltasList, SolanaEventsList
  <2>2. CASE p.chain = "evm"
    BY <2>2, ExtractedIs, NoList, EvmTransfersList, EvmEventsList
  <2>3. CASE p.chain = "hyperliquid"
    BY <2>3, ExtractedIs, NoList, HyperliquidLists, AtMostOneRow
  <2> QED
    BY <2>1, <2>2, <2>3, PayloadIs
<1> HIDE DEF r
<1>2. IsList(r[t])
  BY <1>1 DEF Tables
<1> QED
  BY <1>2 DEF r

-----------------------------------------------------------------------------
(* The records of transfers *)

(* The records of each kind *)

LEMMA EntryIs ==
    ASSUME NEW e, NEW kind, NEW id, NEW a, NEW n, e = Entry(kind, id, a, n)
    PROVE  e.key = <<kind, id>> /\ e.key[1] = kind /\ e.key[2] = id /\ e.asset = a /\ e.amt = n
  BY DEF Entry

LEMMA HlTransferIs ==
    ASSUME NEW p \in Payloads, p.chain = "hyperliquid", NEW i \in DOMAIN HlTransfers(p)
    PROVE  LET t == HlTransfers(p)[i]
           IN /\ i = 1 /\ Parses(p.usdc) /\ p.usdc.n # 0 /\ t.token = "USDC" /\ t.symbol = "USDC" /\ t.known = TRUE
              /\ t.index = 0
              /\ t.key = <<t.from, t.to, t.token, t.index>>
              /\ \/ p.type = "deposit" /\ t.from = "external" /\ t.to = Wallet /\ t.amt = p.usdc.n
                 \/ /\ p.type = "withdraw" /\ t.from = Wallet /\ t.to = "external"
                    /\ t.amt = IF p.usdc.n > 0 THEN p.usdc.n ELSE -p.usdc.n
<1> DEFINE some == p.type \in {"deposit", "withdraw"} /\ Parses(p.usdc) /\ p.usdc.n # 0
           amt == IF p.usdc.n > 0 THEN p.usdc.n ELSE -p.usdc.n
<1>1. i = 1 /\ HlTransfers(p) # <<>>
  BY HyperliquidLists
<1>2. some
  BY <1>1 DEF HlTransfers
<1>3. CASE p.type = "deposit"
  <2>1. HlTransfers(p) = <<Transfer("external", Wallet, "USDC", "USDC", p.usdc.n, TRUE, 0)>>
    BY <1>2, <1>3 DEF HlTransfers
  <2>2. HlTransfers(p)[i] = Transfer("external", Wallet, "USDC", "USDC", p.usdc.n, TRUE, 0)
    BY <1>1, <2>1
  <2> QED
    BY <1>1, <1>2, <1>3, <2>2 DEF Transfer
<1>4. CASE p.type = "withdraw"
  <2>1. HlTransfers(p) = <<Transfer(Wallet, "external", "USDC", "USDC", amt, TRUE, 0)>>
    BY <1>2, <1>4 DEF HlTransfers
  <2>2. HlTransfers(p)[i] = Transfer(Wallet, "external", "USDC", "USDC", amt, TRUE, 0)
    BY <1>1, <2>1
  <2> HIDE DEF amt
  <2>3. LET t == HlTransfers(p)[i]
        IN t.token = "USDC" /\ t.symbol = "USDC" /\ t.known = TRUE /\ t.index = 0 /\ t.from = Wallet /\ t.to = "external" /\ t.amt = amt
           /\ t.key = <<t.from, t.to, t.token, t.index>>
    BY <2>2 DEF Transfer
  <2> QED
    BY <1>1, <1>2, <1>4, <2>3 DEF amt
<1> QED
  BY <1>2, <1>3, <1>4

\* A transfer to or from the wallet is told from the others by its mint, its
\* number and its direction: the other party of two such transfers is the same.
LEMMA TransfersAre ==
    ASSUME NEW p \in Payloads
    PROVE  LET ts == Extracted(p).transfers
           IN /\ IsList(ts)
              /\ \A i \in DOMAIN ts : LET t == ts[i]
                                      IN /\ t.symbol \in Assets /\ t.amt \in Int
                                         /\ t.key = <<t.from, t.to, t.token, t.index>>
              /\ \A i, j \in DOMAIN ts :
                    (/\ Sides(ts[i]) /\ Sides(ts[j]) /\ ts[i].token = ts[j].token
                     /\ ts[i].index = ts[j].index /\ (ts[i].to = Wallet <=> ts[j].to = Wallet)) => i = j
<1> DEFINE ts == Extracted(p).transfers
<1>1. IsList(ts)
  <2>1. "transfers" \in Tables
    BY DEF Tables
  <2> QED
    BY <2>1, RowsAreLists
<1>2. CASE p.chain = "solana"
  <2>1. ts = SolanaTransfers(p)
    BY <1>2, ExtractedIs
  <2> HIDE DEF ts
  <2>2. ASSUME NEW i \in DOMAIN ts
        PROVE  LET t == ts[i]
               IN /\ t.symbol \in Assets /\ t.amt \in Int
                  /\ t.key = <<t.from, t.to, t.token, t.index>>
                  /\ t.from = "unknown" \/ t.to = "unknown"
    <3>1. TokenEntries(p)[i] \in Balance
      <4>1. TokenEntries(p) \in Seq(Balance) /\ i \in DOMAIN TokenEntries(p)
        BY <1>2, <2>1, TokenEntriesAre, TransferIs
      <4> QED
        BY <4>1
    <3>2. Symbol[TokenEntries(p)[i].mint] \in Assets
      BY <3>1, PayloadsAssumption DEF Balance
    <3> QED
      BY <1>2, <2>1, <3>2, TransferIs
  <2>3. ASSUME NEW i \in DOMAIN ts, NEW j \in DOMAIN ts,
               Sides(ts[i]), Sides(ts[j]), ts[i].token = ts[j].token,
               ts[i].index = ts[j].index, ts[i].to = Wallet <=> ts[j].to = Wallet
        PROVE  i = j
    <3>1. Wallet # "unknown"
      BY PayloadsAssumption
    <3>2. \A k \in {i, j} : /\ ts[k].from = "unknown" \/ ts[k].to = "unknown"
                            /\ (ts[k].from = Wallet) # (ts[k].to = Wallet)
      BY <2>2, <2>3 DEF Sides
    <3>3. ts[i].from = ts[j].from /\ ts[i].to = ts[j].to
      BY <2>3, <3>1, <3>2
    <3>4. ts[i].key = ts[j].key
      BY <2>2, <2>3, <3>3
    <3> QED
      BY <1>1, <3>4 DEF IsList
  <2> QED
    BY <1>1, <2>2, <2>3 DEF ts
<1>3. CASE p.chain = "evm"
  <2>1. ts = EvmTransfers(p)
    BY <1>3, ExtractedIs
  <2> HIDE DEF ts
  <2>2. \A i \in DOMAIN ts : i \in DOMAIN p.logs
    BY <1>3, <2>1, EvmTransfersList
  <2>3. \A i \in DOMAIN ts : LET t == ts[i]
                             IN /\ t.symbol \in Assets /\ t.amt \in Int
                                /\ t.key = <<t.from, t.to, t.token, t.index>>
    <3>1. TAKE i \in DOMAIN ts
    <3>2. LET t == ts[i]
              log == p.logs[i]
          IN /\ t.symbol = Symbol[log.token] /\ t.amt = LogAmount(p, log)
             /\ t.key = <<t.from, t.to, t.token, t.index>>
      BY <1>3, <2>1, EvmTransfersList
    <3>3. Symbol[p.logs[i].token] \in Assets /\ LogAmount(p, p.logs[i]) \in Int
      BY <1>3, <2>2, LogAmountIs
    <3> QED
      BY <3>2, <3>3
  <2>4. \A i, j \in DOMAIN ts : ts[i].index = ts[j].index => i = j
    BY <1>3, <2>1, EvmTransfersList
  <2> QED
    BY <1>1, <2>3, <2>4 DEF ts
<1>4. CASE p.chain = "hyperliquid"
  <2>1. ts = HlTransfers(p)
    BY <1>4, ExtractedIs
  <2> HIDE DEF ts
  <2>2. ASSUME NEW i \in DOMAIN ts
        PROVE  LET t == ts[i]
               IN /\ t.symbol \in Assets /\ t.amt \in Int /\ i = 1
                  /\ t.key = <<t.from, t.to, t.token, t.index>>
    <3>1. p.usdc.n \in Int /\ "USDC" \in Assets
      BY <1>4, HyperliquidIs
    <3>2. LET t == ts[i]
          IN /\ t.symbol = "USDC" /\ i = 1 /\ t.key = <<t.from, t.to, t.token, t.index>>
             /\ t.amt = p.usdc.n \/ t.amt = IF p.usdc.n > 0 THEN p.usdc.n ELSE -p.usdc.n
      BY <1>4, <2>1, HlTransferIs
    <3>3. (IF p.usdc.n > 0 THEN p.usdc.n ELSE -p.usdc.n) \in Int
      BY <3>1
    <3> QED
      BY <3>1, <3>2, <3>3
  <2>3. \A i, j \in DOMAIN ts : i = j
    BY <2>2
  <2> QED
    BY <1>1, <2>2, <2>3 DEF ts
<1> QED
  BY <1>2, <1>3, <1>4, PayloadIs

LEMMA TransferEntriesAre ==
    ASSUME NEW p \in Payloads
    PROVE  LET ts == Extracted(p).transfers
               f == TransferEntries(Extracted(p))
           IN /\ IsEntries(f, "transfer")
              /\ DOMAIN f = {k \in DOMAIN ts : Sides(ts[k])}
              /\ \A i \in DOMAIN f : f[i].asset = ts[i].symbol /\ f[i].amt = Mul(ts[i].to = Wallet, ts[i].amt)
<1> DEFINE ts == Extracted(p).transfers
           f == TransferEntries(Extracted(p))
           T == {k \in DOMAIN ts : Sides(ts[k])}
<1>1. DOMAIN f = T
  BY DEF TransferEntries
<1>2. ASSUME NEW i \in T
      PROVE  /\ f[i].key[2] = <<ts[i].token, ts[i].index, ts[i].to = Wallet>>
             /\ f[i].key[1] = "transfer"
             /\ f[i].asset = ts[i].symbol /\ f[i].amt = Mul(ts[i].to = Wallet, ts[i].amt)
  <2>1. f[i] = Entry("transfer", <<ts[i].token, ts[i].index, ts[i].to = Wallet>>, ts[i].symbol,
                     Mul(ts[i].to = Wallet, ts[i].amt))
    BY <1>2 DEF TransferEntries
  <2>2. PICK id, n : id = <<ts[i].token, ts[i].index, ts[i].to = Wallet>> /\ n = Mul(ts[i].to = Wallet, ts[i].amt)
    OBVIOUS
  <2>3. f[i] = Entry("transfer", id, ts[i].symbol, n)
    BY <2>1, <2>2
  <2> HIDE DEF f, ts, T
  <2>4. f[i].key[2] = id /\ f[i].key[1] = "transfer" /\ f[i].asset = ts[i].symbol /\ f[i].amt = n
    BY <2>3, EntryIs
  <2> QED
    BY <2>2, <2>4
<1>3. IsFiniteSet(T) /\ T \in SUBSET Int
  <2>1. IsFiniteSet(DOMAIN ts) /\ DOMAIN ts \in SUBSET Int
    BY TransfersAre DEF IsList
  <2>2. T \in SUBSET DOMAIN ts
    OBVIOUS
  <2> HIDE DEF T, ts
  <2> QED
    BY <2>1, <2>2, FS_Subset
<1>4. ASSUME NEW i \in T, NEW j \in T, f[i].key = f[j].key PROVE i = j
  <2>1. <<ts[i].token, ts[i].index, ts[i].to = Wallet>> = <<ts[j].token, ts[j].index, ts[j].to = Wallet>>
    <3> HIDE DEF f, ts, T
    <3> QED
      BY <1>2, <1>4
  <2>2. ts[i].token = ts[j].token /\ ts[i].index = ts[j].index /\ (ts[i].to = Wallet <=> ts[j].to = Wallet)
    <3> HIDE DEF ts, T
    <3> QED
      BY <2>1
  <2>3. i \in DOMAIN ts /\ j \in DOMAIN ts /\ Sides(ts[i]) /\ Sides(ts[j])
    OBVIOUS
  <2> QED
    BY <2>2, <2>3, TransfersAre
<1>5. ASSUME NEW i \in T PROVE ts[i].symbol \in Assets /\ Mul(ts[i].to = Wallet, ts[i].amt) \in Int
  <2>1. ts[i].symbol \in Assets /\ ts[i].amt \in Int
    BY TransfersAre
  <2> QED
    BY <2>1 DEF Mul
<1> HIDE DEF f, T
<1>6. IsEntries(f, "transfer")
  BY <1>1, <1>2, <1>3, <1>4, <1>5 DEF IsEntries, IsList
<1> QED
  BY <1>1, <1>2, <1>6 DEF f, T

-----------------------------------------------------------------------------
(* The other records of the ledger *)

\* A list with one record at most.
LEMMA OneEntry ==
    ASSUME NEW f, NEW kind, DOMAIN f \in SUBSET {1},
           \A i \in DOMAIN f : f[i].key[1] = kind /\ f[i].asset \in Assets /\ f[i].amt \in Int
    PROVE  IsEntries(f, kind)
  BY AtMostOneRow DEF IsEntries

\* The wallet's own balance change is one row, on Solana.
LEMMA OwnDeltasAre ==
    ASSUME NEW p \in Payloads, p.chain = "solana"
    PROVE  LET own == OwnDeltas(p, Extracted(p))
           IN /\ own = {i \in DOMAIN AccountKeys(p) : LamportChange(p, i) # 0 /\ AccountKeys(p)[i] = Wallet}
              /\ \A i, j \in own : i = j
              /\ \A i \in own : LET d == Extracted(p).deltas[i]
                                IN /\ d.account = Wallet /\ d.token = "SOL" /\ d.amt = LamportChange(p, i)
                                   /\ d.amt \in Int /\ PayerFee(p, d) \in Int
<1> DEFINE ds == Extracted(p).deltas
           own == OwnDeltas(p, Extracted(p))
<1>1. ds = SolanaDeltas(p)
  BY ExtractedIs
<1>2. own = {i \in DOMAIN ds : ds[i].account = Wallet}
  BY DEF OwnDeltas
<1> HIDE DEF ds, own
<1>3. \A i \in DOMAIN ds : /\ i \in DOMAIN AccountKeys(p) /\ LamportChange(p, i) # 0 /\ LamportChange(p, i) \in Int
                           /\ ds[i].account = AccountKeys(p)[i] /\ ds[i].token = "SOL" /\ ds[i].amt = LamportChange(p, i)
  BY <1>1, SolanaDeltasList
<1>4. \A i \in DOMAIN AccountKeys(p) : LamportChange(p, i) # 0 => i \in DOMAIN ds
  BY <1>1, SolanaDeltasList
<1>5. own = {i \in DOMAIN AccountKeys(p) : LamportChange(p, i) # 0 /\ AccountKeys(p)[i] = Wallet}
  BY <1>2, <1>3, <1>4
<1>6. \A i, j \in own : i = j
  BY <1>5, SolanaDeltasList
<1>7. \A i \in own : PayerFee(p, ds[i]) \in Int
  BY SolanaIs DEF PayerFee
<1> QED
  BY <1>2, <1>3, <1>5, <1>6, <1>7 DEF ds, own

LEMMA NativeEntriesAre ==
    ASSUME NEW p \in Payloads
    PROVE  LET r == Extracted(p)
           IN /\ DOMAIN NativeMoves(p, r) = OwnDeltas(p, r) /\ DOMAIN NativeFees(p, r) = OwnDeltas(p, r)
              /\ IsEntries(NativeMoves(p, r), "native") /\ IsEntries(NativeFees(p, r), "native_fee")
              /\ p.chain # "solana" => OwnDeltas(p, r) = {}
              /\ \A i \in OwnDeltas(p, r) :
                     /\ NativeMoves(p, r)[i].asset = "SOL" /\ NativeFees(p, r)[i].asset = "SOL"
                     /\ NativeMoves(p, r)[i].amt = r.deltas[i].amt + PayerFee(p, r.deltas[i])
                     /\ NativeFees(p, r)[i].amt = -PayerFee(p, r.deltas[i])
<1> DEFINE r == Extracted(p)
           own == OwnDeltas(p, r)
           f == NativeMoves(p, r)
           g == NativeFees(p, r)
<1>1. DOMAIN f = own /\ DOMAIN g = own
  BY DEF NativeMoves, NativeFees
<1>2. p.chain # "solana" => own = {}
  BY DEF OwnDeltas
<1>3. own \in SUBSET DOMAIN r.deltas
  BY DEF OwnDeltas
<1>4. IsFiniteSet(own) /\ own \in SUBSET Int
  <2>1. "deltas" \in Tables
    BY DEF Tables
  <2>2. IsList(r.deltas)
    BY <2>1, RowsAreLists
  <2> HIDE DEF r, own
  <2> QED
    BY <1>3, <2>2, FS_Subset DEF IsList
<1>5. ASSUME NEW i \in own
      PROVE  /\ p.chain = "solana" /\ r.deltas[i].token = "SOL"
             /\ r.deltas[i].amt + PayerFee(p, r.deltas[i]) \in Int /\ -PayerFee(p, r.deltas[i]) \in Int
  <2>1. p.chain = "solana"
    BY <1>2
  <2>2. r.deltas[i].token = "SOL" /\ r.deltas[i].amt \in Int /\ PayerFee(p, r.deltas[i]) \in Int
    BY <2>1, OwnDeltasAre
  <2> HIDE DEF r, own
  <2> QED
    BY <2>1, <2>2
<1>6. ASSUME NEW i \in own
      PROVE  /\ f[i].key[1] = "native" /\ g[i].key[1] = "native_fee"
             /\ f[i].asset = "SOL" /\ g[i].asset = "SOL"
             /\ f[i].amt = r.deltas[i].amt + PayerFee(p, r.deltas[i])
             /\ g[i].amt = -PayerFee(p, r.deltas[i])
  <2>1. /\ f[i] = Entry("native", r.deltas[i].account, r.deltas[i].token, r.deltas[i].amt + PayerFee(p, r.deltas[i]))
        /\ g[i] = Entry("native_fee", r.deltas[i].account, r.deltas[i].token, -PayerFee(p, r.deltas[i]))
    BY DEF NativeMoves, NativeFees
  <2>2. PICK m, n : m = r.deltas[i].amt + PayerFee(p, r.deltas[i]) /\ n = -PayerFee(p, r.deltas[i])
    OBVIOUS
  <2>3. r.deltas[i].token = "SOL"
    BY <1>5
  <2> HIDE DEF r, own, f, g
  <2>4. /\ f[i] = Entry("native", r.deltas[i].account, "SOL", m)
        /\ g[i] = Entry("native_fee", r.deltas[i].account, "SOL", n)
    BY <2>1, <2>2, <2>3
  <2>5. /\ f[i].key[1] = "native" /\ f[i].asset = "SOL" /\ f[i].amt = m
        /\ g[i].key[1] = "native_fee" /\ g[i].asset = "SOL" /\ g[i].amt = n
    BY <2>4 DEF Entry
  <2> QED
    BY <2>2, <2>5
<1>7. \A i, j \in own : i = j
  <2>1. p.chain = "solana" => \A i, j \in own : i = j
    BY OwnDeltasAre
  <2> HIDE DEF own
  <2> QED
    BY <1>5, <2>1
<1>8. "SOL" \in Assets
  BY PayloadsAssumption
<1> HIDE DEF f, g, own
<1>9. IsEntries(f, "native") /\ IsEntries(g, "native_fee")
  <2>1. \A i \in own : /\ f[i].key[1] = "native" /\ f[i].asset \in Assets /\ f[i].amt \in Int
                       /\ g[i].key[1] = "native_fee" /\ g[i].asset \in Assets /\ g[i].amt \in Int
    <3>1. TAKE i \in own
    <3> HIDE DEF r
    <3>2. /\ r.deltas[i].amt + PayerFee(p, r.deltas[i]) \in Int /\ -PayerFee(p, r.deltas[i]) \in Int
      BY <1>5
    <3> QED
      BY <3>2, <1>6, <1>8
  <2> QED
    BY <1>1, <1>4, <1>7, <2>1 DEF IsEntries, IsList
<1> QED
  BY <1>1, <1>2, <1>6, <1>9 DEF f, g, own

\* What a fill, a funding payment and a payment to or from the exchange book.
LEMMA HlFillIs ==
    ASSUME NEW p \in Payloads, p.chain = "hyperliquid", NEW i \in DOMAIN HlFills(p)
    PROVE  LET f == HlFills(p)[i]
           IN /\ i = 1 /\ p.type = "fill" /\ Parses(p.px) /\ Parses(p.sz)
              /\ f.coin = p.coin /\ f.side = p.side /\ f.size = p.sz.n /\ f.feeToken = p.feeToken
              /\ f.pnl = Optional(p.pnl) /\ f.fee = Optional(p.fee)
              /\ f.pnl.n \in Int /\ f.fee.n \in Int /\ FeeAsset(f) = FeeAsset(p)
<1>1. i = 1 /\ HlFills(p) # <<>>
  BY HyperliquidLists
<1>2. p.type = "fill" /\ Parses(p.px) /\ Parses(p.sz)
  BY <1>1 DEF HlFills
<1>3. HlFills(p)[i] = [key |-> <<p.coin, p.side>>, coin |-> p.coin, side |-> p.side, size |-> p.sz.n,
                       pnl |-> Optional(p.pnl), fee |-> Optional(p.fee), feeToken |-> p.feeToken]
  BY <1>1, <1>2 DEF HlFills
<1>4. Optional(p.pnl).n \in Int /\ Optional(p.fee).n \in Int
  BY HyperliquidIs DEF Optional, Absent
<1> QED
  BY <1>1, <1>2, <1>3, <1>4 DEF FeeAsset

LEMMA HlFundingIs ==
    ASSUME NEW p \in Payloads, p.chain = "hyperliquid", NEW i \in DOMAIN HlFunding(p)
    PROVE  /\ i = 1 /\ p.type = "funding" /\ Parses(p.usdc)
           /\ HlFunding(p)[i].coin = p.coin /\ HlFunding(p)[i].amt = p.usdc.n
<1>1. i = 1 /\ HlFunding(p) # <<>>
  BY HyperliquidLists
<1>2. p.type = "funding" /\ Parses(p.usdc)
  BY <1>1 DEF HlFunding
<1>3. HlFunding(p)[i] = [key |-> p.coin, coin |-> p.coin, amt |-> p.usdc.n]
  BY <1>1, <1>2 DEF HlFunding
<1> QED
  BY <1>1, <1>2, <1>3

LEMMA FillEntriesAre ==
    ASSUME NEW p \in Payloads
    PROVE  LET r == Extracted(p)
           IN /\ DOMAIN FillTrades(r) = DOMAIN r.fills /\ DOMAIN FillFees(r) = DOMAIN r.fills
              /\ DOMAIN FillIncome(r) = DOMAIN r.fills
              /\ IsEntries(FillTrades(r), "fill") /\ IsEntries(FillFees(r), "fill_fee")
              /\ IsEntries(FillIncome(r), "fill_income")
              /\ DOMAIN r.fills \in SUBSET {1} /\ (p.chain # "hyperliquid" => DOMAIN r.fills = {})
              /\ \A i \in DOMAIN r.fills :
                    /\ p.type = "fill"
                    /\ FillTrades(r)[i].asset = p.coin /\ FillTrades(r)[i].amt = Mul(p.side = "B", p.sz.n)
                    /\ FillFees(r)[i].asset = FeeAsset(p) /\ FillFees(r)[i].amt = -Optional(p.fee).n
                    /\ FillIncome(r)[i].asset = "USDC" /\ FillIncome(r)[i].amt = Optional(p.pnl).n
<1> DEFINE r == Extracted(p)
           D == DOMAIN r.fills
           f == FillTrades(r)
           g == FillFees(r)
           h == FillIncome(r)
<1>1. DOMAIN f = D /\ DOMAIN g = D /\ DOMAIN h = D
  BY DEF FillTrades, FillFees, FillIncome
<1>2. p.chain # "hyperliquid" => D = {}
  BY ExtractedIs, NoList
<1>3. p.chain = "hyperliquid" => r.fills = HlFills(p)
  BY ExtractedIs
<1>4. D \in SUBSET {1}
  BY <1>2, <1>3, HyperliquidLists
<1> HIDE DEF r
<1>5. ASSUME NEW i \in D
      PROVE  /\ p.type = "fill"
             /\ f[i].key[1] = "fill" /\ g[i].key[1] = "fill_fee" /\ h[i].key[1] = "fill_income"
             /\ f[i].asset = p.coin /\ f[i].amt = Mul(p.side = "B", p.sz.n)
             /\ g[i].asset = FeeAsset(p) /\ g[i].amt = -Optional(p.fee).n
             /\ h[i].asset = "USDC" /\ h[i].amt = Optional(p.pnl).n
             /\ f[i].asset \in Assets /\ f[i].amt \in Int /\ g[i].asset \in Assets /\ g[i].amt \in Int
             /\ h[i].asset \in Assets /\ h[i].amt \in Int
  <2>1. p.chain = "hyperliquid" /\ i \in DOMAIN HlFills(p)
    BY <1>2, <1>3
  <2> DEFINE x == r.fills[i]
  <2>2. /\ f[i] = Entry("fill", x.coin, x.coin, Mul(x.side = "B", x.size))
        /\ g[i] = Entry("fill_fee", x.coin, FeeAsset(x), -x.fee.n)
        /\ h[i] = Entry("fill_income", x.coin, "USDC", x.pnl.n)
    BY DEF FillTrades, FillFees, FillIncome
  <2>3. /\ p.type = "fill" /\ x.coin = p.coin /\ x.side = p.side /\ x.size = p.sz.n
        /\ x.pnl = Optional(p.pnl) /\ x.fee = Optional(p.fee)
        /\ x.pnl.n \in Int /\ x.fee.n \in Int /\ FeeAsset(x) = FeeAsset(p)
    BY <1>3, <2>1, HlFillIs
  <2>4. p.coin \in Assets /\ FeeAsset(p) \in Assets /\ "USDC" \in Assets /\ p.sz.n \in Int
    BY <2>1, HyperliquidIs
  <2>5. Mul(p.side = "B", p.sz.n) \in Int /\ -x.fee.n \in Int
    BY <2>3, <2>4 DEF Mul
  <2> HIDE DEF x, f, g, h, D
  <2>6. /\ f[i].key[1] = "fill" /\ g[i].key[1] = "fill_fee" /\ h[i].key[1] = "fill_income"
        /\ f[i].asset = x.coin /\ f[i].amt = Mul(x.side = "B", x.size)
        /\ g[i].asset = FeeAsset(x) /\ g[i].amt = -x.fee.n /\ h[i].asset = "USDC" /\ h[i].amt = x.pnl.n
    <3>1. PICK m, n, a : m = Mul(x.side = "B", x.size) /\ n = -x.fee.n /\ a = FeeAsset(x)
      OBVIOUS
    <3>2. /\ f[i] = Entry("fill", x.coin, x.coin, m)
          /\ g[i] = Entry("fill_fee", x.coin, a, n)
          /\ h[i] = Entry("fill_income", x.coin, "USDC", x.pnl.n)
      BY <2>2, <3>1
    <3>3. /\ f[i].key[1] = "fill" /\ g[i].key[1] = "fill_fee" /\ h[i].key[1] = "fill_income"
          /\ f[i].asset = x.coin /\ f[i].amt = m
          /\ g[i].asset = a /\ g[i].amt = n /\ h[i].asset = "USDC" /\ h[i].amt = x.pnl.n
      BY <3>2 DEF Entry
    <3> QED
      BY <3>1, <3>3
  <2>7. /\ f[i].asset = p.coin /\ f[i].amt = Mul(p.side = "B", p.sz.n)
        /\ g[i].asset = FeeAsset(p) /\ g[i].amt = -Optional(p.fee).n
        /\ h[i].asset = "USDC" /\ h[i].amt = Optional(p.pnl).n
    BY <2>3, <2>6
  <2>8. Mul(p.side = "B", p.sz.n) \in Int /\ -Optional(p.fee).n \in Int /\ Optional(p.pnl).n \in Int
    BY <2>3, <2>5
  <2> QED
    BY <2>3, <2>4, <2>6, <2>7, <2>8
<1> HIDE DEF f, g, h, D
<1>6. IsEntries(f, "fill") /\ IsEntries(g, "fill_fee") /\ IsEntries(h, "fill_income")
  <2>1. \A i \in D : /\ f[i].key[1] = "fill" /\ f[i].asset \in Assets /\ f[i].amt \in Int
                     /\ g[i].key[1] = "fill_fee" /\ g[i].asset \in Assets /\ g[i].amt \in Int
                     /\ h[i].key[1] = "fill_income" /\ h[i].asset \in Assets /\ h[i].amt \in Int
    BY <1>5
  <2> QED
    BY <1>1, <1>4, <2>1, AtMostOneRow DEF IsEntries
<1> QED
  BY <1>1, <1>2, <1>4, <1>5, <1>6 DEF f, g, h, D, r

LEMMA FundingEntriesAre ==
    ASSUME NEW p \in Payloads
    PROVE  LET r == Extracted(p)
               f == FundingEntries(r)
           IN /\ DOMAIN f = DOMAIN r.funding /\ IsEntries(f, "funding")
              /\ DOMAIN r.funding \in SUBSET {1} /\ (p.chain # "hyperliquid" => DOMAIN r.funding = {})
              /\ \A i \in DOMAIN r.funding : p.type = "funding" /\ f[i].asset = "USDC" /\ f[i].amt = p.usdc.n
<1> DEFINE r == Extracted(p)
           D == DOMAIN r.funding
           f == FundingEntries(r)
<1>1. DOMAIN f = D
  BY DEF FundingEntries
<1>2. p.chain # "hyperliquid" => D = {}
  BY ExtractedIs, NoList
<1>3. p.chain = "hyperliquid" => r.funding = HlFunding(p)
  BY ExtractedIs
<1>4. D \in SUBSET {1}
  BY <1>2, <1>3, HyperliquidLists
<1> HIDE DEF r
<1>5. ASSUME NEW i \in D
      PROVE  /\ p.type = "funding" /\ f[i].key[1] = "funding" /\ f[i].asset = "USDC" /\ f[i].amt = p.usdc.n
             /\ f[i].asset \in Assets /\ f[i].amt \in Int
  <2>1. p.chain = "hyperliquid" /\ i \in DOMAIN HlFunding(p)
    BY <1>2, <1>3
  <2>2. f[i] = Entry("funding", r.funding[i].coin, "USDC", r.funding[i].amt)
    BY DEF FundingEntries
  <2>3. p.type = "funding" /\ r.funding[i].amt = p.usdc.n
    BY <1>3, <2>1, HlFundingIs
  <2>4. p.usdc.n \in Int /\ "USDC" \in Assets
    BY <2>1, HyperliquidIs
  <2> HIDE DEF f, D
  <2>5. f[i].key[1] = "funding" /\ f[i].asset = "USDC" /\ f[i].amt = r.funding[i].amt
    BY <2>2, EntryIs
  <2> QED
    BY <2>3, <2>4, <2>5
<1> HIDE DEF f, D
<1>6. IsEntries(f, "funding")
  BY <1>1, <1>4, <1>5, OneEntry
<1> QED
  BY <1>1, <1>2, <1>4, <1>5, <1>6 DEF f, D, r

LEMMA FlowsAre ==
    ASSUME NEW p \in Payloads, HasFlows(p)
    PROVE  p.chain = "evm" /\ ValueFlow(p) \in Int /\ GasFlow(p) \in Int
<1>1. p.chain = "evm"
  BY DEF HasFlows
<1>2. p.value.n \in Int /\ p.gas.n \in Int
  BY <1>1, EvmIs
<1> QED
  BY <1>1, <1>2 DEF ValueFlow, GasFlow, Mul

LEMMA FlowEntriesAre ==
    ASSUME NEW p \in Payloads
    PROVE  LET f == FlowEntries(p)
           IN /\ IsEntries(f, "evm") /\ DOMAIN f = (IF HasFlows(p) THEN {1, 2} ELSE {})
              /\ HasFlows(p) => /\ f[1].asset = "ETH" /\ f[1].amt = ValueFlow(p)
                                /\ f[2].asset = "ETH" /\ f[2].amt = GasFlow(p)
<1> DEFINE f == FlowEntries(p)
<1>1. CASE ~HasFlows(p)
  BY <1>1, NoList DEF FlowEntries
<1>2. CASE HasFlows(p)
  <2>1. PICK x, y : x = Entry("evm", "transfer", "ETH", ValueFlow(p)) /\ y = Entry("evm", "fee", "ETH", GasFlow(p))
    OBVIOUS
  <2>2. f = <<x, y>>
    BY <1>2, <2>1 DEF FlowEntries
  <2>3. DOMAIN f = {1, 2} /\ f[1] = x /\ f[2] = y
    <3> HIDE DEF f
    <3>1. DOMAIN f = 1 .. 2
      BY <2>2
    <3> QED
      BY <2>2, <3>1
  <2>4. /\ x.key[1] = "evm" /\ x.key[2] = "transfer" /\ x.asset = "ETH" /\ x.amt = ValueFlow(p)
        /\ y.key[1] = "evm" /\ y.key[2] = "fee" /\ y.asset = "ETH" /\ y.amt = GasFlow(p)
    BY <2>1, EntryIs
  <2>5. ValueFlow(p) \in Int /\ GasFlow(p) \in Int /\ "ETH" \in Assets
    BY <1>2, FlowsAre, PayloadsAssumption
  <2>6. IsFiniteSet({1, 2}) /\ {1, 2} \in SUBSET Int
    <3>1. {1, 2} = 1 .. 2 /\ 1 \in Int /\ 2 \in Int
      OBVIOUS
    <3>2. IsFiniteSet(1 .. 2)
      BY <3>1, FS_Interval
    <3> QED
      BY <3>1, <3>2
  <2> HIDE DEF f
  <2>7. IsEntries(f, "evm")
    BY <2>3, <2>4, <2>5, <2>6 DEF IsEntries, IsList
  <2> QED
    BY <1>2, <2>3, <2>4, <2>7 DEF f
<1> QED
  BY <1>1, <1>2

-----------------------------------------------------------------------------
(* The records of the balance history, and what they add up to *)

(* The balance events of each kind *)

LEMMA HlDeltaIs ==
    ASSUME NEW p \in Payloads, p.chain = "hyperliquid"
    PROVE  LET ok == \/ p.type = "fill" /\ Parses(p.pnl) /\ Parses(p.fee)
                     \/ p.type = "funding" /\ Parses(p.usdc)
           IN /\ Settlement(p) \in Int
              /\ DOMAIN HlDeltas(p) = IF ok /\ Settlement(p) # 0 THEN {1} ELSE {}
              /\ \A i \in DOMAIN HlDeltas(p) :
                    LET d == HlDeltas(p)[i]
                    IN /\ i = 1 /\ d.account = Wallet /\ d.token = "USDC" /\ d.amt = Settlement(p)
                       /\ d.key = <<d.account, d.token>>
<1> DEFINE ok == \/ p.type = "fill" /\ Parses(p.pnl) /\ Parses(p.fee)
                 \/ p.type = "funding" /\ Parses(p.usdc)
<1>1. Settlement(p) \in Int
  BY HyperliquidIs DEF Settlement
<1>2. PICK d : d = Delta(Wallet, "USDC", Settlement(p), p.type = "fill")
  OBVIOUS
<1>3. HlDeltas(p) = IF ok /\ Settlement(p) # 0 THEN <<d>> ELSE <<>>
  BY <1>2 DEF HlDeltas
<1>4. PICK y : y = (p.type = "fill")
  OBVIOUS
<1>5. d.account = Wallet /\ d.token = "USDC" /\ d.amt = Settlement(p) /\ d.key = <<d.account, d.token>>
  <2>1. d = Delta(Wallet, "USDC", Settlement(p), y)
    BY <1>2, <1>4
  <2> QED
    BY <2>1 DEF Delta
<1>6. DOMAIN <<>> = {} /\ DOMAIN <<d>> = {1} /\ <<d>>[1] = d
  OBVIOUS
<1> HIDE DEF ok
<1>7. /\ DOMAIN HlDeltas(p) = IF ok /\ Settlement(p) # 0 THEN {1} ELSE {}
      /\ \A i \in DOMAIN HlDeltas(p) : i = 1 /\ HlDeltas(p)[i] = d
  BY <1>3, <1>6
<1> QED
  BY <1>1, <1>5, <1>7 DEF ok

\* A balance change is one of its account and token.
LEMMA DeltasAre ==
    ASSUME NEW p \in Payloads
    PROVE  LET ds == Extracted(p).deltas
           IN /\ IsList(ds)
              /\ \A i \in DOMAIN ds : LET d == ds[i]
                                      IN d.token \in Assets /\ d.amt \in Int /\ d.key = <<d.account, d.token>>
<1> DEFINE ds == Extracted(p).deltas
<1>1. IsList(ds)
  <2>1. "deltas" \in Tables
    BY DEF Tables
  <2> QED
    BY <2>1, RowsAreLists
<1>2. {"SOL", "USDC"} \subseteq Assets
  BY PayloadsAssumption
<1>3. CASE p.chain = "solana"
  <2>1. ds = SolanaDeltas(p)
    BY <1>3, ExtractedIs
  <2> HIDE DEF ds
  <2>2. \A i \in DOMAIN ds : LET d == ds[i]
                             IN d.token = "SOL" /\ d.amt \in Int /\ d.key = <<d.account, d.token>>
    BY <1>3, <2>1, SolanaDeltasList
  <2> QED
    BY <1>1, <1>2, <2>2 DEF ds
<1>4. CASE p.chain = "evm"
  <2>1. DOMAIN ds = {}
    BY <1>4, ExtractedIs, NoList
  <2> QED
    BY <1>1, <2>1
<1>5. CASE p.chain = "hyperliquid"
  <2>1. ds = HlDeltas(p)
    BY <1>5, ExtractedIs
  <2> HIDE DEF ds
  <2>2. \A i \in DOMAIN ds : LET d == ds[i]
                             IN d.token = "USDC" /\ d.amt \in Int /\ d.key = <<d.account, d.token>>
    BY <1>5, <2>1, HlDeltaIs
  <2> QED
    BY <1>1, <1>2, <2>2 DEF ds
<1> QED
  BY <1>3, <1>4, <1>5, PayloadIs

LEMMA TransferBalancesAre ==
    ASSUME NEW p \in Payloads
    PROVE  LET ts == Extracted(p).transfers
               f == TransferBalances(Extracted(p))
           IN /\ IsEntries(f, "transfer")
              /\ DOMAIN f = {k \in DOMAIN ts : ts[k].known /\ Wallet \in {ts[k].from, ts[k].to}}
              /\ \A i \in DOMAIN f : /\ f[i].asset = ts[i].symbol
                                     /\ f[i].amt = IF ts[i].from = ts[i].to THEN 0
                                                   ELSE Mul(ts[i].to = Wallet, ts[i].amt)
<1> DEFINE ts == Extracted(p).transfers
           f == TransferBalances(Extracted(p))
           T == {k \in DOMAIN ts : ts[k].known /\ Wallet \in {ts[k].from, ts[k].to}}
           amt(i) == IF ts[i].from = ts[i].to THEN 0 ELSE Mul(ts[i].to = Wallet, ts[i].amt)
<1>1. DOMAIN f = T
  BY DEF TransferBalances
<1>2. ASSUME NEW i \in T
      PROVE  /\ f[i].key[2] = <<ts[i].token, ts[i].from, ts[i].to, ts[i].index>>
             /\ f[i].key[1] = "transfer" /\ f[i].asset = ts[i].symbol /\ f[i].amt = amt(i)
  <2>1. f[i] = Entry("transfer", <<ts[i].token, ts[i].from, ts[i].to, ts[i].index>>, ts[i].symbol, amt(i))
    BY <1>2 DEF TransferBalances
  <2>2. PICK id, n : id = <<ts[i].token, ts[i].from, ts[i].to, ts[i].index>> /\ n = amt(i)
    OBVIOUS
  <2>3. f[i] = Entry("transfer", id, ts[i].symbol, n)
    BY <2>1, <2>2
  <2> HIDE DEF f, ts, T, amt
  <2>4. f[i].key[2] = id /\ f[i].key[1] = "transfer" /\ f[i].asset = ts[i].symbol /\ f[i].amt = n
    BY <2>3, EntryIs
  <2> QED
    BY <2>2, <2>4
<1>3. IsFiniteSet(T) /\ T \in SUBSET Int /\ \A i \in T : i \in DOMAIN ts
  <2>1. IsFiniteSet(DOMAIN ts) /\ DOMAIN ts \in SUBSET Int
    BY TransfersAre DEF IsList
  <2>2. T \in SUBSET DOMAIN ts
    OBVIOUS
  <2> HIDE DEF T, ts
  <2> QED
    BY <2>1, <2>2, FS_Subset
<1>4. ASSUME NEW i \in T, NEW j \in T, f[i].key = f[j].key PROVE i = j
  <2>1. \A k \in DOMAIN ts : ts[k].key = <<ts[k].from, ts[k].to, ts[k].token, ts[k].index>>
    BY TransfersAre
  <2>2. IsList(ts)
    BY TransfersAre
  <2> HIDE DEF f, ts, T, amt
  <2>3. <<ts[i].token, ts[i].from, ts[i].to, ts[i].index>> = <<ts[j].token, ts[j].from, ts[j].to, ts[j].index>>
    BY <1>2, <1>4
  <2>4. ts[i].key = ts[j].key
    <3>1. ts[i].token = ts[j].token /\ ts[i].from = ts[j].from /\ ts[i].to = ts[j].to /\ ts[i].index = ts[j].index
      BY <2>3
    <3> QED
      BY <1>3, <2>1, <3>1
  <2> QED
    BY <1>3, <2>2, <2>4 DEF IsList
<1>5. ASSUME NEW i \in T PROVE ts[i].symbol \in Assets /\ amt(i) \in Int
  <2>1. ts[i].symbol \in Assets /\ ts[i].amt \in Int
    BY <1>3, TransfersAre
  <2> QED
    BY <2>1 DEF Mul
<1> HIDE DEF f, T, ts, amt
<1>6. IsEntries(f, "transfer")
  BY <1>1, <1>2, <1>3, <1>4, <1>5 DEF IsEntries, IsList
<1> QED
  BY <1>1, <1>2, <1>6 DEF f, T, ts, amt

LEMMA NativeBalancesAre ==
    ASSUME NEW p \in Payloads
    PROVE  LET ds == Extracted(p).deltas
               f == NativeBalances(Extracted(p))
           IN /\ IsEntries(f, "native")
              /\ DOMAIN f = {k \in DOMAIN ds : ds[k].account = Wallet}
              /\ \A i \in DOMAIN f : f[i].asset = ds[i].token /\ f[i].amt = ds[i].amt
<1> DEFINE ds == Extracted(p).deltas
           f == NativeBalances(Extracted(p))
           T == {k \in DOMAIN ds : ds[k].account = Wallet}
<1>1. DOMAIN f = T
  BY DEF NativeBalances
<1>2. ASSUME NEW i \in T
      PROVE  /\ f[i].key[2] = <<ds[i].account, ds[i].token>>
             /\ f[i].key[1] = "native" /\ f[i].asset = ds[i].token /\ f[i].amt = ds[i].amt
  <2>1. f[i] = Entry("native", <<ds[i].account, ds[i].token>>, ds[i].token, ds[i].amt)
    BY <1>2 DEF NativeBalances
  <2> HIDE DEF f, ds, T
  <2> QED
    BY <2>1 DEF Entry
<1>3. IsFiniteSet(T) /\ T \in SUBSET Int /\ \A i \in T : i \in DOMAIN ds
  <2>1. IsFiniteSet(DOMAIN ds) /\ DOMAIN ds \in SUBSET Int
    BY DeltasAre DEF IsList
  <2>2. T \in SUBSET DOMAIN ds
    OBVIOUS
  <2> HIDE DEF T, ds
  <2> QED
    BY <2>1, <2>2, FS_Subset
<1>4. ASSUME NEW i \in T, NEW j \in T, f[i].key = f[j].key PROVE i = j
  <2>1. \A k \in DOMAIN ds : ds[k].key = <<ds[k].account, ds[k].token>>
    BY DeltasAre
  <2>2. IsList(ds)
    BY DeltasAre
  <2> HIDE DEF f, ds, T
  <2>3. <<ds[i].account, ds[i].token>> = <<ds[j].account, ds[j].token>>
    BY <1>2, <1>4
  <2>4. ds[i].key = ds[j].key
    BY <1>3, <2>1, <2>3
  <2> QED
    BY <1>3, <2>2, <2>4 DEF IsList
<1>5. \A i \in T : ds[i].token \in Assets /\ ds[i].amt \in Int
  BY <1>3, DeltasAre
<1> HIDE DEF f, T, ds
<1>6. IsEntries(f, "native")
  BY <1>1, <1>2, <1>3, <1>4, <1>5 DEF IsEntries, IsList
<1> QED
  BY <1>1, <1>2, <1>6 DEF f, T, ds

LEMMA FlowBalancesAre ==
    ASSUME NEW p \in Payloads
    PROVE  LET f == FlowBalances(p)
           IN /\ IsEntries(f, "evm") /\ DOMAIN f = (IF HasFlows(p) THEN {1} ELSE {})
              /\ HasFlows(p) => f[1].asset = "ETH" /\ f[1].amt = ValueFlow(p) + GasFlow(p)
<1> DEFINE f == FlowBalances(p)
<1>1. CASE ~HasFlows(p)
  BY <1>1, NoList DEF FlowBalances
<1>2. CASE HasFlows(p)
  <2>1. PICK n : n = ValueFlow(p) + GasFlow(p)
    OBVIOUS
  <2>2. PICK x : x = Entry("evm", "net", "ETH", n)
    OBVIOUS
  <2>3. f = <<x>>
    BY <1>2, <2>1, <2>2 DEF FlowBalances
  <2>4. x.key[1] = "evm" /\ x.asset = "ETH" /\ x.amt = n
    BY <2>2 DEF Entry
  <2>5. n \in Int /\ "ETH" \in Assets
    BY <1>2, <2>1, FlowsAre, PayloadsAssumption
  <2> HIDE DEF f
  <2>6. DOMAIN f = {1} /\ f[1] = x /\ IsList(f)
    BY <2>3, OneRow
  <2>7. IsEntries(f, "evm")
    BY <2>4, <2>5, <2>6 DEF IsEntries
  <2> QED
    BY <1>2, <2>1, <2>4, <2>6, <2>7 DEF f
<1> QED
  BY <1>1, <1>2

-----------------------------------------------------------------------------
(* What the two gold datasets add up to *)

LEMMA LedgerRecordsAddUp ==
    ASSUME NEW p \in Payloads, NEW a
    PROVE  LET r == Extracted(p)
               w == Written(LedgerRecords(p, r))
           IN /\ NetOf(w, a) = SeqNet(TransferEntries(r), a) + SeqNet(NativeMoves(p, r), a)
                               + SeqNet(NativeFees(p, r), a) + SeqNet(FillTrades(r), a)
                               + SeqNet(FillFees(r), a) + SeqNet(FillIncome(r), a)
                               + SeqNet(FundingEntries(r), a) + SeqNet(FlowEntries(p), a)
              /\ \A x \in w : x.asset \in Assets /\ x.amt \in Int
<1> DEFINE r == Extracted(p)
           L == LedgerRecords(p, r)
           kinds == <<"transfer", "native", "native_fee", "fill", "fill_fee", "fill_income", "funding", "evm">>
           g == [k \in 1 .. 8 |-> SeqNet(L[k], a)]
<1>1. /\ IsEntries(TransferEntries(r), "transfer")
      /\ IsEntries(NativeMoves(p, r), "native") /\ IsEntries(NativeFees(p, r), "native_fee")
      /\ IsEntries(FillTrades(r), "fill") /\ IsEntries(FillFees(r), "fill_fee")
      /\ IsEntries(FillIncome(r), "fill_income")
      /\ IsEntries(FundingEntries(r), "funding") /\ IsEntries(FlowEntries(p), "evm")
  BY TransferEntriesAre, NativeEntriesAre, FillEntriesAre, FundingEntriesAre, FlowEntriesAre
<1>2. /\ DOMAIN L = 1 .. 8
      /\ L[1] = TransferEntries(r) /\ L[2] = NonZero(NativeMoves(p, r)) /\ L[3] = NonZero(NativeFees(p, r))
      /\ L[4] = FillTrades(r) /\ L[5] = NonZero(FillFees(r)) /\ L[6] = NonZero(FillIncome(r))
      /\ L[7] = FundingEntries(r) /\ L[8] = NonZero(FlowEntries(p))
  <2> HIDE DEF r
  <2> QED
    BY DEF LedgerRecords
<1>3. /\ kinds[1] = "transfer" /\ kinds[2] = "native" /\ kinds[3] = "native_fee" /\ kinds[4] = "fill"
      /\ kinds[5] = "fill_fee" /\ kinds[6] = "fill_income" /\ kinds[7] = "funding" /\ kinds[8] = "evm"
  OBVIOUS
<1> HIDE DEF r, L, kinds
<1>4. AreEntries(L, 8, kinds)
  <2>1. /\ IsEntries(L[1], kinds[1]) /\ IsEntries(L[2], kinds[2]) /\ IsEntries(L[3], kinds[3])
        /\ IsEntries(L[4], kinds[4]) /\ IsEntries(L[5], kinds[5]) /\ IsEntries(L[6], kinds[6])
        /\ IsEntries(L[7], kinds[7]) /\ IsEntries(L[8], kinds[8])
    BY <1>1, <1>2, <1>3, NonZeroEntries
  <2>2. \A k \in 1 .. 8 : k = 1 \/ k = 2 \/ k = 3 \/ k = 4 \/ k = 5 \/ k = 6 \/ k = 7 \/ k = 8
    OBVIOUS
  <2>3. \A k \in 1 .. 8 : IsEntries(L[k], kinds[k])
    BY <2>1, <2>2
  <2>4. \A k, l \in 1 .. 8 : kinds[k] = kinds[l] => k = l
    BY <1>3, <2>2
  <2> QED
    BY <1>2, <2>3, <2>4 DEF AreEntries
<1>5. /\ IsCount(g, 1 .. 8)
      /\ NetOf(Written(L), a) = SumFunctionOnSet(g, 1 .. 8)
      /\ \A x \in Written(L) : x.asset \in Assets /\ x.amt \in Int
  <2>1. \A k \in 1 .. 8 : g[k] = SeqNet(L[k], a)
    OBVIOUS
  <2> HIDE DEF g
  <2>2. PICK n : n = 8
    OBVIOUS
  <2>3. AreEntries(L, n, kinds) /\ \A k \in 1 .. n : g[k] = SeqNet(L[k], a)
    BY <1>4, <2>1, <2>2
  <2>4. IsCount(g, 1 .. n) /\ NetOf(Written(L), a) = SumFunctionOnSet(g, 1 .. n)
    BY <2>3, WrittenNet
  <2>5. \A x \in Written(L) : x.asset \in Assets /\ x.amt \in Int
    BY <2>3, WrittenIs
  <2> QED
    BY <2>2, <2>4, <2>5
<1>6. SumFunctionOnSet(g, 1 .. 8) = g[1] + g[2] + g[3] + g[4] + g[5] + g[6] + g[7] + g[8]
  <2> HIDE DEF g
  <2> QED
    BY <1>5, SumOfEight
<1>7. /\ g[1] = SeqNet(L[1], a) /\ g[2] = SeqNet(L[2], a) /\ g[3] = SeqNet(L[3], a) /\ g[4] = SeqNet(L[4], a)
      /\ g[5] = SeqNet(L[5], a) /\ g[6] = SeqNet(L[6], a) /\ g[7] = SeqNet(L[7], a) /\ g[8] = SeqNet(L[8], a)
  OBVIOUS
<1> HIDE DEF g
<1>8. /\ g[1] = SeqNet(TransferEntries(r), a) /\ g[2] = SeqNet(NativeMoves(p, r), a)
      /\ g[3] = SeqNet(NativeFees(p, r), a) /\ g[4] = SeqNet(FillTrades(r), a)
      /\ g[5] = SeqNet(FillFees(r), a) /\ g[6] = SeqNet(FillIncome(r), a)
      /\ g[7] = SeqNet(FundingEntries(r), a) /\ g[8] = SeqNet(FlowEntries(p), a)
  BY <1>1, <1>2, <1>7, NonZeroEntries
<1> QED
  BY <1>5, <1>6, <1>8 DEF r, L

LEMMA BalanceRecordsAddUp ==
    ASSUME NEW p \in Payloads, NEW a
    PROVE  LET r == Extracted(p)
               w == Written(BalanceEvents(p, r))
           IN /\ NetOf(w, a) = SeqNet(TransferBalances(r), a) + SeqNet(NativeBalances(r), a)
                               + SeqNet(FlowBalances(p), a)
              /\ \A x \in w : x.asset \in Assets /\ x.amt \in Int
<1> DEFINE r == Extracted(p)
           L == BalanceEvents(p, r)
           kinds == <<"transfer", "native", "evm">>
           g == [k \in 1 .. 3 |-> SeqNet(L[k], a)]
<1>1. /\ IsEntries(TransferBalances(r), "transfer") /\ IsEntries(NativeBalances(r), "native")
      /\ IsEntries(FlowBalances(p), "evm")
  BY TransferBalancesAre, NativeBalancesAre, FlowBalancesAre
<1>2. /\ DOMAIN L = 1 .. 3 /\ L[1] = TransferBalances(r) /\ L[2] = NativeBalances(r)
      /\ L[3] = NonZero(FlowBalances(p))
  <2> HIDE DEF r
  <2> QED
    BY DEF BalanceEvents
<1>3. kinds[1] = "transfer" /\ kinds[2] = "native" /\ kinds[3] = "evm"
  OBVIOUS
<1> HIDE DEF r, L, kinds
<1>4. AreEntries(L, 3, kinds)
  <2>1. IsEntries(L[1], kinds[1]) /\ IsEntries(L[2], kinds[2]) /\ IsEntries(L[3], kinds[3])
    BY <1>1, <1>2, <1>3, NonZeroEntries
  <2>2. \A k \in 1 .. 3 : k = 1 \/ k = 2 \/ k = 3
    OBVIOUS
  <2> QED
    BY <1>2, <1>3, <2>1, <2>2 DEF AreEntries
<1>5. /\ IsCount(g, 1 .. 3)
      /\ NetOf(Written(L), a) = SumFunctionOnSet(g, 1 .. 3)
      /\ \A x \in Written(L) : x.asset \in Assets /\ x.amt \in Int
  <2>1. \A k \in 1 .. 3 : g[k] = SeqNet(L[k], a)
    OBVIOUS
  <2> HIDE DEF g
  <2>2. PICK n : n = 3
    OBVIOUS
  <2>3. AreEntries(L, n, kinds) /\ \A k \in 1 .. n : g[k] = SeqNet(L[k], a)
    BY <1>4, <2>1, <2>2
  <2>4. IsCount(g, 1 .. n) /\ NetOf(Written(L), a) = SumFunctionOnSet(g, 1 .. n)
    BY <2>3, WrittenNet
  <2>5. \A x \in Written(L) : x.asset \in Assets /\ x.amt \in Int
    BY <2>3, WrittenIs
  <2> QED
    BY <2>2, <2>4, <2>5
<1>6. SumFunctionOnSet(g, 1 .. 3) = g[1] + g[2] + g[3]
  <2> HIDE DEF g
  <2> QED
    BY <1>5, SumOfThree
<1>7. g[1] = SeqNet(L[1], a) /\ g[2] = SeqNet(L[2], a) /\ g[3] = SeqNet(L[3], a)
  OBVIOUS
<1> HIDE DEF g
<1>8. /\ g[1] = SeqNet(TransferBalances(r), a) /\ g[2] = SeqNet(NativeBalances(r), a)
      /\ g[3] = SeqNet(FlowBalances(p), a)
  BY <1>1, <1>2, <1>7, NonZeroEntries
<1> QED
  BY <1>5, <1>6, <1>8 DEF r, L

\* A sum, with zeros at the positions that it does not have.
LEMMA SumPadded ==
    ASSUME NEW D, IsFiniteSet(D), NEW g, DOMAIN g \in SUBSET D, NEW h,
           \A i \in D : h[i] \in Int /\ h[i] = IF i \in DOMAIN g THEN g[i] ELSE 0
    PROVE  SumFunction(g) = SumFunctionOnSet(h, D) /\ SumFunction(g) \in Int
<1>1. PICK T \in SUBSET D : T = DOMAIN g
  OBVIOUS
<1>2. IsCount(h, D)
  BY DEF IsCount
<1>3. (\A i \in D \ T : h[i] = 0) /\ \A i \in T : g[i] = h[i]
  BY <1>1
<1>4. SumFunction(g) = SumFunctionOnSet(h, T) /\ SumFunction(g) \in Int
  BY <1>1, <1>2, <1>3, SumGiven
<1> QED
  BY <1>2, <1>3, <1>4, SumSkip

AmountAt(f, a, i) == IF i \in DOMAIN f /\ f[i].asset = a THEN f[i].amt ELSE 0

\* A list with few records.
LEMMA NetOfFew ==
    ASSUME NEW f, NEW kind, IsEntries(f, kind), DOMAIN f \in SUBSET (1 .. 3), NEW a
    PROVE  /\ AmountAt(f, a, 1) \in Int /\ AmountAt(f, a, 2) \in Int /\ AmountAt(f, a, 3) \in Int
           /\ SeqNet(f, a) = AmountAt(f, a, 1) + AmountAt(f, a, 2) + AmountAt(f, a, 3)
<1> DEFINE h == [i \in 1 .. 3 |-> AmountAt(f, a, i)]
<1>1. \A i \in 1 .. 3 : AmountAt(f, a, i) \in Int
  BY DEF AmountAt, IsEntries
<1>2. AmountsOf(h, f, a, 1 .. 3)
  BY <1>1 DEF AmountsOf, AmountAt
<1>3. IsCount(h, 1 .. 3)
  BY <1>1 DEF IsCount
<1>4. SeqNet(f, a) = SumFunctionOnSet(h, 1 .. 3)
  <2>1. PICK D : D = 1 .. 3
    OBVIOUS
  <2>2. IsFiniteSet(D) /\ DOMAIN f \in SUBSET D
    <3>1. 1 \in Int /\ 3 \in Int
      OBVIOUS
    <3>2. IsFiniteSet(1 .. 3)
      BY <3>1, FS_Interval
    <3> QED
      BY <2>1, <3>2
  <2> HIDE DEF h
  <2>3. AmountsOf(h, f, a, D)
    BY <1>2, <2>1
  <2>4. SeqNet(f, a) = SumFunctionOnSet(h, D)
    BY <2>2, <2>3, SeqNetIs
  <2> QED
    BY <2>1, <2>4
<1>5. SumFunctionOnSet(h, 1 .. 3) = h[1] + h[2] + h[3]
  <2> HIDE DEF h
  <2> QED
    BY <1>3, SumOfThree
<1> QED
  BY <1>1, <1>4, <1>5

LEMMA NetOfOne ==
    ASSUME NEW f, NEW kind, IsEntries(f, kind), DOMAIN f \in SUBSET {1}, NEW a
    PROVE  SeqNet(f, a) = (IF 1 \in DOMAIN f /\ f[1].asset = a THEN f[1].amt ELSE 0)
<1>1. DOMAIN f \in SUBSET (1 .. 3) /\ 2 \notin DOMAIN f /\ 3 \notin DOMAIN f
  OBVIOUS
<1>2. /\ AmountAt(f, a, 1) \in Int
      /\ SeqNet(f, a) = AmountAt(f, a, 1) + AmountAt(f, a, 2) + AmountAt(f, a, 3)
  BY <1>1, NetOfFew
<1>3. AmountAt(f, a, 2) = 0 /\ AmountAt(f, a, 3) = 0
  BY <1>1 DEF AmountAt
<1> QED
  BY <1>2, <1>3 DEF AmountAt

LEMMA NetOfNothing ==
    ASSUME NEW f, DOMAIN f = {}, NEW a
    PROVE  SeqNet(f, a) = 0
  BY SeqNetNone, FS_EmptySet

LEMMA NoFills ==
    ASSUME NEW p \in Payloads, p.chain # "hyperliquid", NEW a
    PROVE  LET r == Extracted(p)
           IN /\ SeqNet(FillTrades(r), a) = 0 /\ SeqNet(FillFees(r), a) = 0 /\ SeqNet(FillIncome(r), a) = 0
              /\ SeqNet(FundingEntries(r), a) = 0
<1>1. LET r == Extracted(p)
      IN DOMAIN FillTrades(r) = {} /\ DOMAIN FillFees(r) = {} /\ DOMAIN FillIncome(r) = {}
         /\ DOMAIN FundingEntries(r) = {}
  BY FillEntriesAre, FundingEntriesAre
<1> QED
  BY <1>1, NetOfNothing

LEMMA NoNative ==
    ASSUME NEW p \in Payloads, p.chain # "solana", NEW a
    PROVE  LET r == Extracted(p)
           IN SeqNet(NativeMoves(p, r), a) = 0 /\ SeqNet(NativeFees(p, r), a) = 0
<1>1. LET r == Extracted(p)
      IN DOMAIN NativeMoves(p, r) = {} /\ DOMAIN NativeFees(p, r) = {}
  BY NativeEntriesAre
<1> QED
  BY <1>1, NetOfNothing

LEMMA NoFlows ==
    ASSUME NEW p \in Payloads, ~HasFlows(p), NEW a
    PROVE  SeqNet(FlowEntries(p), a) = 0 /\ SeqNet(FlowBalances(p), a) = 0
  BY FlowEntriesAre, FlowBalancesAre, NetOfNothing

-----------------------------------------------------------------------------
(* The ledger of a payload, chain by chain *)

LEMMA HlRowsAre ==
    ASSUME NEW p \in Payloads, p.chain = "hyperliquid"
    PROVE  /\ DOMAIN HlFills(p) = IF p.type = "fill" /\ Parses(p.px) /\ Parses(p.sz) THEN {1} ELSE {}
           /\ DOMAIN HlFunding(p) = IF p.type = "funding" /\ Parses(p.usdc) THEN {1} ELSE {}
           /\ DOMAIN HlTransfers(p) = IF p.type \in {"deposit", "withdraw"} /\ Parses(p.usdc) /\ p.usdc.n # 0
                                      THEN {1} ELSE {}
<1>1. DOMAIN <<>> = {} /\ \A x : DOMAIN <<x>> = {1}
  OBVIOUS
<1>2. DOMAIN HlFills(p) = IF p.type = "fill" /\ Parses(p.px) /\ Parses(p.sz) THEN {1} ELSE {}
  BY <1>1 DEF HlFills
<1>3. DOMAIN HlFunding(p) = IF p.type = "funding" /\ Parses(p.usdc) THEN {1} ELSE {}
  BY <1>1 DEF HlFunding
<1>4. DOMAIN HlTransfers(p) = IF p.type \in {"deposit", "withdraw"} /\ Parses(p.usdc) /\ p.usdc.n # 0
                              THEN {1} ELSE {}
  <2> DEFINE some == p.type \in {"deposit", "withdraw"} /\ Parses(p.usdc) /\ p.usdc.n # 0
  <2>1. some \in BOOLEAN
    OBVIOUS
  <2>2. CASE some
    <3>1. \E x : HlTransfers(p) = <<x>>
      BY <2>2 DEF HlTransfers
    <3> QED
      BY <1>1, <2>2, <3>1
  <2>3. CASE ~some
    BY <1>1, <2>3 DEF HlTransfers
  <2> QED
    BY <2>2, <2>3
<1> QED
  BY <1>2, <1>3, <1>4

\* What the exchange paid in or out.
PaidIn(p) == IF p.type = "deposit" THEN p.usdc.n
           ELSE IF p.type # "withdraw" THEN 0
           ELSE IF p.usdc.n > 0 THEN -p.usdc.n ELSE p.usdc.n

LEMMA HlTransfersNet ==
    ASSUME NEW p \in Payloads, p.chain = "hyperliquid", Parses(p.usdc), NEW a
    PROVE  LET r == Extracted(p)
               n == IF a = "USDC" THEN PaidIn(p) ELSE 0
           IN SeqNet(TransferEntries(r), a) = n /\ SeqNet(TransferBalances(r), a) = n /\ n \in Int
<1> DEFINE r == Extracted(p)
           ts == r.transfers
           f == TransferEntries(r)
           g == TransferBalances(r)
<1>1. ts = HlTransfers(p)
  BY ExtractedIs
<1>2. /\ IsEntries(f, "transfer") /\ DOMAIN f = {k \in DOMAIN ts : Sides(ts[k])}
      /\ \A i \in DOMAIN f : f[i].asset = ts[i].symbol /\ f[i].amt = Mul(ts[i].to = Wallet, ts[i].amt)
  BY TransferEntriesAre
<1>3. /\ IsEntries(g, "transfer") /\ DOMAIN g = {k \in DOMAIN ts : ts[k].known /\ Wallet \in {ts[k].from, ts[k].to}}
      /\ \A i \in DOMAIN g : g[i].asset = ts[i].symbol /\ g[i].amt = IF ts[i].from = ts[i].to THEN 0
                                                   ELSE Mul(ts[i].to = Wallet, ts[i].amt)
  BY TransferBalancesAre
<1> HIDE DEF r, ts, f, g
<1>4. p.usdc.n \in Int /\ PaidIn(p) \in Int
  BY HyperliquidIs DEF PaidIn
<1>5. DOMAIN ts \in SUBSET {1}
  BY <1>1, HyperliquidLists
<1>6. /\ SeqNet(f, a) = (IF 1 \in DOMAIN f /\ f[1].asset = a THEN f[1].amt ELSE 0)
      /\ SeqNet(g, a) = (IF 1 \in DOMAIN g /\ g[1].asset = a THEN g[1].amt ELSE 0)
  <2>1. DOMAIN f \in SUBSET {1} /\ DOMAIN g \in SUBSET {1}
    BY <1>2, <1>3, <1>5
  <2> QED
    BY <1>2, <1>3, <2>1, NetOfOne
<1>7. CASE 1 \notin DOMAIN ts
  <2>1. p.type \notin {"deposit", "withdraw"} \/ p.usdc.n = 0
    BY <1>1, <1>7, HlRowsAre
  <2>2. PaidIn(p) = 0
    BY <1>4, <2>1 DEF PaidIn
  <2> QED
    BY <1>2, <1>3, <1>6, <1>7, <2>2 DEF f, g, r
<1>8. CASE 1 \in DOMAIN ts
  <2>1. /\ ts[1].symbol = "USDC" /\ ts[1].known = TRUE
        /\ \/ p.type = "deposit" /\ ts[1].from = "external" /\ ts[1].to = Wallet /\ ts[1].amt = p.usdc.n
           \/ /\ p.type = "withdraw" /\ ts[1].from = Wallet /\ ts[1].to = "external"
              /\ ts[1].amt = IF p.usdc.n > 0 THEN p.usdc.n ELSE -p.usdc.n
    BY <1>1, <1>8, HlTransferIs
  <2>2. Wallet # "external"
    BY PayloadsAssumption
  <2>3. Sides(ts[1]) /\ Wallet \in {ts[1].from, ts[1].to} /\ ts[1].from # ts[1].to
    BY <2>1, <2>2 DEF Sides
  <2>4. Mul(ts[1].to = Wallet, ts[1].amt) = PaidIn(p)
    BY <1>4, <2>1, <2>2 DEF Mul, PaidIn
  <2>5. 1 \in DOMAIN f /\ 1 \in DOMAIN g
    BY <1>2, <1>3, <1>8, <2>1, <2>3
  <2>6. f[1].asset = "USDC" /\ f[1].amt = PaidIn(p) /\ g[1].asset = "USDC" /\ g[1].amt = PaidIn(p)
    BY <1>2, <1>3, <2>1, <2>3, <2>4, <2>5
  <2> QED
    BY <1>4, <1>6, <2>5, <2>6 DEF f, g, r
<1> QED
  BY <1>7, <1>8

LEMMA HlLedger ==
    ASSUME NEW p \in Payloads, p.chain = "hyperliquid", ValidImport(p), NEW a \in Assets
    PROVE  NetOf(Written(LedgerRecords(p, Extracted(p))), a) = NetChange(p, a)
<1> DEFINE r == Extracted(p)
<1>1. ~HasFlows(p) /\ p.chain # "solana"
  BY DEF HasFlows
<1>2. SeqNet(NativeMoves(p, r), a) = 0 /\ SeqNet(NativeFees(p, r), a) = 0 /\ SeqNet(FlowEntries(p), a) = 0
  BY <1>1, NoNative, NoFlows
<1>3. PICK x1, x4, x5, x6, x7 : /\ x1 = SeqNet(TransferEntries(r), a) /\ x4 = SeqNet(FillTrades(r), a)
                                /\ x5 = SeqNet(FillFees(r), a) /\ x6 = SeqNet(FillIncome(r), a)
                                /\ x7 = SeqNet(FundingEntries(r), a)
  OBVIOUS
<1>4. NetOf(Written(LedgerRecords(p, r)), a) = x1 + 0 + 0 + x4 + x5 + x6 + x7 + 0
  BY <1>2, <1>3, LedgerRecordsAddUp
<1>5. r.fills = HlFills(p) /\ r.funding = HlFunding(p) /\ r.transfers = HlTransfers(p)
  BY ExtractedIs
<1>6. /\ p.sz.n \in Int /\ p.pnl.n \in Int /\ p.fee.n \in Int /\ p.usdc.n \in Int
      /\ p.type \in {"fill", "funding", "deposit", "withdraw", "liquidation", "funding_rate"}
  BY HyperliquidIs
<1> DEFINE T == FillTrades(r)
           F == FillFees(r)
           I == FillIncome(r)
           U == FundingEntries(r)
<1>7. /\ DOMAIN T = DOMAIN HlFills(p) /\ DOMAIN F = DOMAIN HlFills(p) /\ DOMAIN I = DOMAIN HlFills(p)
      /\ DOMAIN U = DOMAIN HlFunding(p)
      /\ IsEntries(T, "fill") /\ IsEntries(F, "fill_fee") /\ IsEntries(I, "fill_income") /\ IsEntries(U, "funding")
      /\ DOMAIN HlFills(p) \in SUBSET {1} /\ DOMAIN HlFunding(p) \in SUBSET {1}
      /\ 1 \in DOMAIN HlFills(p) => /\ T[1].asset = p.coin /\ T[1].amt = Mul(p.side = "B", p.sz.n)
                                    /\ F[1].asset = FeeAsset(p) /\ F[1].amt = -Optional(p.fee).n
                                    /\ I[1].asset = "USDC" /\ I[1].amt = Optional(p.pnl).n
      /\ 1 \in DOMAIN HlFunding(p) => U[1].asset = "USDC" /\ U[1].amt = p.usdc.n
  BY <1>5, FillEntriesAre, FundingEntriesAre
<1> HIDE DEF r, T, F, I, U
<1>8. /\ x4 = (IF 1 \in DOMAIN T /\ T[1].asset = a THEN T[1].amt ELSE 0)
      /\ x5 = (IF 1 \in DOMAIN F /\ F[1].asset = a THEN F[1].amt ELSE 0)
      /\ x6 = (IF 1 \in DOMAIN I /\ I[1].asset = a THEN I[1].amt ELSE 0)
      /\ x7 = (IF 1 \in DOMAIN U /\ U[1].asset = a THEN U[1].amt ELSE 0)
  <2>1. x4 = SeqNet(T, a) /\ x5 = SeqNet(F, a) /\ x6 = SeqNet(I, a) /\ x7 = SeqNet(U, a)
    BY <1>3 DEF T, F, I, U
  <2>2. SeqNet(T, a) = (IF 1 \in DOMAIN T /\ T[1].asset = a THEN T[1].amt ELSE 0)
    BY <1>7, NetOfOne
  <2>3. SeqNet(F, a) = (IF 1 \in DOMAIN F /\ F[1].asset = a THEN F[1].amt ELSE 0)
    BY <1>7, NetOfOne
  <2>4. SeqNet(I, a) = (IF 1 \in DOMAIN I /\ I[1].asset = a THEN I[1].amt ELSE 0)
    BY <1>7, NetOfOne
  <2>5. SeqNet(U, a) = (IF 1 \in DOMAIN U /\ U[1].asset = a THEN U[1].amt ELSE 0)
    BY <1>7, NetOfOne
  <2> QED
    BY <2>1, <2>2, <2>3, <2>4, <2>5
<1>9. p.type # "fill" => 1 \notin DOMAIN HlFills(p)
  BY HlRowsAre
<1>10. p.type # "funding" => 1 \notin DOMAIN HlFunding(p)
  BY HlRowsAre
<1>11. p.type \notin {"deposit", "withdraw"} => x1 = 0
  <2>1. SUFFICES ASSUME p.type \notin {"deposit", "withdraw"} PROVE x1 = 0
    OBVIOUS
  <2>2. DOMAIN r.transfers = {}
    BY <1>5, <2>1, HlRowsAre
  <2>3. DOMAIN TransferEntries(r) = {}
    BY <2>2, TransferEntriesAre DEF r
  <2> QED
    BY <1>3, <2>3, NetOfNothing
<1>12. NetChange(p, a) = HlChange(p, a)
  BY DEF NetChange
<1>13. CASE p.type = "fill"
  <2>1. Parses(p.px) /\ Parses(p.sz) /\ Parses(p.fee) /\ Parses(p.pnl)
    BY <1>13 DEF ValidImport
  <2>2. 1 \in DOMAIN HlFills(p) /\ Optional(p.fee) = p.fee /\ Optional(p.pnl) = p.pnl
    BY <1>13, <2>1, HlRowsAre DEF Optional
  <2>3. PICK m \in Int : m = Mul(p.side = "B", p.sz.n)
    BY <1>6 DEF Mul
  <2>4. HlChange(p, a) = (IF a = p.coin THEN m ELSE 0) + (IF a = "USDC" THEN p.pnl.n ELSE 0)
                         - (IF a = FeeAsset(p) THEN p.fee.n ELSE 0)
    BY <1>13, <2>3 DEF HlChange
  <2>5. /\ x1 = 0 /\ x7 = 0 /\ x4 = (IF p.coin = a THEN m ELSE 0)
        /\ x5 = (IF FeeAsset(p) = a THEN -p.fee.n ELSE 0) /\ x6 = (IF "USDC" = a THEN p.pnl.n ELSE 0)
    BY <1>7, <1>8, <1>10, <1>11, <1>13, <2>2, <2>3
  <2> QED
    BY <1>4, <1>6, <1>12, <2>4, <2>5 DEF r
<1>14. CASE p.type = "funding"
  <2>1. Parses(p.usdc)
    BY <1>14 DEF ValidImport, Parses
  <2>2. 1 \in DOMAIN HlFunding(p)
    BY <1>14, <2>1, HlRowsAre
  <2>3. HlChange(p, a) = IF a = "USDC" THEN p.usdc.n ELSE 0
    BY <1>14 DEF HlChange
  <2>4. x1 = 0 /\ x4 = 0 /\ x5 = 0 /\ x6 = 0 /\ x7 = (IF "USDC" = a THEN p.usdc.n ELSE 0)
    BY <1>7, <1>8, <1>9, <1>11, <1>14, <2>2
  <2> QED
    BY <1>4, <1>6, <1>12, <2>3, <2>4 DEF r
<1>15. CASE p.type \in {"deposit", "withdraw"}
  <2>1. Parses(p.usdc)
    BY <1>15 DEF ValidImport, Parses
  <2>2. x1 = (IF a = "USDC" THEN PaidIn(p) ELSE 0) /\ x1 \in Int
    BY <1>3, <2>1, HlTransfersNet DEF r
  <2>3. HlChange(p, a) = IF a = "USDC" THEN PaidIn(p) ELSE 0
    <3>1. CASE p.type = "deposit"
      BY <3>1 DEF HlChange, PaidIn
    <3>2. CASE p.type = "withdraw"
      BY <3>2 DEF HlChange, PaidIn
    <3> QED
      BY <1>15, <3>1, <3>2
  <2>4. x4 = 0 /\ x5 = 0 /\ x6 = 0 /\ x7 = 0
    BY <1>7, <1>8, <1>9, <1>10, <1>15
  <2> QED
    BY <1>4, <1>12, <2>2, <2>3, <2>4 DEF r
<1>16. CASE p.type \in {"liquidation", "funding_rate"}
  <2>1. HlChange(p, a) = 0
    BY <1>16 DEF HlChange
  <2>2. x1 = 0 /\ x4 = 0 /\ x5 = 0 /\ x6 = 0 /\ x7 = 0
    BY <1>7, <1>8, <1>9, <1>10, <1>11, <1>16
  <2> QED
    BY <1>4, <1>12, <2>1, <2>2 DEF r
<1> QED
  BY <1>6, <1>13, <1>14, <1>15, <1>16

-----------------------------------------------------------------------------
(* The ledger of an EVM payload *)

\* A log of known decimals, of a token that goes by the symbol.
Books(p, a, log) == Symbol[log.token] = a /\ HasDecimals(p, log.token)

\* What a log moves into the wallet, on its symbol.
LogMoves(p, a, i) ==
    LET log == p.logs[i]
    IN IF p.failed \/ ~Books(p, a, log) \/ ~IsTransfer(log) THEN 0
       ELSE (IF log.to = Wallet THEN LogAmount(p, log) ELSE 0) - (IF log.from = Wallet THEN LogAmount(p, log) ELSE 0)

LEMMA LogMovesType ==
    ASSUME NEW p \in Payloads, p.chain = "evm", NEW a, NEW i \in DOMAIN p.logs
    PROVE  LogMoves(p, a, i) \in Int
  BY LogAmountIs DEF LogMoves

\* A transfer to oneself moves nothing, and neither does one between others: it
\* does not matter whether they are left out (Sides) or not.
LEMMA EvmTransfersNet ==
    ASSUME NEW p \in Payloads, p.chain = "evm", NEW a, NEW h, \A i \in DOMAIN p.logs : h[i] = LogMoves(p, a, i)
    PROVE  LET r == Extracted(p)
           IN /\ SeqNet(TransferEntries(r), a) = SumFunctionOnSet(h, DOMAIN p.logs)
              /\ SeqNet(TransferBalances(r), a) = SumFunctionOnSet(h, DOMAIN p.logs)
              /\ SumFunctionOnSet(h, DOMAIN p.logs) \in Int
<1> DEFINE r == Extracted(p)
           ts == r.transfers
           f == TransferEntries(r)
           g == TransferBalances(r)
           D == DOMAIN p.logs
<1>1. ts = EvmTransfers(p)
  BY ExtractedIs
<1>2. /\ DOMAIN ts = {k \in D : ~p.failed /\ IsTransfer(p.logs[k])}
      /\ \A i \in DOMAIN ts : LET t == ts[i]
                                  log == p.logs[i]
                              IN /\ t.from = log.from /\ t.to = log.to /\ t.symbol = Symbol[log.token]
                                 /\ t.amt = LogAmount(p, log) /\ t.known = HasDecimals(p, log.token)
  <2> HIDE DEF ts
  <2> QED
    BY <1>1, EvmTransfersList
<1>3. /\ DOMAIN f = {k \in DOMAIN ts : Sides(ts[k])}
      /\ \A i \in DOMAIN f : f[i].asset = ts[i].symbol /\ f[i].amt = Mul(ts[i].to = Wallet, ts[i].amt)
  BY TransferEntriesAre
<1>4. /\ DOMAIN g = {k \in DOMAIN ts : ts[k].known /\ Wallet \in {ts[k].from, ts[k].to}}
      /\ \A i \in DOMAIN g : g[i].asset = ts[i].symbol /\ g[i].amt = IF ts[i].from = ts[i].to THEN 0
                                                   ELSE Mul(ts[i].to = Wallet, ts[i].amt)
  BY TransferBalancesAre
<1>5. IsFiniteSet(D) /\ \A i \in D : LogAmount(p, p.logs[i]) \in Int /\ h[i] \in Int
  BY EvmIs, LogAmountIs, LogMovesType
<1> HIDE DEF r, ts, f, g
<1>6. ASSUME NEW i \in D
      PROVE  /\ h[i] = IF i \in DOMAIN f /\ f[i].asset = a THEN f[i].amt ELSE 0
             /\ h[i] = IF i \in DOMAIN g /\ g[i].asset = a THEN g[i].amt ELSE 0
  <2>1. PICK log : log = p.logs[i]
    OBVIOUS
  <2>2. h[i] = IF p.failed \/ ~Books(p, a, log) \/ ~IsTransfer(log) THEN 0
               ELSE (IF log.to = Wallet THEN LogAmount(p, log) ELSE 0) - (IF log.from = Wallet THEN LogAmount(p, log) ELSE 0)
    BY <2>1 DEF LogMoves
  <2>3. LogAmount(p, log) \in Int
    BY <1>5, <2>1
  <2>4. CASE i \notin DOMAIN ts
    <3>1. p.failed \/ ~IsTransfer(log)
      BY <1>2, <2>1, <2>4
    <3>2. i \notin DOMAIN f /\ i \notin DOMAIN g
      BY <1>3, <1>4, <2>4
    <3> QED
      BY <2>2, <3>1, <3>2
  <2>5. CASE i \in DOMAIN ts
    <3>1. PICK t : t = ts[i]
      OBVIOUS
    <3>2. /\ ~p.failed /\ IsTransfer(log) /\ t.from = log.from /\ t.to = log.to
          /\ t.amt = LogAmount(p, log) /\ (t.symbol = a /\ t.known <=> Books(p, a, log))
      BY <1>2, <2>1, <2>5, <3>1 DEF Books
    <3>3. CASE ~Books(p, a, log)
      <4>1. h[i] = 0
        BY <2>2, <3>3
      <4>2. i \in DOMAIN f => f[i].asset # a
        BY <1>3, <3>1, <3>2, <3>3 DEF Sides
      <4>3. i \in DOMAIN g => g[i].asset # a
        BY <1>4, <3>1, <3>2, <3>3
      <4> QED
        BY <4>1, <4>2, <4>3
    <3>4. CASE Books(p, a, log)
      <4>1. h[i] = (IF t.to = Wallet THEN t.amt ELSE 0) - (IF t.from = Wallet THEN t.amt ELSE 0)
        BY <2>2, <3>2, <3>4
      <4>2. /\ i \in DOMAIN f <=> (t.from = Wallet) # (t.to = Wallet)
            /\ i \in DOMAIN f => f[i].asset = a /\ f[i].amt = Mul(t.to = Wallet, t.amt)
        BY <1>3, <2>5, <3>1, <3>2, <3>4 DEF Sides
      <4>3. /\ i \in DOMAIN g <=> Wallet \in {t.from, t.to}
            /\ i \in DOMAIN g => g[i].asset = a /\ g[i].amt = IF t.from = t.to THEN 0 ELSE Mul(t.to = Wallet, t.amt)
        BY <1>4, <2>5, <3>1, <3>2, <3>4
      <4>4. t.amt \in Int
        BY <2>3, <3>2
      <4>5. CASE t.to = Wallet /\ t.from = Wallet
        BY <4>1, <4>2, <4>3, <4>4, <4>5
      <4>6. CASE t.to = Wallet /\ t.from # Wallet
        BY <4>1, <4>2, <4>3, <4>4, <4>6 DEF Mul
      <4>7. CASE t.to # Wallet /\ t.from = Wallet
        BY <4>1, <4>2, <4>3, <4>4, <4>7 DEF Mul
      <4>8. CASE t.to # Wallet /\ t.from # Wallet
        BY <4>1, <4>2, <4>3, <4>4, <4>8
      <4> QED
        BY <4>5, <4>6, <4>7, <4>8
    <3> QED
      BY <3>3, <3>4
  <2> QED
    BY <2>4, <2>5
<1>7. DOMAIN f \in SUBSET D /\ DOMAIN g \in SUBSET D
  BY <1>2, <1>3, <1>4
<1> HIDE DEF D
<1>8. AmountsOf(h, f, a, D) /\ AmountsOf(h, g, a, D)
  BY <1>5, <1>6 DEF AmountsOf
<1>9. /\ SeqNet(f, a) = SumFunctionOnSet(h, D) /\ SeqNet(f, a) \in Int
      /\ SeqNet(g, a) = SumFunctionOnSet(h, D)
  BY <1>5, <1>7, <1>8, SeqNetIs
<1> QED
  BY <1>9 DEF f, g, r, D

\* The value and the gas, with the message's own conditions.
NativeChange(p) ==
    (IF p.failed THEN 0
     ELSE (IF p.to = Wallet THEN p.value.n ELSE 0) - (IF p.from = Wallet THEN p.value.n ELSE 0))
    - (IF p.from = Wallet THEN p.gas.n ELSE 0)

LEMMA FlowsNet ==
    ASSUME NEW p \in Payloads, p.chain = "evm", ValidImport(p), NEW a
    PROVE  LET n == IF a = "ETH" THEN NativeChange(p) ELSE 0
           IN SeqNet(FlowEntries(p), a) = n /\ SeqNet(FlowBalances(p), a) = n /\ n \in Int
<1>1. Parses(p.value) /\ Parses(p.gas)
  <2>1. ValidImport(p) => Parses(p.value) /\ Parses(p.gas)
    BY DEF ValidImport
  <2> QED
    BY <2>1
<1>2. p.value.n \in Int /\ p.gas.n \in Int /\ Wallet # "none" /\ (p.from = "none" => p.to = "none")
  BY EvmIs, PayloadsAssumption
<1>3. HasFlows(p) <=> p.from # "none"
  BY <1>1 DEF HasFlows
<1>4. NativeChange(p) \in Int
  BY <1>2 DEF NativeChange
<1>5. CASE p.from = "none"
  <2>1. NativeChange(p) = 0
    BY <1>2, <1>5 DEF NativeChange
  <2>2. SeqNet(FlowEntries(p), a) = 0 /\ SeqNet(FlowBalances(p), a) = 0
    BY <1>3, <1>5, NoFlows
  <2> QED
    BY <2>1, <2>2
<1>6. CASE p.from # "none"
  <2>1. HasFlows(p)
    BY <1>3, <1>6
  <2> DEFINE f == FlowEntries(p)
             g == FlowBalances(p)
  <2>2. ValueFlow(p) \in Int /\ GasFlow(p) \in Int /\ ValueFlow(p) + GasFlow(p) = NativeChange(p)
    <3>1. ValueFlow(p) \in Int /\ GasFlow(p) \in Int
      BY <2>1, FlowsAre
    <3>2. GasFlow(p) = -(IF p.from = Wallet THEN p.gas.n ELSE 0)
      BY <1>2 DEF GasFlow
    <3>3. ValueFlow(p) = IF p.failed THEN 0
                         ELSE (IF p.to = Wallet THEN p.value.n ELSE 0) - (IF p.from = Wallet THEN p.value.n ELSE 0)
      <4>1. CASE p.failed
        BY <4>1 DEF ValueFlow
      <4>2. CASE ~p.failed /\ p.to = Wallet
        BY <1>2, <4>2 DEF ValueFlow, Mul
      <4>3. CASE ~p.failed /\ p.to # Wallet
        BY <1>2, <4>3 DEF ValueFlow, Mul
      <4> QED
        BY <4>1, <4>2, <4>3
    <3> QED
      BY <1>2, <3>1, <3>2, <3>3 DEF NativeChange
  <2>3. /\ IsEntries(f, "evm") /\ DOMAIN f = {1, 2} /\ f[1].asset = "ETH" /\ f[1].amt = ValueFlow(p)
        /\ f[2].asset = "ETH" /\ f[2].amt = GasFlow(p)
    BY <2>1, FlowEntriesAre
  <2>4. IsEntries(g, "evm") /\ DOMAIN g = {1} /\ g[1].asset = "ETH" /\ g[1].amt = ValueFlow(p) + GasFlow(p)
    BY <2>1, FlowBalancesAre
  <2> HIDE DEF f, g
  <2>5. SeqNet(f, a) = AmountAt(f, a, 1) + AmountAt(f, a, 2) + AmountAt(f, a, 3)
    <3>1. DOMAIN f \in SUBSET (1 .. 3)
      BY <2>3
    <3> QED
      BY <2>3, <3>1, NetOfFew
  <2>6. SeqNet(g, a) = (IF 1 \in DOMAIN g /\ g[1].asset = a THEN g[1].amt ELSE 0)
    BY <2>4, NetOfOne
  <2>7. /\ AmountAt(f, a, 1) = (IF a = "ETH" THEN ValueFlow(p) ELSE 0)
        /\ AmountAt(f, a, 2) = (IF a = "ETH" THEN GasFlow(p) ELSE 0) /\ AmountAt(f, a, 3) = 0
    BY <2>3 DEF AmountAt
  <2> QED
    BY <1>4, <2>2, <2>4, <2>5, <2>6, <2>7 DEF f, g
<1> QED
  BY <1>5, <1>6

LEMMA EvmLedger ==
    ASSUME NEW p \in Payloads, p.chain = "evm", ValidImport(p), NEW a \in Assets
    PROVE  NetOf(Written(LedgerRecords(p, Extracted(p))), a) = NetChange(p, a)
<1> DEFINE r == Extracted(p)
           D == DOMAIN p.logs
           h == [i \in D |-> LogMoves(p, a, i)]
           n == IF a = "ETH" THEN NativeChange(p) ELSE 0
           x == SumFunctionOnSet(h, D)
<1>1. SeqNet(TransferEntries(r), a) = x /\ x \in Int
  <2>1. \A i \in D : h[i] = LogMoves(p, a, i)
    OBVIOUS
  <2> HIDE DEF h
  <2> QED
    BY <2>1, EvmTransfersNet
<1>2. SeqNet(FlowEntries(p), a) = n /\ n \in Int
  BY FlowsNet
<1>3. p.chain # "hyperliquid" /\ p.chain # "solana"
  OBVIOUS
<1>4. /\ SeqNet(NativeMoves(p, r), a) = 0 /\ SeqNet(NativeFees(p, r), a) = 0 /\ SeqNet(FillTrades(r), a) = 0
      /\ SeqNet(FillFees(r), a) = 0 /\ SeqNet(FillIncome(r), a) = 0 /\ SeqNet(FundingEntries(r), a) = 0
  BY <1>3, NoNative, NoFills
<1>5. NetOf(Written(LedgerRecords(p, r)), a) = x + n
  <2>1. PICK y : y = NetOf(Written(LedgerRecords(p, r)), a)
    OBVIOUS
  <2>2. y = SeqNet(TransferEntries(r), a) + SeqNet(NativeMoves(p, r), a)
            + SeqNet(NativeFees(p, r), a) + SeqNet(FillTrades(r), a)
            + SeqNet(FillFees(r), a) + SeqNet(FillIncome(r), a)
            + SeqNet(FundingEntries(r), a) + SeqNet(FlowEntries(p), a)
    BY <2>1, LedgerRecordsAddUp
  <2> HIDE DEF n, x, r
  <2>3. y = x + 0 + 0 + 0 + 0 + 0 + 0 + n
    BY <1>1, <1>2, <1>4, <2>2
  <2> QED
    BY <1>1, <1>2, <2>1, <2>3
<1> DEFINE T == {j \in D : Books(p, a, p.logs[j]) /\ IsTransfer(p.logs[j])}
           m == [i \in T |-> (IF p.logs[i].to = Wallet THEN LogAmount(p, p.logs[i]) ELSE 0)
                             - (IF p.logs[i].from = Wallet THEN LogAmount(p, p.logs[i]) ELSE 0)]
<1>6. NetChange(p, a) = n + (IF p.failed THEN 0 ELSE SumFunction(m))
  BY DEF NetChange, EvmChange, NativeChange, Books
<1>7. x = IF p.failed THEN 0 ELSE SumFunction(m)
  <2>1. \A i \in D : h[i] \in Int
    BY LogMovesType
  <2>2. CASE p.failed
    <3>1. \A i \in D : h[i] = 0
      BY <2>2 DEF LogMoves
    <3>2. IsFiniteSet(D)
      BY EvmIs
    <3>3. IsCount(h, D) /\ {} \in SUBSET D /\ \A i \in D \ {} : h[i] = 0
      <4> HIDE DEF h, D
      <4> QED
        BY <3>1 DEF IsCount
    <3>4. x = 0
      <4> HIDE DEF h, D
      <4> QED
        BY <3>2, <3>3, SumSkip, SumEmpty
    <3> HIDE DEF x
    <3> QED
      BY <2>2, <3>4
  <2>3. CASE ~p.failed
    <3>1. \A i \in D : h[i] = IF i \in DOMAIN m THEN m[i] ELSE 0
      BY <2>3 DEF LogMoves
    <3>2. DOMAIN m \in SUBSET D /\ IsFiniteSet(D)
      BY EvmIs
    <3>3. SumFunction(m) = x
      <4> HIDE DEF h, D, m
      <4> QED
        BY <2>1, <3>1, <3>2, SumPadded
    <3> HIDE DEF x, m
    <3> QED
      BY <2>3, <3>3
  <2> QED
    BY <2>2, <2>3
<1> HIDE DEF x, n, m
<1> QED
  BY <1>1, <1>2, <1>5, <1>6, <1>7

-----------------------------------------------------------------------------
(* The ledger of a Solana payload *)

\* What the wallet's keys gained.
Lamports(p) == SumFunction([i \in {j \in DOMAIN AccountKeys(p) : AccountKeys(p)[j] = Wallet} |-> LamportChange(p, i)])

\* The payer's fee is taken out of the value moved and booked on its own.
LEMMA NativeNet ==
    ASSUME NEW p \in Payloads, p.chain = "solana", NEW a
    PROVE  LET r == Extracted(p)
               n == IF a = "SOL" THEN Lamports(p) ELSE 0
           IN /\ SeqNet(NativeMoves(p, r), a) \in Int /\ SeqNet(NativeFees(p, r), a) \in Int
              /\ SeqNet(NativeMoves(p, r), a) + SeqNet(NativeFees(p, r), a) = n
              /\ SeqNet(NativeBalances(r), a) = n /\ n \in Int
<1> DEFINE r == Extracted(p)
           f == NativeMoves(p, r)
           g == NativeFees(p, r)
           w == NativeBalances(r)
           own == OwnDeltas(p, r)
           D == DOMAIN AccountKeys(p)
           q == [i \in {j \in D : AccountKeys(p)[j] = Wallet} |-> LamportChange(p, i)]
           h == [i \in D |-> IF i \in own THEN LamportChange(p, i) ELSE 0]
           v == [i \in D |-> IF i \in own THEN PayerFee(p, r.deltas[i]) ELSE 0]
           h1 == [i \in D |-> IF i \in own THEN LamportChange(p, i) + PayerFee(p, r.deltas[i]) ELSE 0]
           h2 == [i \in D |-> IF i \in own THEN -PayerFee(p, r.deltas[i]) ELSE 0]
<1>1. /\ IsFiniteSet(D) /\ \A i \in D : LamportChange(p, i) \in Int
  BY SolanaDeltasList
<1>2. /\ own = {i \in D : LamportChange(p, i) # 0 /\ AccountKeys(p)[i] = Wallet}
      /\ \A i \in own : /\ r.deltas[i].token = "SOL" /\ r.deltas[i].amt = LamportChange(p, i)
                        /\ PayerFee(p, r.deltas[i]) \in Int
  BY OwnDeltasAre
<1>3. /\ DOMAIN f = own /\ DOMAIN g = own
      /\ \A i \in own : /\ f[i].asset = "SOL" /\ g[i].asset = "SOL"
                        /\ f[i].amt = r.deltas[i].amt + PayerFee(p, r.deltas[i])
                        /\ g[i].amt = -PayerFee(p, r.deltas[i])
  BY NativeEntriesAre
<1>4. DOMAIN w = own /\ \A i \in own : w[i].asset = "SOL" /\ w[i].amt = LamportChange(p, i)
  <2>1. DOMAIN w = {k \in DOMAIN r.deltas : r.deltas[k].account = Wallet}
    BY NativeBalancesAre
  <2>2. own = {k \in DOMAIN r.deltas : r.deltas[k].account = Wallet}
    BY DEF OwnDeltas
  <2>3. \A i \in DOMAIN w : w[i].asset = r.deltas[i].token /\ w[i].amt = r.deltas[i].amt
    BY NativeBalancesAre
  <2> HIDE DEF r, w, own
  <2> QED
    BY <1>2, <2>1, <2>2, <2>3
<1>5. CASE a # "SOL"
  <2> HIDE DEF f, g, w, own, r
  <2>1. IsFiniteSet(own)
    BY <1>1, <1>2, FS_Subset
  <2>2. SeqNet(f, a) = 0 /\ SeqNet(g, a) = 0 /\ SeqNet(w, a) = 0
    BY <1>3, <1>4, <1>5, <2>1, SeqNetNone
  <2> QED
    BY <1>5, <2>2 DEF f, g, w, r
<1>6. CASE a = "SOL"
  <2> HIDE DEF f, g, w, own, r, q
  <2>1. \A i \in own : r.deltas[i].amt = LamportChange(p, i) /\ LamportChange(p, i) \in Int /\ i \in D
    BY <1>1, <1>2
  <2>2. own \in SUBSET D
    BY <1>2
  <2>3. \A i \in D : /\ h1[i] \in Int /\ h2[i] \in Int /\ h[i] \in Int
                     /\ h[i] = h1[i] + h2[i]
    BY <1>1, <1>2
  <2>4. AmountsOf(h1, f, a, D) /\ AmountsOf(h2, g, a, D) /\ AmountsOf(h, w, a, D)
    <3>1. \A i \in D : h1[i] = IF i \in DOMAIN f /\ f[i].asset = a THEN f[i].amt ELSE 0
      BY <1>3, <1>6, <2>1
    <3>2. \A i \in D : h2[i] = IF i \in DOMAIN g /\ g[i].asset = a THEN g[i].amt ELSE 0
      BY <1>3, <1>6
    <3>3. \A i \in D : h[i] = IF i \in DOMAIN w /\ w[i].asset = a THEN w[i].amt ELSE 0
      BY <1>4, <1>6
    <3> HIDE DEF h, h1, h2, D
    <3> QED
      BY <2>3, <3>1, <3>2, <3>3 DEF AmountsOf
  <2>5. \A i \in D : h[i] = IF i \in DOMAIN q THEN q[i] ELSE 0
    BY <1>1, <1>2 DEF q
  <2>6. DOMAIN q \in SUBSET D
    BY DEF q
  <2> HIDE DEF h, h1, h2, D
  <2>7. /\ SeqNet(f, a) = SumFunctionOnSet(h1, D) /\ SeqNet(f, a) \in Int
        /\ SeqNet(g, a) = SumFunctionOnSet(h2, D) /\ SeqNet(g, a) \in Int
        /\ SeqNet(w, a) = SumFunctionOnSet(h, D)
    BY <1>1, <1>3, <1>4, <2>2, <2>4, SeqNetIs
  <2>8. SumFunctionOnSet(h, D) = SumFunctionOnSet(h1, D) + SumFunctionOnSet(h2, D)
    <3>1. IsCount(h1, D) /\ IsCount(h2, D)
      BY <2>3 DEF IsCount
    <3> QED
      BY <1>1, <2>3, <3>1, SumPlus
  <2>9. SumFunction(q) = SumFunctionOnSet(h, D) /\ SumFunction(q) \in Int
    BY <1>1, <2>3, <2>5, <2>6, SumPadded
  <2>10. SumFunction(q) = Lamports(p)
    BY DEF q, D, Lamports
  <2> QED
    BY <1>6, <2>7, <2>8, <2>9, <2>10 DEF f, g, w, r
<1> QED
  BY <1>5, <1>6

-----------------------------------------------------------------------------
(* Token balances *)

Mine(b, a) == b.owner = Wallet /\ Symbol[b.mint] = a

\* The first of the balances with its account, mint and owner.
IsFirst(p, i) == \A j \in 1 .. (i - 1) : TokenKey(TokenEntries(p)[j]) # TokenKey(TokenEntries(p)[i])

\* What the wallet held under a symbol on one side.
WalletHeld(side, a) == SumFunction([i \in {j \in DOMAIN side : Symbol[side[j].mint] = a /\ side[j].owner = Wallet} |-> side[i].amt])

\* A position of a key, or none, is the first.
LEMMA FirstIs ==
    ASSUME NEW p \in Payloads, p.chain = "solana", NEW j \in DOMAIN TokenEntries(p)
    PROVE  \E i \in DOMAIN TokenEntries(p) : /\ IsFirst(p, i)
                                             /\ TokenKey(TokenEntries(p)[i]) = TokenKey(TokenEntries(p)[j])
<1> DEFINE all == TokenEntries(p)
           S == {i \in DOMAIN all : TokenKey(all[i]) = TokenKey(all[j])}
<1>1. \E N \in Nat : DOMAIN all = 1 .. N
  <2>1. DOMAIN all = 1 .. Len(p.tpost) + Len(p.tpre) /\ Len(p.tpost) \in Nat /\ Len(p.tpre) \in Nat
    BY TokenEntriesAre
  <2>2. PICK n \in Nat, m \in Nat : n = Len(p.tpost) /\ m = Len(p.tpre)
    BY <2>1
  <2>3. PICK k \in Nat : k = n + m
    OBVIOUS
  <2>4. 1 .. n + m = 1 .. k
    BY <2>3
  <2>5. DOMAIN all = 1 .. k
    BY <2>1, <2>2, <2>4
  <2> HIDE DEF all
  <2> QED
    BY <2>5
<1>2. S \in SUBSET Nat /\ S # {}
  BY <1>1
<1>3. PICK i \in S : \A k \in S : i <= k
  <2> HIDE DEF S
  <2> QED
    BY <1>2, LeastExists
<1>4. \A k \in 1 .. (i - 1) : k \in DOMAIN all /\ k \notin S
  <2>1. PICK N \in Nat : DOMAIN all = 1 .. N
    BY <1>1
  <2>2. i \in 1 .. N
    BY <2>1, <1>3
  <2>3. \A k \in 1 .. (i - 1) : k \in 1 .. N /\ ~(i <= k)
    BY <2>2
  <2> HIDE DEF S
  <2> QED
    BY <2>1, <1>3, <2>3
<1>5. IsFirst(p, i)
  BY <1>4 DEF IsFirst
<1> QED
  BY <1>3, <1>5

\* ... and there is only one.
LEMMA FirstUnique ==
    ASSUME NEW p \in Payloads, p.chain = "solana",
           NEW i \in DOMAIN TokenEntries(p), NEW j \in DOMAIN TokenEntries(p), IsFirst(p, i), IsFirst(p, j),
           TokenKey(TokenEntries(p)[i]) = TokenKey(TokenEntries(p)[j])
    PROVE  i = j
<1>1. i \in Nat \ {0} /\ j \in Nat \ {0}
  <2>1. DOMAIN TokenEntries(p) = 1 .. Len(p.tpost) + Len(p.tpre) /\ Len(p.tpost) \in Nat /\ Len(p.tpre) \in Nat
    BY TokenEntriesAre
  <2> QED
    BY <2>1
<1>2. ~(i < j)
  BY <1>1 DEF IsFirst
<1>3. ~(j < i)
  BY <1>1 DEF IsFirst
<1> QED
  BY <1>1, <1>2, <1>3

LEMMA Positions ==
    ASSUME NEW n \in Nat, NEW m \in Nat
    PROVE  1 .. n \subseteq 1 .. n + m /\ \A i \in 1 .. m : n + i \in 1 .. n + m
  OBVIOUS

\* What the records of the first of a key carry, on one side.
HeldFirst(p, side, a, i) ==
    IF IsFirst(p, i) /\ Mine(TokenEntries(p)[i], a) THEN Held(side, TokenEntries(p)[i]) ELSE 0

\* After the transaction each key is the first of its own position.
LEMMA HeldAfter ==
    ASSUME NEW p \in Payloads, p.chain = "solana", NEW a,
           NEW h, \A i \in DOMAIN TokenEntries(p) : h[i] = HeldFirst(p, p.tpost, a, i)
    PROVE  /\ IsCount(h, DOMAIN TokenEntries(p))
           /\ WalletHeld(p.tpost, a) = SumFunctionOnSet(h, DOMAIN TokenEntries(p)) /\ WalletHeld(p.tpost, a) \in Int
<1> DEFINE all == TokenEntries(p)
           D == DOMAIN all
           T == {j \in DOMAIN p.tpost : Symbol[p.tpost[j].mint] = a /\ p.tpost[j].owner = Wallet}
           g == [i \in T |-> p.tpost[i].amt]
<1>1. PICK n, m : /\ n \in Nat /\ m \in Nat /\ n = Len(p.tpost) /\ m = Len(p.tpre)
                  /\ D = 1 .. n + m /\ DOMAIN p.tpost = 1 .. n
                  /\ \A i \in 1 .. n : all[i] = p.tpost[i]
  BY TokenEntriesAre
<1>2. /\ p.tpost \in Seq(Balance)
      /\ \A i, j \in DOMAIN p.tpost : p.tpost[i].acct = p.tpost[j].acct => i = j
  BY SolanaIs
<1>3. \A b : /\ Held(p.tpost, b) \in Int
             /\ \A i \in DOMAIN p.tpost : TokenKey(p.tpost[i]) = TokenKey(b) => Held(p.tpost, b) = p.tpost[i].amt
             /\ (\A i \in DOMAIN p.tpost : TokenKey(p.tpost[i]) # TokenKey(b)) => Held(p.tpost, b) = 0
  BY <1>2, HeldIs
<1>4. IsFiniteSet(D)
  BY TokenEntriesAre, DomainFinite
<1>5. \A i \in D : h[i] \in Int
  BY <1>3 DEF HeldFirst
<1>6. \A i \in 1 .. n : i \in D /\ IsFirst(p, i)
  <2> SUFFICES ASSUME NEW i \in 1 .. n PROVE i \in D /\ IsFirst(p, i)
    OBVIOUS
  <2>1. i \in D
    <3>1. 1 .. n \subseteq 1 .. n + m
      BY <1>1, Positions
    <3> HIDE DEF D, all
    <3> QED
      BY <1>1, <3>1
  <2>2. ASSUME NEW j \in 1 .. (i - 1) PROVE TokenKey(all[j]) # TokenKey(all[i])
    <3>1. j \in 1 .. n /\ j # i
      BY <1>1
    <3>2. all[j] = p.tpost[j] /\ all[i] = p.tpost[i] /\ p.tpost[j].acct # p.tpost[i].acct
      BY <1>1, <1>2, <3>1
    <3> QED
      BY <3>2 DEF TokenKey
  <2> QED
    BY <2>1, <2>2 DEF IsFirst
<1>7. ASSUME NEW i \in D PROVE h[i] = IF i \in DOMAIN g THEN g[i] ELSE 0
  <2>1. DOMAIN g = T /\ \A k \in T : g[k] = p.tpost[k].amt
    OBVIOUS
  <2>2. h[i] = IF IsFirst(p, i) /\ Mine(all[i], a) THEN Held(p.tpost, all[i]) ELSE 0
    BY DEF HeldFirst
  <2>3. CASE i \in 1 .. n
    <3>1. IsFirst(p, i) /\ all[i] = p.tpost[i] /\ i \in DOMAIN p.tpost
      BY <1>1, <1>6, <2>3
    <3>2. Held(p.tpost, all[i]) = p.tpost[i].amt
      BY <1>3, <3>1
    <3>3. i \in T <=> Mine(all[i], a)
      BY <3>1 DEF Mine
    <3> HIDE DEF g, T
    <3> QED
      BY <2>1, <2>2, <3>1, <3>2, <3>3
  <2>4. CASE i \notin 1 .. n
    <3>1. i \notin DOMAIN g
      BY <1>1, <2>4
    <3>2. IsFirst(p, i) => Held(p.tpost, all[i]) = 0
      <4>1. SUFFICES ASSUME IsFirst(p, i) PROVE Held(p.tpost, all[i]) = 0
        OBVIOUS
      <4>2. \A k \in 1 .. n : k \in 1 .. (i - 1)
        BY <1>1, <2>4
      <4>3. \A k \in DOMAIN p.tpost : TokenKey(p.tpost[k]) # TokenKey(all[i])
        BY <1>1, <4>1, <4>2 DEF IsFirst
      <4> QED
        BY <1>3, <4>3
    <3> HIDE DEF g, T
    <3> QED
      BY <2>2, <3>1, <3>2
  <2> QED
    BY <2>3, <2>4
<1>8. DOMAIN g \in SUBSET D
  <2>1. DOMAIN g = T /\ T \subseteq DOMAIN p.tpost
    OBVIOUS
  <2>2. 1 .. n \subseteq 1 .. n + m
    BY <1>1, Positions
  <2> HIDE DEF D, all, g, T
  <2> QED
    BY <1>1, <2>1, <2>2
<1>9. WalletHeld(p.tpost, a) = SumFunction(g)
  BY DEF WalletHeld
<1> HIDE DEF g, D, T
<1>10. SumFunction(g) = SumFunctionOnSet(h, D) /\ SumFunction(g) \in Int
  BY <1>4, <1>5, <1>7, <1>8, SumPadded
<1> QED
  BY <1>5, <1>9, <1>10 DEF IsCount, D

\* Before it, the first of a key may be on the other side.
LEMMA HeldBefore ==
    ASSUME NEW p \in Payloads, p.chain = "solana", NEW a,
           NEW h, \A i \in DOMAIN TokenEntries(p) : h[i] = HeldFirst(p, p.tpre, a, i)
    PROVE  /\ IsCount(h, DOMAIN TokenEntries(p))
           /\ WalletHeld(p.tpre, a) = SumFunctionOnSet(h, DOMAIN TokenEntries(p)) /\ WalletHeld(p.tpre, a) \in Int
<1> DEFINE all == TokenEntries(p)
           D == DOMAIN all
           E == DOMAIN p.tpre
           T == {j \in E : Symbol[p.tpre[j].mint] = a /\ p.tpre[j].owner = Wallet}
           g == [i \in T |-> p.tpre[i].amt]
           b == [j \in T |-> CHOOSE i \in D : IsFirst(p, i) /\ TokenKey(all[i]) = TokenKey(p.tpre[j])]
           R == ImageOf(b, T)
<1>1. PICK n, m : /\ n \in Nat /\ m \in Nat /\ n = Len(p.tpost) /\ m = Len(p.tpre)
                  /\ D = 1 .. n + m /\ E = 1 .. m
                  /\ \A i \in 1 .. m : all[n + i] = p.tpre[i]
  <2>1. PICK n, m : n = Len(p.tpost) /\ m = Len(p.tpre)
    OBVIOUS
  <2>2. /\ n \in Nat /\ m \in Nat /\ D = 1 .. n + m /\ E = 1 .. m
        /\ \A i \in 1 .. m : all[n + i] = p.tpre[i]
    BY <2>1, TokenEntriesAre
  <2> HIDE DEF D, E, all
  <2> QED
    BY <2>1, <2>2
<1>2. /\ p.tpre \in Seq(Balance)
      /\ \A i, j \in E : p.tpre[i].acct = p.tpre[j].acct => i = j
  BY SolanaIs
<1>3. \A x : /\ Held(p.tpre, x) \in Int
             /\ \A i \in E : TokenKey(p.tpre[i]) = TokenKey(x) => Held(p.tpre, x) = p.tpre[i].amt
             /\ (\A i \in E : TokenKey(p.tpre[i]) # TokenKey(x)) => Held(p.tpre, x) = 0
  BY <1>2, HeldIs
<1>4. IsFiniteSet(D) /\ IsFiniteSet(E)
  <2>1. all \in Seq(Balance)
    BY TokenEntriesAre
  <2> QED
    BY <1>2, <2>1, DomainFinite
<1>5. \A i \in D : h[i] \in Int
  BY <1>3 DEF HeldFirst
<1>6. ASSUME NEW j \in E PROVE \E i \in D : IsFirst(p, i) /\ TokenKey(all[i]) = TokenKey(p.tpre[j])
  <2>1. n + j \in D /\ all[n + j] = p.tpre[j]
    <3>1. \A i \in 1 .. m : n + i \in 1 .. n + m
      BY <1>1, Positions
    <3> HIDE DEF D, E, all
    <3> QED
      BY <1>1, <3>1
  <2> QED
    BY <2>1, FirstIs
<1>7. \A j \in T : b[j] \in D /\ IsFirst(p, b[j]) /\ TokenKey(all[b[j]]) = TokenKey(p.tpre[j])
  BY <1>6
<1>8. T \in SUBSET E /\ DOMAIN g = T /\ \A j \in T : g[j] = p.tpre[j].amt
  OBVIOUS
<1>9. \A x, y : TokenKey(x) = TokenKey(y) => (Mine(x, a) <=> Mine(y, a))
  <2> SUFFICES ASSUME NEW x, NEW y, TokenKey(x) = TokenKey(y) PROVE Mine(x, a) <=> Mine(y, a)
    OBVIOUS
  <2>1. x.mint = y.mint /\ x.owner = y.owner
    BY DEF TokenKey
  <2> QED
    BY <2>1 DEF Mine
<1>10. \A j \in E : j \in T <=> Mine(p.tpre[j], a)
  BY DEF Mine
<1>11. \A i \in D : h[i] = IF IsFirst(p, i) /\ Mine(all[i], a) THEN Held(p.tpre, all[i]) ELSE 0
  BY DEF HeldFirst
<1> HIDE DEF g, T, b, D, E
<1>12. OneToOne(b, T)
  <2> SUFFICES ASSUME NEW x \in T, NEW y \in T, b[x] = b[y] PROVE x = y
    BY DEF OneToOne
  <2>1. TokenKey(p.tpre[x]) = TokenKey(p.tpre[y]) /\ x \in E /\ y \in E
    BY <1>7, <1>8
  <2>2. p.tpre[x].acct = p.tpre[y].acct
    BY <2>1 DEF TokenKey
  <2> QED
    BY <1>2, <2>1, <2>2
<1>13. Carried(h, b, g, T)
  <2> SUFFICES ASSUME NEW j \in T PROVE h[b[j]] = g[j]
    BY DEF Carried
  <2>1. b[j] \in D /\ IsFirst(p, b[j]) /\ TokenKey(all[b[j]]) = TokenKey(p.tpre[j]) /\ j \in E
    BY <1>7, <1>8
  <2>2. Mine(all[b[j]], a)
    BY <1>9, <1>10, <2>1
  <2>3. Held(p.tpre, all[b[j]]) = p.tpre[j].amt
    BY <1>3, <2>1
  <2> QED
    BY <1>8, <1>11, <2>1, <2>2, <2>3
<1>14. IsFiniteSet(T) /\ IsCount(g, T)
  <2>1. \A j \in T : p.tpre[j].amt \in Int
    <3> SUFFICES ASSUME NEW j \in T PROVE p.tpre[j].amt \in Int
      OBVIOUS
    <3>1. Held(p.tpre, p.tpre[j]) \in Int /\ Held(p.tpre, p.tpre[j]) = p.tpre[j].amt
      BY <1>3, <1>8
    <3> QED
      BY <3>1
  <2> QED
    BY <1>4, <1>8, <2>1, FS_Subset DEF IsCount
<1>15. SumFunctionOnSet(h, R) = SumFunctionOnSet(g, T)
  BY <1>12, <1>13, <1>14, SumReindex
<1>16. R \in SUBSET D
  BY <1>7 DEF ImageOf
<1>17. ASSUME NEW i \in D \ R PROVE h[i] = 0
  <2>1. SUFFICES ASSUME IsFirst(p, i), Mine(all[i], a) PROVE Held(p.tpre, all[i]) = 0
    BY <1>11
  <2>2. ASSUME NEW j \in E, TokenKey(p.tpre[j]) = TokenKey(all[i]) PROVE FALSE
    <3>1. j \in T
      BY <1>9, <1>10, <2>1, <2>2
    <3>2. b[j] \in D /\ IsFirst(p, b[j]) /\ TokenKey(all[b[j]]) = TokenKey(all[i])
      BY <1>7, <2>2, <3>1
    <3>3. b[j] = i
      BY <2>1, <3>2, FirstUnique DEF D
    <3> QED
      BY <3>1, <3>3 DEF ImageOf
  <2> QED
    BY <1>3, <2>2
<1> HIDE DEF R
<1>18. IsCount(h, D)
  BY <1>5 DEF IsCount
<1>19. SumFunctionOnSet(h, D) = SumFunctionOnSet(h, R)
  BY <1>4, <1>16, <1>17, <1>18, SumSkip
<1>20. SumFunction(g) = SumFunctionOnSet(g, T) /\ SumFunction(g) \in Int
  BY <1>8, <1>14, SumGiven
<1>21. WalletHeld(p.tpre, a) = SumFunction(g)
  BY DEF WalletHeld, g, T, E
<1> QED
  BY <1>15, <1>18, <1>19, <1>20, <1>21 DEF D

\* What the first of a key gained, if it is the wallet's.
Gained(p, a, i) ==
    IF IsFirst(p, i) /\ Mine(TokenEntries(p)[i], a) THEN Change(p, TokenEntries(p)[i]) ELSE 0

LEMMA GainedNet ==
    ASSUME NEW p \in Payloads, p.chain = "solana", NEW a,
           NEW h, \A i \in DOMAIN TokenEntries(p) : h[i] = Gained(p, a, i)
    PROVE  /\ IsCount(h, DOMAIN TokenEntries(p)) /\ IsFiniteSet(DOMAIN TokenEntries(p))
           /\ SumFunctionOnSet(h, DOMAIN TokenEntries(p)) = WalletHeld(p.tpost, a) - WalletHeld(p.tpre, a)
           /\ WalletHeld(p.tpost, a) \in Int /\ WalletHeld(p.tpre, a) \in Int
<1> DEFINE D == DOMAIN TokenEntries(p)
           u == [i \in D |-> HeldFirst(p, p.tpost, a, i)]
           v == [i \in D |-> HeldFirst(p, p.tpre, a, i)]
<1>1. \A i \in D : u[i] = HeldFirst(p, p.tpost, a, i) /\ v[i] = HeldFirst(p, p.tpre, a, i)
  OBVIOUS
<1>2. IsFiniteSet(D)
  BY TokenEntriesAre, DomainFinite
<1>3. \A i \in D : h[i] \in Int /\ v[i] \in Int /\ u[i] = h[i] + v[i]
  <2> SUFFICES ASSUME NEW i \in D PROVE h[i] \in Int /\ v[i] \in Int /\ u[i] = h[i] + v[i]
    OBVIOUS
  <2>1. PICK b : b = TokenEntries(p)[i]
    OBVIOUS
  <2>2. /\ Change(p, b) = Held(p.tpost, b) - Held(p.tpre, b)
        /\ Held(p.tpost, b) \in Int /\ Held(p.tpre, b) \in Int
    BY ChangeType DEF Change
  <2>3. CASE IsFirst(p, i) /\ Mine(b, a)
    <3>1. h[i] = Change(p, b) /\ u[i] = Held(p.tpost, b) /\ v[i] = Held(p.tpre, b)
      BY <1>1, <2>1, <2>3 DEF Gained, HeldFirst
    <3> HIDE DEF u, v
    <3> QED
      BY <2>2, <3>1
  <2>4. CASE ~(IsFirst(p, i) /\ Mine(b, a))
    <3>1. h[i] = 0 /\ u[i] = 0 /\ v[i] = 0
      BY <1>1, <2>1, <2>4 DEF Gained, HeldFirst
    <3> HIDE DEF u, v
    <3> QED
      BY <3>1
  <2> QED
    BY <2>3, <2>4
<1> HIDE DEF u, v
<1>4. WalletHeld(p.tpost, a) = SumFunctionOnSet(u, D) /\ WalletHeld(p.tpost, a) \in Int
  BY <1>1, HeldAfter
<1>5. IsCount(v, D) /\ WalletHeld(p.tpre, a) = SumFunctionOnSet(v, D) /\ WalletHeld(p.tpre, a) \in Int
  BY <1>1, HeldBefore
<1>6. IsCount(h, D)
  BY <1>3 DEF IsCount
<1> HIDE DEF D
<1>7. SumFunctionOnSet(u, D) = SumFunctionOnSet(h, D) + SumFunctionOnSet(v, D)
  BY <1>2, <1>3, <1>5, <1>6, SumPlus
<1>8. SumFunctionOnSet(h, D) \in Int
  BY <1>2, <1>6, SumType
<1> QED
  BY <1>2, <1>4, <1>5, <1>6, <1>7, <1>8 DEF D

\* The transfers of a transaction that did not fail, and those that are left out.
LEMMA SolanaTransfersNet ==
    ASSUME NEW p \in Payloads, p.chain = "solana", NEW a
    PROVE  LET r == Extracted(p)
               n == WalletHeld(p.tpost, a) - WalletHeld(p.tpre, a)
           IN SeqNet(TransferEntries(r), a) = n /\ SeqNet(TransferBalances(r), a) = n /\ n \in Int
<1> DEFINE r == Extracted(p)
           ts == r.transfers
           f == TransferEntries(r)
           g == TransferBalances(r)
           all == TokenEntries(p)
           D == DOMAIN all
           h == [i \in D |-> Gained(p, a, i)]
<1>1. ts = SolanaTransfers(p)
  BY ExtractedIs
<1>2. /\ DOMAIN f = {k \in DOMAIN ts : Sides(ts[k])}
      /\ \A i \in DOMAIN f : f[i].asset = ts[i].symbol /\ f[i].amt = Mul(ts[i].to = Wallet, ts[i].amt)
  BY TransferEntriesAre
<1>3. /\ DOMAIN g = {k \in DOMAIN ts : ts[k].known /\ Wallet \in {ts[k].from, ts[k].to}}
      /\ \A i \in DOMAIN g : g[i].asset = ts[i].symbol /\ g[i].amt = IF ts[i].from = ts[i].to THEN 0
                                                   ELSE Mul(ts[i].to = Wallet, ts[i].amt)
  BY TransferBalancesAre
<1>4. \A i \in D : h[i] = Gained(p, a, i)
  OBVIOUS
<1> HIDE DEF r, ts, f, g, h
<1>5. /\ IsCount(h, D) /\ IsFiniteSet(D)
      /\ SumFunctionOnSet(h, D) = WalletHeld(p.tpost, a) - WalletHeld(p.tpre, a)
      /\ WalletHeld(p.tpost, a) \in Int /\ WalletHeld(p.tpre, a) \in Int
  BY <1>4, GainedNet
<1>6. CASE p.failed
  <2>1. DOMAIN ts = {}
    BY <1>1, <1>6 DEF SolanaTransfers
  <2>2. DOMAIN f = {} /\ DOMAIN g = {}
    BY <1>2, <1>3, <2>1
  <2>3. SeqNet(f, a) = 0 /\ SeqNet(g, a) = 0
    BY <2>2, NetOfNothing
  <2>4. WalletHeld(p.tpost, a) = WalletHeld(p.tpre, a)
    <3>1. p.tpost = p.tpre
      BY <1>6, SolanaIs
    <3> QED
      BY <3>1
  <2> QED
    BY <1>5, <2>3, <2>4 DEF f, g, r
<1>7. CASE ~p.failed
  <2>1. DOMAIN ts = Moved(p)
    BY <1>1, <1>7 DEF SolanaTransfers
  <2>2. Moved(p) = {i \in D : all[i].owner # "none" /\ Change(p, all[i]) # 0 /\ IsFirst(p, i)}
    BY DEF Moved, IsFirst
  <2>3. Wallet \notin {"none", "unknown"}
    BY PayloadsAssumption
  <2>4. ASSUME NEW i \in D
        PROVE  /\ h[i] = IF i \in DOMAIN f /\ f[i].asset = a THEN f[i].amt ELSE 0
               /\ h[i] = IF i \in DOMAIN g /\ g[i].asset = a THEN g[i].amt ELSE 0
    <3>1. PICK b, c : b = all[i] /\ c = Change(p, b)
      OBVIOUS
    <3>2. h[i] = (IF IsFirst(p, i) /\ b.owner = Wallet /\ Symbol[b.mint] = a THEN c ELSE 0) /\ c \in Int
      BY <1>4, <3>1, ChangeType DEF Gained, Mine
    <3>3. CASE i \notin DOMAIN ts
      <4>1. b.owner = "none" \/ c = 0 \/ ~IsFirst(p, i)
        BY <2>1, <2>2, <3>1, <3>3
      <4>2. i \notin DOMAIN f /\ i \notin DOMAIN g
        BY <1>2, <1>3, <3>3
      <4> QED
        BY <2>3, <3>2, <4>1, <4>2
    <3>4. CASE i \in DOMAIN ts
      <4>1. PICK t : t = ts[i]
        OBVIOUS
      <4>2. /\ t.symbol = Symbol[b.mint] /\ t.known = TRUE
            /\ \/ c > 0 /\ t.from = "unknown" /\ t.to = b.owner /\ t.amt = c
               \/ c < 0 /\ t.from = b.owner /\ t.to = "unknown" /\ t.amt = -c
        BY <1>1, <3>1, <3>4, <4>1, TransferIs
      <4>3. IsFirst(p, i)
        BY <2>1, <2>2, <3>4
      <4>4. /\ i \in DOMAIN f <=> b.owner = Wallet
            /\ i \in DOMAIN g <=> b.owner = Wallet
        BY <1>2, <1>3, <2>3, <3>4, <4>1, <4>2 DEF Sides
      <4>5. ASSUME b.owner = Wallet PROVE /\ Mul(t.to = Wallet, t.amt) = c /\ t.from # t.to
        BY <2>3, <3>2, <4>2, <4>5 DEF Mul
      <4>6. b.owner = Wallet => /\ f[i].asset = Symbol[b.mint] /\ f[i].amt = c
                                /\ g[i].asset = Symbol[b.mint] /\ g[i].amt = c
        BY <1>2, <1>3, <4>1, <4>2, <4>4, <4>5
      <4> QED
        BY <3>2, <4>3, <4>4, <4>6
    <3> QED
      BY <3>3, <3>4
  <2>5. DOMAIN f \in SUBSET D /\ DOMAIN g \in SUBSET D
    BY <1>2, <1>3, <2>1, <2>2
  <2> HIDE DEF D
  <2>6. AmountsOf(h, f, a, D) /\ AmountsOf(h, g, a, D)
    BY <1>5, <2>4 DEF AmountsOf, IsCount
  <2>7. SeqNet(f, a) = SumFunctionOnSet(h, D) /\ SeqNet(g, a) = SumFunctionOnSet(h, D)
    BY <1>5, <2>5, <2>6, SeqNetIs
  <2> QED
    BY <1>5, <2>7 DEF f, g, r
<1> QED
  BY <1>6, <1>7

LEMMA SolanaLedger ==
    ASSUME NEW p \in Payloads, p.chain = "solana", NEW a \in Assets
    PROVE  NetOf(Written(LedgerRecords(p, Extracted(p))), a) = NetChange(p, a)
<1> DEFINE r == Extracted(p)
           n == IF a = "SOL" THEN Lamports(p) ELSE 0
           x == WalletHeld(p.tpost, a) - WalletHeld(p.tpre, a)
<1>1. PICK y, z : y = SeqNet(NativeMoves(p, r), a) /\ z = SeqNet(NativeFees(p, r), a)
  OBVIOUS
<1>2. y \in Int /\ z \in Int /\ y + z = n /\ n \in Int
  BY <1>1, NativeNet
<1>3. SeqNet(TransferEntries(r), a) = x /\ x \in Int
  BY SolanaTransfersNet
<1>4. ~HasFlows(p) /\ p.chain # "hyperliquid"
  BY DEF HasFlows
<1>5. /\ SeqNet(FillTrades(r), a) = 0 /\ SeqNet(FillFees(r), a) = 0 /\ SeqNet(FillIncome(r), a) = 0
      /\ SeqNet(FundingEntries(r), a) = 0 /\ SeqNet(FlowEntries(p), a) = 0
  BY <1>4, NoFills, NoFlows
<1>6. PICK e : e = NetOf(Written(LedgerRecords(p, r)), a)
  OBVIOUS
<1>7. e = SeqNet(TransferEntries(r), a) + SeqNet(NativeMoves(p, r), a)
            + SeqNet(NativeFees(p, r), a) + SeqNet(FillTrades(r), a)
            + SeqNet(FillFees(r), a) + SeqNet(FillIncome(r), a)
            + SeqNet(FundingEntries(r), a) + SeqNet(FlowEntries(p), a)
  BY <1>6, LedgerRecordsAddUp
<1> HIDE DEF n, x, r
<1>8. e = x + y + z + 0 + 0 + 0 + 0 + 0
  BY <1>1, <1>3, <1>5, <1>7
<1>9. e = x + n
  BY <1>2, <1>3, <1>8
<1>10. NetChange(p, a) = SolanaChange(p, a)
  BY DEF NetChange
<1>11. SolanaChange(p, a) = n + x
  BY DEF SolanaChange, Lamports, WalletHeld, n, x
<1> QED
  BY <1>2, <1>3, <1>6, <1>9, <1>10, <1>11 DEF r

\* The gold ledger of a valid payload, as it is written, adds up to what the payload did.
LEMMA LedgerNet ==
    ASSUME NEW p \in Payloads, ValidImport(p), NEW a \in Assets
    PROVE  NetOf(Written(LedgerRecords(p, Extracted(p))), a) = NetChange(p, a)
  BY PayloadIs, SolanaLedger, EvmLedger, HlLedger

-----------------------------------------------------------------------------
(* The balance history follows the ledger *)

LEMMA HlBalances ==
    ASSUME NEW p \in Payloads, p.chain = "hyperliquid", ValidImport(p), UsdcFee(p),
           NEW a \in Assets, ~Position(p, a)
    PROVE  NetOf(Written(BalanceEvents(p, Extracted(p))), a) = NetChange(p, a)
<1> DEFINE r == Extracted(p)
           w == NativeBalances(r)
<1>1. ~HasFlows(p)
  BY DEF HasFlows
<1>2. SeqNet(FlowBalances(p), a) = 0
  BY <1>1, NoFlows
<1>3. PICK e, x, y : /\ e = NetOf(Written(BalanceEvents(p, r)), a)
                     /\ x = SeqNet(TransferBalances(r), a) /\ y = SeqNet(w, a)
  OBVIOUS
<1>4. e = x + y + 0
  BY <1>2, <1>3, BalanceRecordsAddUp
<1>5. r.transfers = HlTransfers(p) /\ r.deltas = HlDeltas(p)
  BY ExtractedIs
<1>6. /\ p.sz.n \in Int /\ p.pnl.n \in Int /\ p.fee.n \in Int /\ p.usdc.n \in Int
      /\ p.type \in {"fill", "funding", "deposit", "withdraw", "liquidation", "funding_rate"}
  BY HyperliquidIs
<1>7. /\ IsEntries(w, "native") /\ DOMAIN w = {k \in DOMAIN r.deltas : r.deltas[k].account = Wallet}
      /\ \A i \in DOMAIN w : w[i].asset = r.deltas[i].token /\ w[i].amt = r.deltas[i].amt
  BY NativeBalancesAre
<1> DEFINE ok == \/ p.type = "fill" /\ Parses(p.pnl) /\ Parses(p.fee)
                 \/ p.type = "funding" /\ Parses(p.usdc)
<1>8. /\ Settlement(p) \in Int
      /\ DOMAIN HlDeltas(p) = IF ok /\ Settlement(p) # 0 THEN {1} ELSE {}
      /\ \A i \in DOMAIN HlDeltas(p) : /\ HlDeltas(p)[i].account = Wallet /\ HlDeltas(p)[i].token = "USDC"
                                       /\ HlDeltas(p)[i].amt = Settlement(p)
  BY HlDeltaIs
<1> HIDE DEF r, w
<1>9. y = IF a = "USDC" /\ ok THEN Settlement(p) ELSE 0
  <2>1. /\ DOMAIN w = IF ok /\ Settlement(p) # 0 THEN {1} ELSE {}
        /\ \A i \in DOMAIN w : w[i].asset = "USDC" /\ w[i].amt = Settlement(p)
    BY <1>5, <1>7, <1>8
  <2>2. DOMAIN w \in SUBSET {1}
    BY <2>1
  <2>3. y = (IF 1 \in DOMAIN w /\ w[1].asset = a THEN w[1].amt ELSE 0)
    BY <1>3, <1>7, <2>2, NetOfOne
  <2>4. CASE ok /\ Settlement(p) # 0
    BY <2>1, <2>3, <2>4
  <2>5. CASE ~(ok /\ Settlement(p) # 0)
    BY <1>8, <2>1, <2>3, <2>5
  <2> QED
    BY <2>4, <2>5
<1>10. p.type \notin {"deposit", "withdraw"} => x = 0
  <2>1. SUFFICES ASSUME p.type \notin {"deposit", "withdraw"} PROVE x = 0
    OBVIOUS
  <2>2. DOMAIN r.transfers = {}
    BY <1>5, <2>1, HlRowsAre
  <2>3. DOMAIN TransferBalances(r) = {}
    BY <2>2, TransferBalancesAre DEF r
  <2> QED
    BY <1>3, <2>3, NetOfNothing
<1>11. NetChange(p, a) = HlChange(p, a)
  BY DEF NetChange
<1>12. CASE p.type = "fill"
  <2>1. ok /\ Settlement(p) = p.pnl.n - p.fee.n /\ FeeAsset(p) = "USDC" /\ a # p.coin
    BY <1>12 DEF ValidImport, Settlement, UsdcFee, Position
  <2>2. HlChange(p, a) = (IF a = p.coin THEN Mul(p.side = "B", p.sz.n) ELSE 0)
                         + (IF a = "USDC" THEN p.pnl.n ELSE 0) - (IF a = FeeAsset(p) THEN p.fee.n ELSE 0)
    BY <1>12 DEF HlChange
  <2>3. HlChange(p, a) = IF a = "USDC" THEN p.pnl.n - p.fee.n ELSE 0
    BY <1>6, <2>1, <2>2
  <2> QED
    BY <1>3, <1>4, <1>6, <1>9, <1>10, <1>11, <1>12, <2>1, <2>3 DEF r
<1>13. CASE p.type = "funding"
  <2>1. ok /\ Settlement(p) = p.usdc.n
    BY <1>13 DEF ValidImport, Settlement, Parses
  <2>2. HlChange(p, a) = IF a = "USDC" THEN p.usdc.n ELSE 0
    BY <1>13 DEF HlChange
  <2> QED
    BY <1>3, <1>4, <1>6, <1>9, <1>10, <1>11, <1>13, <2>1, <2>2 DEF r
<1>14. CASE p.type \in {"deposit", "withdraw"}
  <2>1. Parses(p.usdc)
    BY <1>14 DEF ValidImport, Parses
  <2>2. x = (IF a = "USDC" THEN PaidIn(p) ELSE 0) /\ x \in Int
    BY <1>3, <2>1, HlTransfersNet DEF r
  <2>3. HlChange(p, a) = IF a = "USDC" THEN PaidIn(p) ELSE 0
    <3>1. CASE p.type = "deposit"
      BY <3>1 DEF HlChange, PaidIn
    <3>2. CASE p.type = "withdraw"
      BY <3>2 DEF HlChange, PaidIn
    <3> QED
      BY <1>14, <3>1, <3>2
  <2>4. y = 0
    BY <1>9, <1>14
  <2> QED
    BY <1>3, <1>4, <1>11, <2>2, <2>3, <2>4 DEF r
<1>15. CASE p.type \in {"liquidation", "funding_rate"}
  <2>1. HlChange(p, a) = 0 /\ x = 0 /\ y = 0
    BY <1>9, <1>10, <1>15 DEF HlChange
  <2> QED
    BY <1>3, <1>4, <1>11, <2>1 DEF r
<1> QED
  BY <1>6, <1>12, <1>13, <1>14, <1>15

LEMMA NoNativeBalances ==
    ASSUME NEW p \in Payloads, p.chain = "evm", NEW a
    PROVE  SeqNet(NativeBalances(Extracted(p)), a) = 0
<1>1. Extracted(p).deltas = <<>>
  BY ExtractedIs
<1>2. DOMAIN NativeBalances(Extracted(p)) = {}
  <2>1. DOMAIN Extracted(p).deltas = {}
    BY <1>1
  <2>2. DOMAIN NativeBalances(Extracted(p))
        = {k \in DOMAIN Extracted(p).deltas : Extracted(p).deltas[k].account = Wallet}
    BY NativeBalancesAre
  <2> QED
    BY <2>1, <2>2
<1> QED
  BY <1>2, NetOfNothing

\* Both books of a Solana or an EVM payload have the same parts.
LEMMA SamePartsNet ==
    ASSUME NEW p \in Payloads, p.chain # "hyperliquid", ValidImport(p), NEW a
    PROVE  LET r == Extracted(p)
           IN NetOf(Written(BalanceEvents(p, r)), a) = NetOf(Written(LedgerRecords(p, r)), a)
<1> DEFINE r == Extracted(p)
<1>1. PICK e, l, x, y, z, u, v, w : /\ e = NetOf(Written(BalanceEvents(p, r)), a)
                                    /\ l = NetOf(Written(LedgerRecords(p, r)), a)
                                    /\ x = SeqNet(TransferBalances(r), a) /\ y = SeqNet(NativeBalances(r), a)
                                    /\ z = SeqNet(FlowBalances(p), a) /\ u = SeqNet(NativeMoves(p, r), a)
                                    /\ v = SeqNet(NativeFees(p, r), a) /\ w = SeqNet(TransferEntries(r), a)
  OBVIOUS
<1>2. e = x + y + z
  BY <1>1, BalanceRecordsAddUp
<1>3. /\ SeqNet(FillTrades(r), a) = 0 /\ SeqNet(FillFees(r), a) = 0 /\ SeqNet(FillIncome(r), a) = 0
      /\ SeqNet(FundingEntries(r), a) = 0
  BY NoFills
<1>4. l = w + u + v + 0 + 0 + 0 + 0 + SeqNet(FlowEntries(p), a)
  BY <1>1, <1>3, LedgerRecordsAddUp
<1>5. p.chain \in {"solana", "evm"}
  BY PayloadIs
<1>6. CASE p.chain = "solana"
  <2>1. ~HasFlows(p)
    BY <1>6 DEF HasFlows
  <2>2. z = 0 /\ SeqNet(FlowEntries(p), a) = 0
    BY <1>1, <2>1, NoFlows
  <2>3. w = x /\ x \in Int
    BY <1>1, <1>6, SolanaTransfersNet
  <2>4. u \in Int /\ v \in Int /\ u + v = y /\ y \in Int
    BY <1>1, <1>6, NativeNet
  <2> HIDE DEF r
  <2>5. e = l
    BY <1>2, <1>4, <2>2, <2>3, <2>4
  <2> QED
    BY <1>1, <2>5 DEF r
<1>7. CASE p.chain = "evm"
  <2> DEFINE h == [i \in DOMAIN p.logs |-> LogMoves(p, a, i)]
  <2>1. \A i \in DOMAIN p.logs : h[i] = LogMoves(p, a, i)
    OBVIOUS
  <2> HIDE DEF h
  <2>2. x = w /\ x \in Int
    BY <1>1, <1>7, <2>1, EvmTransfersNet
  <2>3. PICK n \in Int : SeqNet(FlowEntries(p), a) = n /\ z = n
    BY <1>1, <1>7, FlowsNet
  <2>4. y = 0
    BY <1>1, <1>7, NoNativeBalances
  <2>5. u = 0 /\ v = 0
    BY <1>1, <1>7, NoNative
  <2> HIDE DEF r
  <2>6. e = l
    BY <1>2, <1>4, <2>2, <2>3, <2>4, <2>5
  <2> QED
    BY <1>1, <2>6 DEF r
<1> QED
  BY <1>5, <1>6, <1>7

LEMMA BalancesNet ==
    ASSUME NEW p \in Payloads, ValidImport(p), UsdcFee(p), NEW a \in Assets, ~Position(p, a)
    PROVE  NetOf(Written(BalanceEvents(p, Extracted(p))), a)
           = NetOf(Written(LedgerRecords(p, Extracted(p))), a)
<1>1. CASE p.chain = "hyperliquid"
  BY <1>1, HlBalances, HlLedger
<1>2. CASE p.chain # "hyperliquid"
  BY <1>2, SamePartsNet
<1> QED
  BY <1>1, <1>2

-----------------------------------------------------------------------------
(* The entries of V1 *)

\* Listing values again gives a sequence of them.
LEMMA InOrderIn ==
    ASSUME NEW S, NEW f, DOMAIN f \in SUBSET Int, IsFiniteSet(DOMAIN f), \A i \in DOMAIN f : f[i] \in S
    PROVE  InOrder(f) \in Seq(S)
<1> DEFINE R == DOMAIN f
           L == {x \in Int \X Int : x[1] < x[2]}
           at == [k \in 1 .. Cardinality(R) |-> CHOOSE i \in R : Cardinality({j \in R : j < i}) = k - 1]
<1>1. \A i, j \in Int : <<i, j>> \in L <=> i < j
  OBVIOUS
<1> HIDE DEF L
<1>2. IsOrder(R, L)
  BY <1>1 DEF IsOrder
<1>3. \A i \in R : RankIn(R, L, i) = Cardinality({j \in R : j < i})
  <2> SUFFICES ASSUME NEW i \in R PROVE RankIn(R, L, i) = Cardinality({j \in R : j < i})
    OBVIOUS
  <2>1. {j \in R : <<j, i>> \in L} = {j \in R : j < i}
    BY <1>1
  <2> QED
    BY <2>1 DEF RankIn
<1>4. Cardinality(R) \in Nat
  BY FS_CardinalityType
<1>5. ASSUME NEW k \in 1 .. Cardinality(R) PROVE at[k] \in R
  <2>1. k - 1 \in 0 .. Cardinality(R) - 1
    BY <1>4
  <2>2. PICK i \in R : RankIn(R, L, i) = k - 1
    BY <1>2, <2>1, RankInExists
  <2>3. \E j \in R : Cardinality({l \in R : l < j}) = k - 1
    BY <1>3, <2>2
  <2> QED
    BY <2>3
<1>6. PICK n \in Nat : n = Cardinality(R)
  BY <1>4
<1>7. InOrder(f) = [k \in 1 .. n |-> f[at[k]]]
  BY <1>6 DEF InOrder
<1>8. \A k \in 1 .. n : f[at[k]] \in S
  BY <1>5, <1>6
<1> HIDE DEF at
<1> QED
  BY <1>7, <1>8

LEMMA ListedIn ==
    ASSUME NEW S, NEW s \in Seq(S)
    PROVE  InOrder(NonZero(s)) \in Seq(S)
<1> DEFINE f == NonZero(s)
<1>1. DOMAIN f \in SUBSET DOMAIN s /\ \A i \in DOMAIN f : f[i] = s[i]
  BY DEF NonZero, Restrict
<1>2. \A i \in DOMAIN s : s[i] \in S
  OBVIOUS
<1> HIDE DEF f
<1>3. IsFiniteSet(DOMAIN f) /\ DOMAIN f \in SUBSET Int
  BY <1>1, DomainFinite
<1>4. \A i \in DOMAIN f : f[i] \in S
  BY <1>1, <1>2
<1>5. InOrder(f) \in Seq(S)
  BY <1>3, <1>4, InOrderIn
<1> QED
  BY <1>5 DEF f

V1Entries == [asset : Assets, amt : Int, type : {"fee", "transfer", "trade", "income"}]

LEMMA OneIn == ASSUME NEW S, NEW e \in S PROVE <<e>> \in Seq(S)
  OBVIOUS

LEMMA V1In ==
    ASSUME NEW a \in Assets, NEW n \in Int, NEW t \in {"fee", "transfer", "trade", "income"}
    PROVE  V1(a, n, t) \in V1Entries /\ <<V1(a, n, t)>> \in Seq(V1Entries)
<1>1. V1(a, n, t) \in V1Entries
  BY DEF V1, V1Entries
<1> QED
  BY <1>1, OneIn

LEMMA TwoIn ==
    ASSUME NEW S, NEW s \in Seq(S), NEW t \in Seq(S)
    PROVE  s \o t \in Seq(S)
  OBVIOUS

LEMMA NoneIn == \A S : <<>> \in Seq(S)
  OBVIOUS

LEMMA SolanaEntriesIn ==
    ASSUME NEW p \in Payloads, p.chain = "solana"
    PROVE  ParseSolana(p) \in Seq(V1Entries)
<1> DEFINE at == {i \in DOMAIN p.keys : p.keys[i] = Wallet}
           idx == Min(at)
           fee == IF idx = 1 THEN <<V1("SOL", -p.fee, "fee")>> ELSE <<>>
           moved == IF p.failed THEN <<>>
                    ELSE <<V1("SOL", LamportChange(p, idx) + (IF idx = 1 THEN p.fee ELSE 0), "transfer")>>
           sol == IF at = {} \/ ~p.parsed THEN <<>> ELSE fee \o moved
           Before(b) == LET same == {i \in DOMAIN p.tpre : p.tpre[i].acct = b.acct}
                        IN IF same = {} THEN 0 ELSE p.tpre[Min(same)].amt
           own == [i \in {k \in DOMAIN p.tpost : p.tpost[k].owner = Wallet} |->
                     V1(Symbol[p.tpost[i].mint], p.tpost[i].amt - Before(p.tpost[i]), "transfer")]
           spl == InOrder(own)
           all == sol \o (IF p.failed THEN <<>> ELSE spl)
<1>1. /\ p.tpost \in Seq(Balance) /\ p.tpre \in Seq(Balance) /\ p.fee \in Int
  BY SolanaIs
<1>2. "SOL" \in Assets
  BY PayloadsAssumption
<1>3. LamportChange(p, idx) \in Int
  <2>1. PICK i : i = idx
    OBVIOUS
  <2>2. p.pre \in Seq(Int) /\ p.post \in Seq(Int)
    BY PayloadIs DEF SolanaOK
  <2>3. LamportChange(p, i) \in Int
    BY <2>2 DEF LamportChange
  <2> QED
    BY <2>1, <2>3
<1>4. ASSUME NEW b PROVE Before(b) \in Int
  <2> DEFINE same == {i \in DOMAIN p.tpre : p.tpre[i].acct = b.acct}
  <2>1. same \in SUBSET Nat /\ same \in SUBSET DOMAIN p.tpre
    BY <1>1
  <2>2. \A i \in DOMAIN p.tpre : p.tpre[i].amt \in Int
    <3>1. \A i \in DOMAIN p.tpre : p.tpre[i] \in Balance
      BY <1>1
    <3> QED
      BY <3>1 DEF Balance
  <2>3. same # {} => Min(same) \in same
    <3> HIDE DEF same
    <3> QED
      BY <2>1, MinIsLeast
  <2>4. PICK k : k = Min(same)
    OBVIOUS
  <2>5. Before(b) = IF same = {} THEN 0 ELSE p.tpre[k].amt
    BY <2>4
  <2>6. same # {} => p.tpre[k].amt \in Int
    <3> HIDE DEF same
    <3> QED
      BY <2>1, <2>2, <2>3, <2>4
  <2> HIDE DEF same, Before
  <2> QED
    BY <2>5, <2>6
<1> HIDE DEF idx, Before
<1>5. fee \in Seq(V1Entries)
  <2>1. -p.fee \in Int
    BY <1>1
  <2>2. <<V1("SOL", -p.fee, "fee")>> \in Seq(V1Entries)
    BY <1>2, <2>1, V1In
  <2> QED
    BY <2>2, NoneIn
<1>6. moved \in Seq(V1Entries)
  <2>1. LamportChange(p, idx) + (IF idx = 1 THEN p.fee ELSE 0) \in Int
    BY <1>1, <1>3
  <2>2. <<V1("SOL", LamportChange(p, idx) + (IF idx = 1 THEN p.fee ELSE 0), "transfer")>> \in Seq(V1Entries)
    BY <1>2, <2>1, V1In
  <2> QED
    BY <2>2, NoneIn
<1>7. sol \in Seq(V1Entries)
  <2> HIDE DEF fee, moved
  <2>1. fee \o moved \in Seq(V1Entries)
    BY <1>5, <1>6, TwoIn
  <2> QED
    BY <2>1, NoneIn
<1>8. spl \in Seq(V1Entries)
  <2>1. DOMAIN own \in SUBSET DOMAIN p.tpost
    OBVIOUS
  <2>2. IsFiniteSet(DOMAIN own) /\ DOMAIN own \in SUBSET Int
    <3> HIDE DEF own
    <3> QED
      BY <1>1, <2>1, DomainFinite
  <2>3. ASSUME NEW i \in DOMAIN own PROVE own[i] \in V1Entries
    <3>1. own[i] = V1(Symbol[p.tpost[i].mint], p.tpost[i].amt - Before(p.tpost[i]), "transfer")
      OBVIOUS
    <3>2. p.tpost[i] \in Balance
      BY <1>1, <2>1
    <3>3. Symbol[p.tpost[i].mint] \in Assets /\ p.tpost[i].amt - Before(p.tpost[i]) \in Int
      BY <1>4, <3>2, PayloadsAssumption DEF Balance
    <3> QED
      BY <3>1, <3>3, V1In
  <2> HIDE DEF own
  <2> QED
    BY <2>2, <2>3, InOrderIn
<1> HIDE DEF sol, spl
<1>9. all \in Seq(V1Entries)
  BY <1>7, <1>8, NoneIn, TwoIn
<1>10. ParseSolana(p) = InOrder(NonZero(all))
  BY DEF ParseSolana, sol, spl, idx, Before
<1> HIDE DEF all
<1> QED
  BY <1>9, <1>10, ListedIn

LEMMA EvmEntriesIn ==
    ASSUME NEW p \in Payloads, p.chain = "evm"
    PROVE  ParseEvm(p) \in Seq(V1Entries)
<1> DEFINE log == p.logs[1]
           amt == Normalized(log.data.n, TableDecimals[log.token])
           B == V1Entries
           sent == IF log.from = Wallet THEN <<V1(Symbol[log.token], -amt, "transfer")>> ELSE <<>>
           got == IF log.to = Wallet THEN <<V1(Symbol[log.token], amt, "transfer")>> ELSE <<>>
           found == p.single /\ log.sig = "transfer" /\ log.topics >= 3 /\ Parses(log.data)
           erc20 == IF found THEN sent \o got ELSE <<>>
           paid == IF p.from = Wallet THEN <<V1("ETH", -p.value.n, "transfer")>> ELSE <<>>
           earned == IF p.to = Wallet THEN <<V1("ETH", p.value.n, "transfer")>> ELSE <<>>
           value == IF Parses(p.value) /\ p.value.n > 0 THEN paid \o earned ELSE <<>>
           gas == IF p.gas.n > 0 THEN <<V1("ETH", -p.gas.n, "fee")>> ELSE <<>>
<1>1. "ETH" \in Assets
  BY PayloadsAssumption
<1>2. p.value.n \in Int /\ p.gas.n \in Int /\ -p.value.n \in Int /\ -p.gas.n \in Int
  BY EvmIs
<1>3. found => Symbol[log.token] \in Assets /\ amt \in Int /\ -amt \in Int
  <2>1. p.single => 1 \in DOMAIN p.logs
    BY EvmIs
  <2>2. p.single => Symbol[log.token] \in Assets /\ amt \in Int
    BY <2>1, LogAmountIs
  <2> HIDE DEF amt
  <2> QED
    BY <2>2
<1>4. found => sent \in Seq(B) /\ got \in Seq(B)
  <2>1. SUFFICES ASSUME found PROVE sent \in Seq(B) /\ got \in Seq(B)
    OBVIOUS
  <2> HIDE DEF amt
  <2>2. <<V1(Symbol[log.token], -amt, "transfer")>> \in Seq(B) /\ <<V1(Symbol[log.token], amt, "transfer")>> \in Seq(B)
    BY <1>3, <2>1, V1In
  <2> QED
    BY <2>2, NoneIn
<1>5. paid \in Seq(B) /\ earned \in Seq(B) /\ gas \in Seq(B)
  <2>1. /\ <<V1("ETH", -p.value.n, "transfer")>> \in Seq(B) /\ <<V1("ETH", p.value.n, "transfer")>> \in Seq(B)
        /\ <<V1("ETH", -p.gas.n, "fee")>> \in Seq(B)
    BY <1>1, <1>2, V1In
  <2> QED
    BY <2>1, NoneIn
<1> HIDE DEF sent, got, paid, earned, gas, found, B
<1>6. erc20 \in Seq(B)
  <2>1. found => sent \o got \in Seq(B)
    BY <1>4, TwoIn
  <2> QED
    BY <2>1, NoneIn
<1>7. value \in Seq(B)
  <2>1. paid \o earned \in Seq(B)
    BY <1>5, TwoIn
  <2> QED
    BY <2>1, NoneIn
<1> HIDE DEF erc20, value
<1>8. erc20 \o value \o gas \in Seq(B)
  BY <1>5, <1>6, <1>7, TwoIn
<1>9. ParseEvm(p) = erc20 \o value \o gas
  BY DEF ParseEvm, erc20, value, gas, found, sent, got, paid, earned
<1> QED
  BY <1>8, <1>9 DEF B

LEMMA HlEntriesIn ==
    ASSUME NEW p \in Payloads, p.chain = "hyperliquid"
    PROVE  ParseHyperliquid(p) \in Seq(V1Entries)
<1>1. /\ p.sz.n \in Int /\ p.pnl.n \in Int /\ p.fee.n \in Int /\ p.usdc.n \in Int
      /\ p.type \in {"fill", "funding", "deposit", "withdraw", "liquidation", "funding_rate"}
  BY HyperliquidIs
<1>2. p.coin \in Assets /\ p.feeToken \in Assets \cup {"none"} /\ "USDC" \in Assets
  BY PayloadIs, PayloadsAssumption DEF HyperliquidOK
<1>3. V1Fill(p.coin, p.side, p.sz.n, p.fee, p.feeToken, p.pnl) \in Seq(V1Entries)
  <2> DEFINE asset == IF p.feeToken = "none" THEN "USDC" ELSE p.feeToken
             two == <<V1(asset, -p.fee.n, "fee"), V1("USDC", p.pnl.n, "income")>>
             one == <<V1(p.coin, Mul(p.side = "B", p.sz.n), "trade")>>
  <2>1. asset \in Assets /\ -p.fee.n \in Int /\ Mul(p.side = "B", p.sz.n) \in Int
    BY <1>1, <1>2 DEF Mul
  <2> HIDE DEF asset
  <2>2. V1(asset, -p.fee.n, "fee") \in V1Entries /\ V1("USDC", p.pnl.n, "income") \in V1Entries
    BY <1>1, <1>2, <2>1, V1In
  <2>3. two \in Seq(V1Entries)
    BY <2>2
  <2>4. one \in Seq(V1Entries)
    BY <1>2, <2>1, V1In
  <2> HIDE DEF one, two
  <2>5. one \o InOrder(NonZero(two)) \in Seq(V1Entries)
    BY <2>3, <2>4, ListedIn, TwoIn
  <2> QED
    BY <2>5 DEF V1Fill, one, two, asset
<1>4. V1Funding(p.usdc.n) \in Seq(V1Entries)
  <2>1. PICK t \in {"fee", "income"} : t = IF p.usdc.n > 0 THEN "income" ELSE "fee"
    OBVIOUS
  <2>2. <<V1("USDC", p.usdc.n, t)>> \in Seq(V1Entries)
    BY <1>1, <1>2, V1In
  <2> QED
    BY <2>1, <2>2 DEF V1Funding
<1>5. /\ <<V1("USDC", p.usdc.n, "transfer")>> \in Seq(V1Entries)
      /\ <<V1("USDC", p.usdc.n, "trade")>> \in Seq(V1Entries)
  BY <1>1, <1>2, V1In
<1>6. <<V1("USDC", IF p.usdc.n > 0 THEN -p.usdc.n ELSE p.usdc.n, "transfer")>> \in Seq(V1Entries)
  <2>1. (IF p.usdc.n > 0 THEN -p.usdc.n ELSE p.usdc.n) \in Int
    BY <1>1
  <2> QED
    BY <1>2, <2>1, V1In
<1>7. CASE p.type = "fill"
  <2>1. ParseHyperliquid(p) = IF Parses(p.sz) /\ Parses(p.px)
                              THEN V1Fill(p.coin, p.side, p.sz.n, p.fee, p.feeToken, p.pnl) ELSE <<>>
    BY <1>7 DEF ParseHyperliquid
  <2> QED
    BY <1>3, <2>1, NoneIn
<1>8. CASE p.type = "funding"
  <2>1. ParseHyperliquid(p) = IF Parses(p.usdc) THEN V1Funding(p.usdc.n) ELSE <<>>
    BY <1>8 DEF ParseHyperliquid
  <2> QED
    BY <1>4, <2>1, NoneIn
<1>9. CASE p.type = "deposit"
  <2>1. ParseHyperliquid(p) = IF Parses(p.usdc) THEN <<V1("USDC", p.usdc.n, "transfer")>> ELSE <<>>
    BY <1>9 DEF ParseHyperliquid
  <2> QED
    BY <1>5, <2>1, NoneIn
<1>10. CASE p.type = "withdraw"
  <2>1. ParseHyperliquid(p) = IF Parses(p.usdc)
                              THEN <<V1("USDC", IF p.usdc.n > 0 THEN -p.usdc.n ELSE p.usdc.n, "transfer")>> ELSE <<>>
    BY <1>10 DEF ParseHyperliquid
  <2> QED
    BY <1>6, <2>1, NoneIn
<1>11. CASE p.type = "liquidation"
  <2>1. ParseHyperliquid(p) = IF Parses(p.usdc) THEN <<V1("USDC", p.usdc.n, "trade")>> ELSE <<>>
    BY <1>11 DEF ParseHyperliquid
  <2> QED
    BY <1>5, <2>1, NoneIn
<1>12. CASE p.type = "funding_rate"
  <2>1. ParseHyperliquid(p) = <<>>
    BY <1>12 DEF ParseHyperliquid
  <2> QED
    BY <2>1, NoneIn
<1> QED
  BY <1>1, <1>7, <1>8, <1>9, <1>10, <1>11, <1>12

\* What the V1 parsers make of any payload is a list of entries of known assets.
LEMMA ParseV1In ==
    ASSUME NEW p \in Payloads
    PROVE  ParseV1(p) \in Seq(V1Entries) /\ \A i \in DOMAIN ParseV1(p) : ParseV1(p)[i].asset \in Assets
<1>1. ParseV1(p) \in Seq(V1Entries)
  <2>1. CASE p.chain = "solana"
    BY <2>1, SolanaEntriesIn DEF ParseV1
  <2>2. CASE p.chain = "evm"
    BY <2>2, EvmEntriesIn DEF ParseV1
  <2>3. CASE p.chain = "hyperliquid"
    BY <2>3, HlEntriesIn DEF ParseV1
  <2> QED
    BY <2>1, <2>2, <2>3, PayloadIs
<1>2. PICK s \in Seq(V1Entries) : s = ParseV1(p)
  BY <1>1
<1>3. \A i \in DOMAIN s : s[i] \in V1Entries
  OBVIOUS
<1> QED
  BY <1>1, <1>2, <1>3 DEF V1Entries

-----------------------------------------------------------------------------
(* The payload's tables, through every materialization *)

LEMMA SlInvInit == SlInit => SlInv
<1> SUFFICES ASSUME SlInit PROVE SlInv
  OBVIOUS
<1>1. 0 \in 0 .. MaxPasses
  BY PayloadsAssumption
<1> QED
  BY <1>1 DEF SlInit, SlInv, EmptySilver

\* The rows of a payload fill each table once, whether it was empty or not.
LEMMA SilverWritten ==
    ASSUME NEW p \in Payloads, NEW s \in {EmptySilver, SilverOf(p)}
    PROVE  [t \in Tables |-> InsertNew(s[t], Extracted(p)[t])] = SilverOf(p)
<1>1. ASSUME NEW t \in Tables PROVE InsertNew(s[t], Extracted(p)[t]) = Range(Extracted(p)[t])
  <2>1. IsList(Extracted(p)[t])
    BY RowsAreLists
  <2>2. s[t] = {} \/ s[t] = Range(Extracted(p)[t])
    BY DEF EmptySilver, SilverOf
  <2> QED
    BY <2>1, <2>2, InsertedIsAll, InsertedTwice
<1> QED
  BY <1>1 DEF SilverOf

\* Every balance of the payload replaces the one with its key.
LEMMA BalancesWritten ==
    ASSUME NEW new, NEW old \in {{}, new}
    PROVE  {x \in old : \A y \in new : y.key # x.key} \cup new = new
  OBVIOUS

LEMMA SlInvNext == SlInv /\ [SlNext]_slVars => SlInv'
<1> SUFFICES ASSUME SlInv, [SlNext]_slVars PROVE SlInv'
  OBVIOUS
<1> USE DEF SlInv
<1>1. CASE Validate
  <2>1. passes' \in 0 .. MaxPasses
    BY <1>1, PayloadsAssumption DEF Validate
  <2>2. CASE ValidImport(payload)
    BY <1>1, <2>1, <2>2 DEF Validate
  <2>3. CASE ~ValidImport(payload)
    BY <1>1, <2>1, <2>3 DEF Validate
  <2> QED
    BY <2>2, <2>3
<1>2. CASE SaveSilverRows
  <2>1. rows' = Extracted(payload) /\ silver' = [t \in Tables |-> InsertNew(silver[t], Extracted(payload)[t])]
    BY <1>2 DEF SaveSilverRows
  <2>2. silver' = SilverOf(payload)
    BY <2>1, SilverWritten
  <2> QED
    BY <1>2, <2>1, <2>2 DEF SaveSilverRows
<1>3. CASE WriteWalletLedger
  <2>1. ledger' = LedgerOf(payload)
    BY <1>3 DEF WriteWalletLedger, LedgerOf
  <2> QED
    BY <1>3, <2>1 DEF WriteWalletLedger
<1>4. CASE WriteBalanceHistory
  <2>1. balances' = {x \in balances : \A y \in BalancesOf(payload) : y.key # x.key} \cup BalancesOf(payload)
    BY <1>4 DEF WriteBalanceHistory, BalancesOf
  <2>2. balances' = BalancesOf(payload)
    BY <2>1, BalancesWritten
  <2> QED
    BY <1>4, <2>2 DEF WriteBalanceHistory
<1>5. CASE Rematerialize
  BY <1>5 DEF Rematerialize
<1>6. CASE NormalizeV1
  BY <1>6 DEF NormalizeV1
<1>7. CASE UNCHANGED slVars
  BY <1>7 DEF slVars
<1> QED
  BY <1>1, <1>2, <1>3, <1>4, <1>5, <1>6, <1>7 DEF SlNext

\* The tables of a payload, through every materialization of it, are empty or
\* what it makes of them.
THEOREM SlInvariant == SlSpec => []SlInv
  BY SlInvInit, SlInvNext, PTL DEF SlSpec

LEMMA SlInvTypes == SlInv => SlTypeOK
<1> SUFFICES ASSUME SlInv PROVE SlTypeOK
  OBVIOUS
<1>1. \A e \in LedgerOf(payload) \cup BalancesOf(payload) : e.asset \in Assets /\ e.amt \in Int
  BY LedgerRecordsAddUp, BalanceRecordsAddUp DEF LedgerOf, BalancesOf, SlInv
<1>2. \A i \in DOMAIN ParseV1(payload) : ParseV1(payload)[i].asset \in Assets
  BY ParseV1In DEF SlInv
<1>3. \A e \in ledger \cup balances : e.asset \in Assets /\ e.amt \in Int
  BY <1>1 DEF SlInv
<1>4. \A i \in DOMAIN entries : entries[i].asset \in Assets
  <2>1. DOMAIN <<>> = {}
    OBVIOUS
  <2> QED
    BY <1>2, <2>1 DEF SlInv
<1>5. step = "rejected" => ledger = {} /\ balances = {} /\ \A t \in Tables : silver[t] = {}
  BY DEF SlInv, EmptySilver
<1> QED
  BY <1>3, <1>4, <1>5 DEF SlTypeOK, SlInv

\* The rows of every table are of known assets and whole amounts, and a payload that
\* is rejected has no row.
THEOREM SlTypes == SlSpec => []SlTypeOK
  BY SlInvariant, SlInvTypes, PTL

LEMMA SlInvNet == SlInv => LedgerIsNetChange
<1> SUFFICES ASSUME SlInv, step \in {"ledger", "done"}, NEW a \in Assets
             PROVE  NetOf(ledger, a) = NetChange(payload, a)
  BY DEF LedgerIsNetChange
<1>1. payload \in Payloads /\ ValidImport(payload) /\ ledger = LedgerOf(payload)
  BY DEF SlInv
<1> QED
  BY <1>1, LedgerNet DEF LedgerOf

\* Per symbol, the wallet ledger of any payload adds up to what the payload did to the
\* wallet, once it is written and after any number of materializations.
THEOREM LedgersAddUp == SlSpec => []LedgerIsNetChange
  BY SlInvariant, SlInvNet, PTL

LEMMA SlInvWhole == SlInv => SilverIsWhole
<1> SUFFICES ASSUME SlInv, step \in {"silver", "ledger", "done"}, NEW t \in Tables
             PROVE  Cardinality(silver[t]) = Cardinality(DOMAIN rows[t])
  BY DEF SilverIsWhole
<1>1. payload \in Payloads /\ rows = Extracted(payload) /\ silver = SilverOf(payload)
  BY DEF SlInv
<1>2. silver[t] = Range(Extracted(payload)[t])
  BY <1>1 DEF SilverOf
<1>3. IsList(Extracted(payload)[t])
  BY <1>1, RowsAreLists
<1> QED
  BY <1>1, <1>2, <1>3, ListCounts

\* No Silver row of a payload is lost to the unique key of its table.
THEOREM SilverLosesNothing == SlSpec => []SilverIsWhole
  BY SlInvariant, SlInvWhole, PTL

LEMMA SlInvBalances == SlInv => BalancesFollowLedger
<1> SUFFICES ASSUME SlInv, step = "done", UsdcFee(payload), NEW a \in Assets, ~Position(payload, a)
             PROVE  NetOf(balances, a) = NetOf(ledger, a)
  BY DEF BalancesFollowLedger
<1>1. /\ payload \in Payloads /\ ValidImport(payload)
      /\ ledger = LedgerOf(payload) /\ balances = BalancesOf(payload)
  BY DEF SlInv
<1> QED
  BY <1>1, BalancesNet DEF LedgerOf, BalancesOf

\* The balance history moves every asset that is not a position by what the wallet
\* ledger books for it.
THEOREM BalancesAgree == SlSpec => []BalancesFollowLedger
  BY SlInvariant, SlInvBalances, PTL

-----------------------------------------------------------------------------
(* What a list adds up to *)

\* A list of amounts.
AreAmounts(f) ==
    DOMAIN f \in SUBSET Int /\ IsFiniteSet(DOMAIN f) /\ \A i \in DOMAIN f : f[i].amt \in Int

LEMMA NetIs ==
    ASSUME NEW f, AreAmounts(f), NEW a, NEW D, IsFiniteSet(D), DOMAIN f \in SUBSET D,
           NEW h, \A i \in D : h[i] = AmountAt(f, a, i)
    PROVE  IsCount(h, D) /\ SeqNet(f, a) = SumFunctionOnSet(h, D) /\ SeqNet(f, a) \in Int
<1>1. AmountsOf(h, f, a, D)
  BY DEF AmountsOf, AmountAt, AreAmounts
<1> QED
  BY <1>1, SeqNetIs DEF IsCount, AmountsOf

LEMMA NetType ==
    ASSUME NEW f, AreAmounts(f), NEW a
    PROVE  SeqNet(f, a) \in Int
<1>1. PICK h : h = [i \in DOMAIN f |-> AmountAt(f, a, i)]
  OBVIOUS
<1>2. \A i \in DOMAIN f : h[i] = AmountAt(f, a, i)
  BY <1>1
<1> QED
  BY <1>2, NetIs DEF AreAmounts

\* Leaving out the zeros, or the other assets, changes no amount.
LEMMA PartNet ==
    ASSUME NEW f, AreAmounts(f), NEW a, NEW g, DOMAIN g \in SUBSET DOMAIN f,
           \A i \in DOMAIN g : g[i] = f[i],
           \A i \in DOMAIN f : i \in DOMAIN g \/ f[i].amt = 0 \/ f[i].asset # a
    PROVE  AreAmounts(g) /\ SeqNet(g, a) = SeqNet(f, a)
<1>1. PICK D : D = DOMAIN f
  OBVIOUS
<1>2. PICK h : h = [i \in D |-> AmountAt(f, a, i)]
  OBVIOUS
<1>3. IsFiniteSet(D) /\ \A i \in D : h[i] = AmountAt(f, a, i)
  BY <1>1, <1>2 DEF AreAmounts
<1>4. AreAmounts(g)
  BY FS_Subset DEF AreAmounts
<1>5. \A i \in D : h[i] = AmountAt(g, a, i)
  BY <1>1, <1>3 DEF AmountAt
<1>6. SeqNet(f, a) = SumFunctionOnSet(h, D)
  BY <1>1, <1>3, NetIs
<1>7. SeqNet(g, a) = SumFunctionOnSet(h, D)
  BY <1>1, <1>3, <1>4, <1>5, NetIs
<1> QED
  BY <1>4, <1>6, <1>7

LEMMA NonZeroNet ==
    ASSUME NEW f, AreAmounts(f), NEW a
    PROVE  AreAmounts(NonZero(f)) /\ SeqNet(NonZero(f), a) = SeqNet(f, a)
<1>1. PICK g : g = NonZero(f)
  OBVIOUS
<1>2. DOMAIN g = {i \in DOMAIN f : f[i].amt # 0} /\ \A i \in DOMAIN g : g[i] = f[i]
  BY <1>1 DEF NonZero, Restrict
<1> QED
  BY <1>1, <1>2, PartNet

\* Values listed in the order of their positions: each once.
LEMMA InOrderIs ==
    ASSUME NEW f, DOMAIN f \in SUBSET Int, IsFiniteSet(DOMAIN f)
    PROVE  \E at, n : /\ n \in Nat /\ n = Cardinality(DOMAIN f)
                      /\ InOrder(f) = [k \in 1 .. n |-> f[at[k]]]
                      /\ OneToOne(at, 1 .. n) /\ ImageOf(at, 1 .. n) = DOMAIN f
<1> DEFINE R == DOMAIN f
           L == {x \in Int \X Int : x[1] < x[2]}
           at == [k \in 1 .. Cardinality(R) |-> CHOOSE i \in R : Cardinality({j \in R : j < i}) = k - 1]
<1>1. \A i, j \in Int : <<i, j>> \in L <=> i < j
  OBVIOUS
<1> HIDE DEF L
<1>2. IsOrder(R, L)
  BY <1>1 DEF IsOrder
<1>3. \A i \in R : RankIn(R, L, i) = Cardinality({j \in R : j < i})
  <2> SUFFICES ASSUME NEW i \in R PROVE RankIn(R, L, i) = Cardinality({j \in R : j < i})
    OBVIOUS
  <2>1. {j \in R : <<j, i>> \in L} = {j \in R : j < i}
    BY <1>1
  <2> QED
    BY <2>1 DEF RankIn
<1>4. \A k \in 1 .. Cardinality(R) :
          (\E r \in R : RankIn(R, L, r) = k - 1) => at[k] \in R /\ RankIn(R, L, at[k]) = k - 1
  <2> SUFFICES ASSUME NEW k \in 1 .. Cardinality(R), \E r \in R : RankIn(R, L, r) = k - 1
               PROVE  at[k] \in R /\ RankIn(R, L, at[k]) = k - 1
    OBVIOUS
  <2>1. \E j \in R : Cardinality({l \in R : l < j}) = k - 1
    BY <1>3
  <2>2. at[k] \in R /\ Cardinality({l \in R : l < at[k]}) = k - 1
    BY <2>1
  <2> QED
    BY <1>3, <2>2
<1>5. PICK n : n = Cardinality(R)
  OBVIOUS
<1>6. InOrder(f) = [k \in 1 .. n |-> f[at[k]]]
  BY <1>5 DEF InOrder
<1>7. PICK b : b = at
  OBVIOUS
<1> HIDE DEF at
<1>8. /\ n \in Nat /\ (\A k \in 1 .. n : b[k] \in R) /\ (\A r \in R : \E k \in 1 .. n : b[k] = r)
      /\ \A k, l \in 1 .. n : k < l => <<b[k], b[l]>> \in L
  BY <1>2, <1>4, <1>5, <1>7, SortIs
<1>9. OneToOne(b, 1 .. n)
  <2>1. \A k, l \in 1 .. n : k # l => k < l \/ l < k
    BY <1>8
  <2>2. \A i \in R : <<i, i>> \notin L
    BY <1>2 DEF IsOrder
  <2> QED
    BY <1>8, <2>1, <2>2 DEF OneToOne
<1>10. ImageOf(b, 1 .. n) = R
  BY <1>8 DEF ImageOf
<1> QED
  BY <1>5, <1>6, <1>7, <1>8, <1>9, <1>10

LEMMA InOrderNet ==
    ASSUME NEW f, AreAmounts(f), NEW a
    PROVE  AreAmounts(InOrder(f)) /\ SeqNet(InOrder(f), a) = SeqNet(f, a)
<1>1. PICK at, n : /\ n \in Nat /\ InOrder(f) = [k \in 1 .. n |-> f[at[k]]]
                   /\ OneToOne(at, 1 .. n) /\ ImageOf(at, 1 .. n) = DOMAIN f
  BY InOrderIs DEF AreAmounts
<1>2. PICK s : s = InOrder(f)
  OBVIOUS
<1>3. PICK D : D = 1 .. n
  OBVIOUS
<1>4. DOMAIN s = D /\ \A k \in D : s[k] = f[at[k]] /\ at[k] \in DOMAIN f
  BY <1>1, <1>2, <1>3 DEF ImageOf
<1>5. IsFiniteSet(D) /\ D \in SUBSET Int
  <2>1. 1 \in Int /\ n \in Int
    BY <1>1
  <2> QED
    BY <1>3, <2>1, FS_Interval
<1>6. AreAmounts(s)
  BY <1>4, <1>5 DEF AreAmounts
<1>7. PICK g, h : g = [i \in DOMAIN f |-> AmountAt(f, a, i)] /\ h = [k \in D |-> AmountAt(s, a, k)]
  OBVIOUS
<1>8. /\ \A i \in DOMAIN f : g[i] = AmountAt(f, a, i)
      /\ \A k \in D : h[k] = AmountAt(s, a, k)
  BY <1>7
<1>9. SeqNet(f, a) = SumFunctionOnSet(g, DOMAIN f)
  BY <1>8, NetIs DEF AreAmounts
<1>10. IsCount(h, D) /\ SeqNet(s, a) = SumFunctionOnSet(h, D)
  <2>1. DOMAIN s \in SUBSET D /\ IsFiniteSet(D)
    BY <1>4, <1>5
  <2>2. \A k \in D : h[k] = AmountAt(s, a, k)
    BY <1>8
  <2> QED
    BY <1>6, <2>1, <2>2, NetIs
<1>11. Carried(g, at, h, D)
  BY <1>4, <1>8 DEF Carried, AmountAt
<1>12. SumFunctionOnSet(g, DOMAIN f) = SumFunctionOnSet(h, D)
  BY <1>1, <1>3, <1>5, <1>10, <1>11, SumReindex
<1> QED
  BY <1>2, <1>6, <1>9, <1>10, <1>12

-----------------------------------------------------------------------------
(* Lists one after the other *)

\* Entries of a type whose amounts are integers.
HaveAmounts(S) == \A e \in S : e.amt \in Int

LEMMA ListAmounts ==
    ASSUME NEW S, HaveAmounts(S), NEW s \in Seq(S)
    PROVE  AreAmounts(s) /\ DOMAIN s = 1 .. Len(s) /\ Len(s) \in Nat
<1>1. DOMAIN s = 1 .. Len(s) /\ Len(s) \in Nat /\ \A i \in DOMAIN s : s[i] \in S
  OBVIOUS
<1>2. DOMAIN s \in SUBSET DOMAIN s
  OBVIOUS
<1>3. IsFiniteSet(DOMAIN s) /\ DOMAIN s \in SUBSET Int
  BY <1>2, DomainFinite
<1> QED
  BY <1>1, <1>3 DEF AreAmounts, HaveAmounts

LEMMA ConcatNet ==
    ASSUME NEW S, HaveAmounts(S), NEW s \in Seq(S), NEW t \in Seq(S), NEW a
    PROVE  s \o t \in Seq(S) /\ SeqNet(s \o t, a) = SeqNet(s, a) + SeqNet(t, a)
<1>1. PICK u, n, m : u = s \o t /\ n = Len(s) /\ m = Len(t)
  OBVIOUS
<1>2. /\ u \in Seq(S) /\ DOMAIN u = 1 .. n + m /\ n \in Nat /\ m \in Nat
      /\ DOMAIN s = 1 .. n /\ DOMAIN t = 1 .. m
      /\ \A i \in 1 .. n : u[i] = s[i]
      /\ \A i \in 1 .. m : u[n + i] = t[i]
      /\ \A i \in 1 .. n + m : i > n => i - n \in 1 .. m /\ u[i] = t[i - n]
  BY <1>1, ConcatIs
<1>3. AreAmounts(u) /\ AreAmounts(s) /\ AreAmounts(t)
  BY <1>2, ListAmounts
<1>4. PICK D, T : D = 1 .. n + m /\ T = {i \in D : i > n}
  OBVIOUS
<1>5. PICK b : b = [i \in 1 .. m |-> n + i]
  OBVIOUS
<1>6. PICK f, g, h, k : /\ h = [i \in D |-> AmountAt(u, a, i)]
                        /\ f = [i \in D |-> AmountAt(s, a, i)]
                        /\ g = [i \in D |-> IF i > n THEN AmountAt(t, a, i - n) ELSE 0]
                        /\ k = [i \in 1 .. m |-> AmountAt(t, a, i)]
  OBVIOUS
<1>7. IsFiniteSet(D) /\ D = DOMAIN u /\ DOMAIN s \in SUBSET D
  <2>1. 1 .. n \in SUBSET (1 .. n + m)
    BY <1>2
  <2> QED
    BY <1>2, <1>3, <1>4, <2>1 DEF AreAmounts
<1>8. IsCount(h, D) /\ SeqNet(u, a) = SumFunctionOnSet(h, D)
  BY <1>3, <1>6, <1>7, NetIs
<1>9. IsCount(f, D) /\ SeqNet(s, a) = SumFunctionOnSet(f, D)
  BY <1>3, <1>6, <1>7, NetIs
<1>10. IsCount(k, 1 .. m) /\ SeqNet(t, a) = SumFunctionOnSet(k, 1 .. m)
  <2>1. IsFiniteSet(1 .. m) /\ DOMAIN t \in SUBSET (1 .. m)
    BY <1>2, <1>3 DEF AreAmounts
  <2> QED
    BY <1>3, <1>6, <2>1, NetIs
<1>11. \A i \in 1 .. m : b[i] \in T /\ b[i] = n + i
  BY <1>2, <1>4, <1>5
<1>12. \A i \in T : i - n \in 1 .. m /\ b[i - n] = i /\ i \in D
  BY <1>2, <1>4, <1>5
<1>13. T = ImageOf(b, 1 .. m)
  BY <1>11, <1>12 DEF ImageOf
<1>14. OneToOne(b, 1 .. m)
  <2>1. \A i, j \in 1 .. m : n + i = n + j => i = j
    BY <1>2
  <2> QED
    BY <1>11, <2>1 DEF OneToOne
<1>15. Carried(g, b, k, 1 .. m)
  <2>1. ASSUME NEW i \in 1 .. m PROVE g[b[i]] = k[i]
    <3>1. b[i] \in D /\ b[i] > n /\ b[i] - n = i
      BY <1>2, <1>4, <1>11
    <3> QED
      BY <1>6, <3>1
  <2> QED
    BY <2>1 DEF Carried
<1>16. IsFiniteSet(1 .. m) /\ IsFiniteSet(T)
  BY <1>2, <1>3, <1>4, <1>7, FS_Subset DEF AreAmounts
<1>17. IsCount(g, T) /\ SumFunctionOnSet(g, T) = SumFunctionOnSet(k, 1 .. m)
  BY <1>10, <1>13, <1>14, <1>15, <1>16, SumReindex
<1>18. \A i \in D \ T : g[i] = 0
  BY <1>4, <1>6
<1>19. IsCount(g, D)
  <2>1. 0 \in Int
    OBVIOUS
  <2> QED
    BY <1>17, <1>18, <2>1 DEF IsCount
<1>20. SumFunctionOnSet(g, D) = SumFunctionOnSet(g, T)
  BY <1>4, <1>7, <1>18, <1>19, SumSkip
<1>21. ASSUME NEW i \in D PROVE h[i] = f[i] + g[i]
  <2>1. h[i] = AmountAt(u, a, i) /\ f[i] = AmountAt(s, a, i) /\ f[i] \in Int /\ g[i] \in Int
    BY <1>6, <1>9, <1>19 DEF IsCount
  <2>2. CASE i > n
    <3>1. i - n \in 1 .. m /\ u[i] = t[i - n] /\ i \notin 1 .. n
      BY <1>2, <1>4, <2>2
    <3>2. f[i] = 0
      BY <1>2, <2>1, <3>1 DEF AmountAt
    <3>3. g[i] = AmountAt(t, a, i - n)
      BY <1>6, <2>2
    <3>4. AmountAt(u, a, i) = AmountAt(t, a, i - n)
      BY <1>2, <1>7, <3>1 DEF AmountAt
    <3>5. g[i] = h[i]
      BY <2>1, <3>3, <3>4
    <3> QED
      BY <2>1, <3>2, <3>5
  <2>3. CASE ~(i > n)
    <3>1. i \in 1 .. n
      BY <1>2, <1>4, <2>3
    <3>2. g[i] = 0
      BY <1>6, <2>3
    <3>3. AmountAt(u, a, i) = AmountAt(s, a, i)
      BY <1>2, <1>7, <3>1 DEF AmountAt
    <3> QED
      BY <2>1, <3>2, <3>3
  <2> QED
    BY <2>2, <2>3
<1>22. SumFunctionOnSet(h, D) = SumFunctionOnSet(f, D) + SumFunctionOnSet(g, D)
  BY <1>7, <1>9, <1>19, <1>21, SumPlus
<1> QED
  BY <1>1, <1>2, <1>8, <1>9, <1>10, <1>17, <1>20, <1>22

\* Flattening: each list after the ones before it.
LEMMA FlattenIs ==
    ASSUME NEW S, NEW ss \in Seq(Seq(S)), NEW n \in Nat \ {0}, n = Len(ss)
    PROVE  \E g : /\ FlattenSeq(ss) = g[n] /\ g[1] = ss[1]
                  /\ \A i \in 2 .. n : g[i] = g[i - 1] \o ss[i]
<1> DEFINE F(i, g) == IF i = 1 THEN ss[i] ELSE g[i - 1] \o ss[i]
           flatten == CHOOSE g : g = [i \in 1 .. Len(ss) |-> F(i, g)]
<1>1. \A i \in 1 .. n : ss[i] \in Seq(S)
  OBVIOUS
<1>2. PICK app : app = [x \in (1 .. n) \X Seq(S) |-> x[2] \o ss[x[1]]]
  OBVIOUS
<1>3. StepsIn(app, n, Seq(S))
  <2>1. ASSUME NEW k \in 1 .. n, NEW x \in Seq(S) PROVE app[<<k, x>>] \in Seq(S)
    <3>1. app[<<k, x>>] = x \o ss[k]
      BY <1>2
    <3>2. x \o ss[k] \in Seq(S)
      BY <1>1
    <3> QED
      BY <3>1, <3>2
  <2> QED
    BY <2>1 DEF StepsIn
<1>4. <<>> \in Seq(S)
  OBVIOUS
<1>5. PICK l : IsLoop(l, n, <<>>, app) /\ \A k \in 0 .. n : l[k] \in Seq(S)
  BY <1>3, <1>4, LoopRuns
<1>6. PICK g : g = [i \in 1 .. n |-> l[i]]
  OBVIOUS
<1>7. ASSUME NEW i \in 1 .. n PROVE g[i] = F(i, g)
  <2>1. i - 1 \in 0 .. n
    OBVIOUS
  <2>2. l[i] = app[<<i, l[i - 1]>>]
    BY <1>5 DEF IsLoop
  <2>3. l[i - 1] \in Seq(S)
    BY <1>5, <2>1
  <2>4. l[i] = l[i - 1] \o ss[i] /\ g[i] = l[i]
    BY <1>2, <1>6, <2>2, <2>3
  <2>5. CASE i = 1
    <3>1. l[0] = <<>> /\ i - 1 = 0
      BY <1>5, <2>5 DEF IsLoop
    <3>2. <<>> \o ss[i] = ss[i]
      BY <1>1
    <3>3. g[i] = ss[i]
      BY <2>4, <3>1, <3>2
    <3> QED
      BY <2>5, <3>3
  <2>6. CASE i # 1
    <3>1. i - 1 \in 1 .. n
      BY <2>6
    <3>2. g[i - 1] = l[i - 1]
      BY <1>6, <3>1
    <3> QED
      BY <2>4, <2>6, <3>2
  <2> QED
    BY <2>5, <2>6
<1>8. g = [i \in 1 .. Len(ss) |-> F(i, g)]
  BY <1>6, <1>7
<1>9. flatten = [i \in 1 .. Len(ss) |-> F(i, flatten)]
  <2>1. \E q : q = [i \in 1 .. Len(ss) |-> F(i, q)]
    BY <1>8
  <2> HIDE DEF F
  <2> QED
    BY <2>1
<1>10. FlattenSeq(ss) = flatten[n]
  BY DEF FlattenSeq
<1>11. PICK q : q = flatten
  OBVIOUS
<1> HIDE DEF flatten
<1>12. q = [i \in 1 .. n |-> IF i = 1 THEN ss[i] ELSE q[i - 1] \o ss[i]]
  <2>1. q = [i \in 1 .. Len(ss) |-> F(i, q)]
    BY <1>9, <1>11
  <2> QED
    BY <2>1
<1>13. q[1] = ss[1]
  <2>1. 1 \in 1 .. n
    OBVIOUS
  <2> QED
    BY <1>12, <2>1
<1>14. ASSUME NEW i \in 2 .. n PROVE q[i] = q[i - 1] \o ss[i]
  <2>1. i \in 1 .. n /\ i # 1
    OBVIOUS
  <2> QED
    BY <1>12, <2>1
<1> QED
  BY <1>10, <1>11, <1>13, <1>14

\* The lists of f one after the other.
IsFlattening(g, ss, n) == g[1] = ss[1] /\ \A i \in 2 .. n : g[i] = g[i - 1] \o ss[i]

LEMMA FlattenNet ==
    ASSUME NEW S, HaveAmounts(S), NEW ss \in Seq(Seq(S)), NEW n, n = Len(ss), NEW a,
           NEW h, \A i \in 1 .. n : h[i] = SeqNet(ss[i], a)
    PROVE  /\ FlattenSeq(ss) \in Seq(S) /\ IsCount(h, 1 .. n)
           /\ SeqNet(FlattenSeq(ss), a) = SumFunctionOnSet(h, 1 .. n)
<1>1. n \in Nat /\ \A i \in 1 .. n : ss[i] \in Seq(S)
  OBVIOUS
<1>2. IsCount(h, 1 .. n)
  <2>1. \A i \in 1 .. n : SeqNet(ss[i], a) \in Int
    BY <1>1, ListAmounts, NetType
  <2> QED
    BY <2>1 DEF IsCount
<1>3. CASE n = 0
  <2>1. ss = <<>>
    <3>1. Len(ss) = 0
      BY <1>3
    <3> QED
      BY <3>1, EmptySeq
  <2>2. FlattenSeq(ss) = ss
    BY <1>3 DEF FlattenSeq
  <2>3. FlattenSeq(ss) \in Seq(S) /\ DOMAIN FlattenSeq(ss) = {}
    BY <2>1, <2>2, NoneIn, NoList
  <2>4. SeqNet(FlattenSeq(ss), a) = 0
    BY <2>3, NetOfNothing
  <2>5. 1 .. n = {}
    BY <1>3
  <2>6. SumFunctionOnSet(h, 1 .. n) = 0
    BY <2>5, SumEmpty
  <2> QED
    BY <1>2, <2>3, <2>4, <2>6
<1>4. CASE n # 0
  <2>1. PICK g : FlattenSeq(ss) = g[n] /\ IsFlattening(g, ss, n)
    <3>1. PICK m \in Nat \ {0} : m = Len(ss) /\ m = n
      BY <1>1, <1>4
    <3>2. \E g : /\ FlattenSeq(ss) = g[m] /\ g[1] = ss[1]
                 /\ \A i \in 2 .. m : g[i] = g[i - 1] \o ss[i]
      BY <3>1, FlattenIs
    <3> QED
      BY <3>1, <3>2 DEF IsFlattening
  <2> DEFINE Adds(k) == g[k] \in Seq(S) /\ SeqNet(g[k], a) = SumFunctionOnSet(h, 1 .. k)
             G == {k \in 0 .. n : k = 0 \/ Adds(k)}
  <2>2. ASSUME NEW k \in 1 .. n, k - 1 \in G PROVE Adds(k)
    <3>1. ss[k] \in Seq(S) /\ h[k] = SeqNet(ss[k], a)
      BY <1>1
    <3>2. /\ SumFunctionOnSet(h, 1 .. k) = SumFunctionOnSet(h, 1 .. (k - 1)) + h[k]
          /\ SumFunctionOnSet(h, 1 .. (k - 1)) \in Int /\ h[k] \in Int
      <4>1. k - 1 \in Nat /\ k = (k - 1) + 1
        BY <1>1
      <4>2. IsCount(h, 1 .. k)
        BY <1>1, <1>2 DEF IsCount
      <4>3. h[k] \in Int
        BY <1>2 DEF IsCount
      <4> QED
        BY <4>1, <4>2, <4>3, SumUpTo
    <3>3. CASE k = 1
      <4>1. g[k] = ss[k]
        BY <2>1, <3>3 DEF IsFlattening
      <4>2. 1 .. (k - 1) = {}
        BY <3>3
      <4>3. SumFunctionOnSet(h, 1 .. (k - 1)) = 0
        BY <4>2, SumEmpty
      <4> QED
        BY <3>1, <3>2, <4>1, <4>3
    <3>4. CASE k # 1
      <4>1. k \in 2 .. n
        BY <1>1, <3>4
      <4>2. g[k] = g[k - 1] \o ss[k]
        BY <2>1, <4>1 DEF IsFlattening
      <4>3. k - 1 # 0
        BY <3>4
      <4>4. Adds(k - 1)
        BY <2>2, <4>3
      <4>5. g[k] \in Seq(S) /\ SeqNet(g[k], a) = SeqNet(g[k - 1], a) + SeqNet(ss[k], a)
        BY <3>1, <4>2, <4>4, ConcatNet
      <4> QED
        BY <3>1, <3>2, <4>4, <4>5
    <3> QED
      BY <3>3, <3>4
  <2>3. n \in G
    <3> HIDE DEF Adds
    <3>1. G \in SUBSET (0 .. n) /\ 0 \in G /\ n \in 0 .. n
      BY <1>1
    <3>2. \A k \in 1 .. n : k - 1 \in G => k \in G
      BY <1>1, <2>2
    <3> HIDE DEF G
    <3> QED
      BY <1>1, <3>1, <3>2, LoopKeeps
  <2>4. Adds(n)
    BY <1>4, <2>3
  <2> QED
    BY <1>2, <2>1, <2>4
<1> QED
  BY <1>3, <1>4

LEMMA FlatNet ==
    ASSUME NEW S, HaveAmounts(S), NEW f, DOMAIN f \in SUBSET Int, IsFiniteSet(DOMAIN f),
           \A i \in DOMAIN f : f[i] \in Seq(S), NEW a,
           NEW h, \A i \in DOMAIN f : h[i] = SeqNet(f[i], a)
    PROVE  /\ Flat(f) \in Seq(S) /\ IsCount(h, DOMAIN f)
           /\ SeqNet(Flat(f), a) = SumFunctionOnSet(h, DOMAIN f)
<1>1. PICK at, n : /\ n \in Nat /\ InOrder(f) = [k \in 1 .. n |-> f[at[k]]]
                   /\ OneToOne(at, 1 .. n) /\ ImageOf(at, 1 .. n) = DOMAIN f
  BY InOrderIs
<1>2. PICK ss : ss = InOrder(f)
  OBVIOUS
<1>3. ss \in Seq(Seq(S))
  BY <1>2, InOrderIn
<1>4. \A k \in 1 .. n : at[k] \in DOMAIN f
  BY <1>1 DEF ImageOf
<1>5. n = Len(ss) /\ \A k \in 1 .. n : ss[k] = f[at[k]]
  BY <1>1, <1>2
<1>6. PICK g : g = [k \in 1 .. n |-> SeqNet(ss[k], a)]
  OBVIOUS
<1>7. /\ FlattenSeq(ss) \in Seq(S) /\ IsCount(g, 1 .. n)
      /\ SeqNet(FlattenSeq(ss), a) = SumFunctionOnSet(g, 1 .. n)
  <2>1. \A k \in 1 .. n : g[k] = SeqNet(ss[k], a)
    BY <1>6
  <2>2. n = Len(ss)
    BY <1>5
  <2> QED
    BY <1>3, <2>1, <2>2, FlattenNet, SMTT(30)
<1>8. Carried(h, at, g, 1 .. n)
  BY <1>4, <1>5, <1>6 DEF Carried
<1>9. IsFiniteSet(1 .. n)
  <2>1. 1 \in Int /\ n \in Int
    BY <1>1
  <2> QED
    BY <2>1, FS_Interval
<1>10. IsCount(h, DOMAIN f) /\ SumFunctionOnSet(h, DOMAIN f) = SumFunctionOnSet(g, 1 .. n)
  BY <1>1, <1>7, <1>8, <1>9, SumReindex
<1> QED
  BY <1>2, <1>7, <1>10 DEF Flat

\* One list, flattened, and none.
LEMMA FlatOne ==
    ASSUME NEW S, NEW s \in Seq(S), NEW f, DOMAIN f = {1}, f[1] = s
    PROVE  Flat(f) = s
<1>1. IsFiniteSet(DOMAIN f) /\ DOMAIN f \in SUBSET Int /\ Cardinality(DOMAIN f) = 1
  <2>1. IsFiniteSet({1}) /\ Cardinality({1}) = 1
    BY FS_Singleton
  <2> QED
    BY <2>1
<1>2. PICK at, n : /\ n \in Nat /\ n = Cardinality(DOMAIN f) /\ InOrder(f) = [k \in 1 .. n |-> f[at[k]]]
                   /\ OneToOne(at, 1 .. n) /\ ImageOf(at, 1 .. n) = DOMAIN f
  BY <1>1, InOrderIs
<1>3. n = 1 /\ 1 \in 1 .. n
  BY <1>1, <1>2
<1>4. PICK ss : ss = InOrder(f)
  OBVIOUS
<1>5. ss \in Seq(Seq(S))
  BY <1>1, <1>4, InOrderIn
<1>6. at[1] = 1
  BY <1>2, <1>3 DEF ImageOf
<1>7. ss[1] = s /\ Len(ss) = n
  BY <1>2, <1>3, <1>4, <1>6
<1>8. FlattenSeq(ss) = ss[1]
  <2>1. PICK m \in Nat \ {0} : m = Len(ss) /\ m = 1
    BY <1>3, <1>7
  <2>2. \E g : /\ FlattenSeq(ss) = g[m] /\ g[1] = ss[1]
               /\ \A i \in 2 .. m : g[i] = g[i - 1] \o ss[i]
    BY <1>5, <2>1, FlattenIs
  <2> QED
    BY <2>1, <2>2
<1> QED
  BY <1>4, <1>7, <1>8 DEF Flat

LEMMA FlatNone ==
    ASSUME NEW f, DOMAIN f = {}
    PROVE  Flat(f) = <<>>
<1>1. Cardinality(DOMAIN f) = 0
  BY FS_EmptySet
<1>2. InOrder(f) = <<>>
  <2>1. 1 .. Cardinality(DOMAIN f) = {}
    BY <1>1
  <2> QED
    BY <2>1 DEF InOrder
<1>3. FlattenSeq(<<>>) = <<>>
  BY DEF FlattenSeq
<1> QED
  BY <1>2, <1>3 DEF Flat

-----------------------------------------------------------------------------
(* The transfers, as each derivation lists them *)

LEMMA EntriesAmounts ==
    ASSUME NEW f, NEW kind, IsEntries(f, kind)
    PROVE  AreAmounts(f)
BY DEF IsEntries, IsList, AreAmounts

LEMMA OneNet ==
    ASSUME NEW S, HaveAmounts(S), NEW e \in S, NEW a
    PROVE  <<e>> \in Seq(S) /\ SeqNet(<<e>>, a) = IF e.asset = a THEN e.amt ELSE 0
<1>1. PICK s : s = <<e>>
  OBVIOUS
<1>2. s \in Seq(S) /\ Len(s) = 1 /\ s[1] = e
  BY <1>1
<1>3. AreAmounts(s) /\ DOMAIN s = {1}
  BY <1>2, ListAmounts
<1>4. PICK h : h = [i \in {1} |-> AmountAt(s, a, i)]
  OBVIOUS
<1>5. IsFiniteSet({1}) /\ DOMAIN s \in SUBSET {1}
  BY <1>3, FS_Singleton
<1>6. \A i \in {1} : h[i] = AmountAt(s, a, i)
  BY <1>4
<1>7. IsCount(h, {1}) /\ SeqNet(s, a) = SumFunctionOnSet(h, {1})
  BY <1>3, <1>5, <1>6, NetIs
<1>8. SumFunctionOnSet(h, {1}) = h[1] + SumFunctionOnSet(h, {1} \ {1})
  <2>1. 1 \in {1}
    OBVIOUS
  <2> QED
    BY <1>5, <1>7, <2>1, SumTake
<1>9. SumFunctionOnSet(h, {1} \ {1}) = 0
  <2>1. {1} \ {1} = {}
    OBVIOUS
  <2> QED
    BY <2>1, SumEmpty
<1>10. h[1] \in Int /\ h[1] = AmountAt(s, a, 1)
  BY <1>6, <1>7 DEF IsCount
<1>11. AmountAt(s, a, 1) = IF e.asset = a THEN e.amt ELSE 0
  BY <1>2, <1>3 DEF AmountAt
<1>12. SeqNet(s, a) = h[1]
  BY <1>7, <1>8, <1>9, <1>10
<1> QED
  BY <1>1, <1>2, <1>10, <1>11, <1>12

LEMMA NoneNet ==
    ASSUME NEW a
    PROVE  SeqNet(<<>>, a) = 0
BY NoList, NetOfNothing

\* What a transfer does to the wallet.
Moves(t, a) == IF t.symbol # a THEN 0
               ELSE (IF t.to = Wallet THEN t.amt ELSE 0) - (IF t.from = Wallet THEN t.amt ELSE 0)

LEMMA SidesNet ==
    ASSUME NEW S, HaveAmounts(S), NEW t, t.amt \in Int, NEW a,
           NEW debit \in S, debit.asset = t.symbol, debit.amt = -t.amt,
           NEW credit \in S, credit.asset = t.symbol, credit.amt = t.amt,
           NEW u, u = IF t.from = Wallet THEN <<debit>> ELSE <<>>,
           NEW v, v = IF t.to = Wallet THEN <<credit>> ELSE <<>>
    PROVE  u \o v \in Seq(S) /\ SeqNet(u \o v, a) = Moves(t, a)
<1>1. u \in Seq(S) /\ SeqNet(u, a) = IF t.from = Wallet /\ t.symbol = a THEN -t.amt ELSE 0
  <2>1. CASE t.from = Wallet
    BY <2>1, OneNet
  <2>2. CASE t.from # Wallet
    BY <2>2, NoneNet, NoneIn
  <2> QED
    BY <2>1, <2>2
<1>2. v \in Seq(S) /\ SeqNet(v, a) = IF t.to = Wallet /\ t.symbol = a THEN t.amt ELSE 0
  <2>1. CASE t.to = Wallet
    BY <2>1, OneNet
  <2>2. CASE t.to # Wallet
    BY <2>2, NoneNet, NoneIn
  <2> QED
    BY <2>1, <2>2
<1>3. u \o v \in Seq(S) /\ SeqNet(u \o v, a) = SeqNet(u, a) + SeqNet(v, a)
  <2>1. u \in Seq(S) /\ v \in Seq(S)
    BY <1>1, <1>2
  <2>2. \A x, y \in Seq(S) : x \o y \in Seq(S) /\ SeqNet(x \o y, a) = SeqNet(x, a) + SeqNet(y, a)
    BY ConcatNet
  <2> QED
    BY <2>1, <2>2
<1> QED
  BY <1>1, <1>2, <1>3 DEF Moves

\* The library's records name the other party.
PartiesOf(r) == {"none"} \cup {r.transfers[i].to : i \in DOMAIN r.transfers}
                         \cup {r.transfers[i].from : i \in DOMAIN r.transfers}
WlEntries(P) == [asset : Assets, amt : Int, type : {"fee", "transfer", "trade", "income", "funding"}, party : P]

LEMMA EntriesHaveAmounts == HaveAmounts(V1Entries) /\ \A P : HaveAmounts(WlEntries(P))
BY DEF HaveAmounts, V1Entries, WlEntries

LEMMA V1Is ==
    ASSUME NEW a \in Assets, NEW n \in Int, NEW t \in {"fee", "transfer", "trade", "income"}
    PROVE  V1(a, n, t) \in V1Entries /\ V1(a, n, t).asset = a /\ V1(a, n, t).amt = n
BY V1In DEF V1

LEMMA WlIs ==
    ASSUME NEW a \in Assets, NEW n \in Int, NEW P, NEW q \in P,
           NEW t \in {"fee", "transfer", "trade", "income", "funding"}
    PROVE  Wl(a, n, t, q) \in WlEntries(P) /\ Wl(a, n, t, q).asset = a /\ Wl(a, n, t, q).amt = n
BY DEF Wl, WlEntries

\* Both derivations list what each transfer does to the wallet.
LEMMA DeriveTransfersNet ==
    ASSUME NEW p \in Payloads, NEW a, NEW r, r = Extracted(p),
           NEW h, \A i \in DOMAIN r.transfers : h[i] = Moves(r.transfers[i], a)
    PROVE  LET D == DOMAIN r.transfers
               S == WlEntries(PartiesOf(r))
           IN /\ IsCount(h, D) /\ IsFiniteSet(D)
              /\ DeriveTransfers(r) \in Seq(V1Entries)
              /\ SeqNet(DeriveTransfers(r), a) = SumFunctionOnSet(h, D)
              /\ DeriveWalletTransfers(r) \in Seq(S)
              /\ SeqNet(DeriveWalletTransfers(r), a) = SumFunctionOnSet(h, D)
<1> DEFINE S == WlEntries(PartiesOf(r))
<1>1. PICK ts : ts = r.transfers
  OBVIOUS
<1>2. /\ DOMAIN ts \in SUBSET Int /\ IsFiniteSet(DOMAIN ts)
      /\ \A i \in DOMAIN ts : ts[i].symbol \in Assets /\ ts[i].amt \in Int
  BY <1>1, TransfersAre DEF IsList
<1>3. \A i \in DOMAIN ts : h[i] = Moves(ts[i], a)
  BY <1>1
<1>4. PICK f : f = [i \in DOMAIN ts |->
                     (IF ts[i].from = Wallet THEN <<V1(ts[i].symbol, -ts[i].amt, "transfer")>> ELSE <<>>)
                  \o (IF ts[i].to = Wallet THEN <<V1(ts[i].symbol, ts[i].amt, "transfer")>> ELSE <<>>)]
  OBVIOUS
<1>5. PICK g : g = [i \in DOMAIN ts |->
                     (IF ts[i].from = Wallet THEN <<Wl(ts[i].symbol, -ts[i].amt, "transfer", ts[i].to)>> ELSE <<>>)
                  \o (IF ts[i].to = Wallet THEN <<Wl(ts[i].symbol, ts[i].amt, "transfer", ts[i].from)>> ELSE <<>>)]
  OBVIOUS
<1>6. DeriveTransfers(r) = Flat(f)
  BY <1>1, <1>4 DEF DeriveTransfers
<1>7. DeriveWalletTransfers(r) = Flat(g)
  BY <1>1, <1>5 DEF DeriveWalletTransfers
<1>8. HaveAmounts(V1Entries) /\ HaveAmounts(S)
  BY EntriesHaveAmounts
<1>9. ASSUME NEW i \in DOMAIN ts PROVE f[i] \in Seq(V1Entries) /\ SeqNet(f[i], a) = Moves(ts[i], a)
  <2>1. PICK debit, credit : /\ debit = V1(ts[i].symbol, -ts[i].amt, "transfer")
                             /\ credit = V1(ts[i].symbol, ts[i].amt, "transfer")
    OBVIOUS
  <2>2. ts[i].symbol \in Assets /\ ts[i].amt \in Int /\ -ts[i].amt \in Int
    BY <1>2
  <2>3. /\ debit \in V1Entries /\ debit.asset = ts[i].symbol /\ debit.amt = -ts[i].amt
        /\ credit \in V1Entries /\ credit.asset = ts[i].symbol /\ credit.amt = ts[i].amt
    BY <2>1, <2>2, V1Is
  <2>4. PICK u, v : /\ u = IF ts[i].from = Wallet THEN <<debit>> ELSE <<>>
                    /\ v = IF ts[i].to = Wallet THEN <<credit>> ELSE <<>>
    OBVIOUS
  <2>5. f[i] = u \o v
    BY <1>4, <2>1, <2>4
  <2>6. u \o v \in Seq(V1Entries) /\ SeqNet(u \o v, a) = Moves(ts[i], a)
    BY <1>8, <2>2, <2>3, <2>4, SidesNet
  <2> QED
    BY <2>5, <2>6
<1>10. ASSUME NEW i \in DOMAIN ts PROVE g[i] \in Seq(S) /\ SeqNet(g[i], a) = Moves(ts[i], a)
  <2>1. PICK debit, credit : /\ debit = Wl(ts[i].symbol, -ts[i].amt, "transfer", ts[i].to)
                             /\ credit = Wl(ts[i].symbol, ts[i].amt, "transfer", ts[i].from)
    OBVIOUS
  <2>2. ts[i].symbol \in Assets /\ ts[i].amt \in Int /\ -ts[i].amt \in Int
    BY <1>2
  <2>3. ts[i].to \in PartiesOf(r) /\ ts[i].from \in PartiesOf(r)
    BY <1>1 DEF PartiesOf
  <2>4. /\ debit \in S /\ debit.asset = ts[i].symbol /\ debit.amt = -ts[i].amt
        /\ credit \in S /\ credit.asset = ts[i].symbol /\ credit.amt = ts[i].amt
    BY <2>1, <2>2, <2>3, WlIs
  <2>5. PICK u, v : /\ u = IF ts[i].from = Wallet THEN <<debit>> ELSE <<>>
                    /\ v = IF ts[i].to = Wallet THEN <<credit>> ELSE <<>>
    OBVIOUS
  <2>6. g[i] = u \o v
    BY <1>5, <2>1, <2>5
  <2> HIDE DEF S
  <2>7. u \o v \in Seq(S) /\ SeqNet(u \o v, a) = Moves(ts[i], a)
    BY <1>8, <2>2, <2>4, <2>5, SidesNet
  <2> QED
    BY <2>6, <2>7
<1> HIDE DEF S
<1>11. /\ Flat(f) \in Seq(V1Entries) /\ IsCount(h, DOMAIN ts)
       /\ SeqNet(Flat(f), a) = SumFunctionOnSet(h, DOMAIN ts)
  <2>1. DOMAIN f = DOMAIN ts
    BY <1>4
  <2>2. \A i \in DOMAIN f : f[i] \in Seq(V1Entries) /\ h[i] = SeqNet(f[i], a)
    BY <1>3, <1>9, <2>1
  <2>3. DOMAIN f \in SUBSET Int /\ IsFiniteSet(DOMAIN f)
    BY <1>2, <2>1
  <2>4. /\ Flat(f) \in Seq(V1Entries) /\ IsCount(h, DOMAIN f)
        /\ SeqNet(Flat(f), a) = SumFunctionOnSet(h, DOMAIN f)
    BY <1>8, <2>2, <2>3, FlatNet
  <2> QED
    BY <2>1, <2>4
<1>12. Flat(g) \in Seq(S) /\ SeqNet(Flat(g), a) = SumFunctionOnSet(h, DOMAIN ts)
  <2>1. DOMAIN g = DOMAIN ts
    BY <1>5
  <2>2. \A i \in DOMAIN g : g[i] \in Seq(S) /\ h[i] = SeqNet(g[i], a)
    BY <1>3, <1>10, <2>1
  <2>3. DOMAIN g \in SUBSET Int /\ IsFiniteSet(DOMAIN g)
    BY <1>2, <2>1
  <2>4. Flat(g) \in Seq(S) /\ SeqNet(Flat(g), a) = SumFunctionOnSet(h, DOMAIN g)
    BY <1>8, <2>2, <2>3, FlatNet
  <2> QED
    BY <2>1, <2>4
<1> QED
  BY <1>1, <1>2, <1>6, <1>7, <1>11, <1>12 DEF S

\* The pipeline books the same, when the units of the token are known.
LEMMA KnownTransfersNet ==
    ASSUME NEW p \in Payloads, NEW a, NEW r, r = Extracted(p),
           \A i \in DOMAIN r.transfers : r.transfers[i].symbol = a => r.transfers[i].known
    PROVE  /\ SeqNet(DeriveTransfers(r), a) = SeqNet(TransferEntries(r), a)
           /\ SeqNet(DeriveWalletTransfers(r), a) = SeqNet(TransferEntries(r), a)
           /\ SeqNet(TransferEntries(r), a) \in Int
<1>1. PICK ts, f : ts = r.transfers /\ f = TransferEntries(r)
  OBVIOUS
<1>2. /\ IsEntries(f, "transfer") /\ DOMAIN f = {k \in DOMAIN ts : Sides(ts[k])}
      /\ \A i \in DOMAIN f : f[i].asset = ts[i].symbol /\ f[i].amt = Mul(ts[i].to = Wallet, ts[i].amt)
  BY <1>1, TransferEntriesAre
<1>3. PICK h : h = [i \in DOMAIN ts |-> Moves(ts[i], a)]
  OBVIOUS
<1>4. \A i \in DOMAIN ts : h[i] = Moves(ts[i], a)
  BY <1>3
<1>5. /\ IsCount(h, DOMAIN ts) /\ IsFiniteSet(DOMAIN ts)
      /\ SeqNet(DeriveTransfers(r), a) = SumFunctionOnSet(h, DOMAIN ts)
      /\ SeqNet(DeriveWalletTransfers(r), a) = SumFunctionOnSet(h, DOMAIN ts)
  BY <1>1, <1>4, DeriveTransfersNet
<1>6. ASSUME NEW i \in DOMAIN ts PROVE h[i] = AmountAt(f, a, i)
  <2>1. ts[i].amt \in Int
    BY <1>1, TransfersAre
  <2>2. ts[i].symbol = a => ts[i].known
    BY <1>1
  <2>3. i \in DOMAIN f <=> Sides(ts[i])
    BY <1>2
  <2>4. CASE ts[i].symbol # a
    BY <1>2, <1>4, <2>4 DEF AmountAt, Moves
  <2>5. CASE ts[i].symbol = a /\ Sides(ts[i])
    <3>1. AmountAt(f, a, i) = Mul(ts[i].to = Wallet, ts[i].amt)
      BY <1>2, <2>3, <2>5 DEF AmountAt
    <3>2. Mul(ts[i].to = Wallet, ts[i].amt) = IF ts[i].to = Wallet THEN ts[i].amt ELSE -ts[i].amt
      BY DEF Mul
    <3>3. (ts[i].from = Wallet) # (ts[i].to = Wallet)
      BY <2>5 DEF Sides
    <3>4. CASE ts[i].to = Wallet
      BY <1>4, <2>1, <2>5, <3>1, <3>2, <3>3, <3>4 DEF Moves
    <3>5. CASE ts[i].to # Wallet
      BY <1>4, <2>1, <2>5, <3>1, <3>2, <3>3, <3>5 DEF Moves
    <3> QED
      BY <3>4, <3>5
  <2>6. CASE ts[i].symbol = a /\ ~Sides(ts[i])
    <3>1. AmountAt(f, a, i) = 0
      BY <2>3, <2>6 DEF AmountAt
    <3>2. ts[i].from = Wallet <=> ts[i].to = Wallet
      BY <2>2, <2>6 DEF Sides
    <3>3. Moves(ts[i], a) = 0
      BY <2>1, <3>2 DEF Moves
    <3> QED
      BY <1>4, <3>1, <3>3
  <2> QED
    BY <2>4, <2>5, <2>6
<1>7. AreAmounts(f) /\ DOMAIN f \in SUBSET DOMAIN ts
  BY <1>2, EntriesAmounts
<1>8. SeqNet(f, a) = SumFunctionOnSet(h, DOMAIN ts) /\ SeqNet(f, a) \in Int
  BY <1>5, <1>6, <1>7, NetIs
<1> QED
  BY <1>1, <1>5, <1>8

\* The last balance of the history of an asset.
LEMMA HistoryNet ==
    ASSUME NEW S, HaveAmounts(S), NEW s \in Seq(S), NEW a, NEW history, history = DeriveBalanceHistory(s, a)
    PROVE  (IF history = <<>> THEN 0 ELSE Last(history)) = SeqNet(s, a)
<1>1. AreAmounts(s)
  BY ListAmounts
<1>2. PICK f : f = Restrict(s, {i \in DOMAIN s : s[i].asset = a})
  OBVIOUS
<1>3. DOMAIN f = {i \in DOMAIN s : s[i].asset = a} /\ \A i \in DOMAIN f : f[i] = s[i]
  BY <1>2 DEF Restrict
<1>4. AreAmounts(f) /\ SeqNet(f, a) = SeqNet(s, a)
  <2>1. DOMAIN f \in SUBSET DOMAIN s /\ \A i \in DOMAIN s : i \in DOMAIN f \/ s[i].amt = 0 \/ s[i].asset # a
    BY <1>3
  <2> QED
    BY <1>1, <1>3, <2>1, PartNet
<1>5. PICK own : own = InOrder(f)
  OBVIOUS
<1>6. AreAmounts(own) /\ SeqNet(own, a) = SeqNet(f, a)
  BY <1>4, <1>5, InOrderNet
<1>7. PICK at, n : /\ n \in Nat /\ InOrder(f) = [k \in 1 .. n |-> f[at[k]]]
                   /\ OneToOne(at, 1 .. n) /\ ImageOf(at, 1 .. n) = DOMAIN f
  BY <1>4, InOrderIs DEF AreAmounts
<1>8. \A k \in 1 .. n : at[k] \in DOMAIN f
  BY <1>7 DEF ImageOf
<1>9. Len(own) = n /\ DOMAIN own = 1 .. n /\ \A k \in 1 .. n : own[k].asset = a
  <2>1. own = [k \in 1 .. n |-> f[at[k]]]
    BY <1>5, <1>7
  <2>2. Len(own) = n /\ DOMAIN own = 1 .. n
    BY <1>7, <2>1
  <2>3. \A k \in 1 .. n : own[k] = f[at[k]]
    BY <2>1
  <2> QED
    BY <1>3, <1>8, <2>2, <2>3
<1>10. PICK h : h = [j \in DOMAIN own |-> own[j].amt]
  OBVIOUS
<1>11. IsCount(h, 1 .. n) /\ SeqNet(own, a) = SumFunctionOnSet(h, 1 .. n)
  <2>1. \A i \in 1 .. n : h[i] = AmountAt(own, a, i)
    BY <1>9, <1>10 DEF AmountAt
  <2>2. IsFiniteSet(1 .. n) /\ DOMAIN own \in SUBSET (1 .. n)
    BY <1>6, <1>9 DEF AreAmounts
  <2> QED
    BY <1>6, <2>1, <2>2, NetIs
<1>12. history = [i \in 1 .. n |-> SumFunctionOnSet(h, 1 .. i)]
  <2>1. history = [i \in 1 .. Len(own) |-> SumFunctionOnSet([j \in DOMAIN own |-> own[j].amt], 1 .. i)]
    BY <1>2, <1>5 DEF DeriveBalanceHistory
  <2> QED
    BY <1>9, <1>10, <2>1
<1>13. CASE n = 0
  <2>1. 1 .. n = {}
    BY <1>13
  <2>2. history = <<>>
    BY <1>12, <2>1
  <2>3. SumFunctionOnSet(h, 1 .. n) = 0
    BY <2>1, SumEmpty
  <2> QED
    BY <1>4, <1>6, <1>11, <2>2, <2>3
<1>14. CASE n # 0
  <2>1. n \in 1 .. n /\ n \in Nat
    BY <1>7, <1>14
  <2>2. Len(history) = n /\ DOMAIN history = 1 .. n /\ history[n] = SumFunctionOnSet(h, 1 .. n)
    <3> HIDE <2>1
    <3>1. DOMAIN history = 1 .. n
      BY <1>12
    <3>2. Len(history) = n
      BY <1>12, <2>1
    <3> QED
      BY <1>12, <2>1, <3>1, <3>2
  <2>3. history # <<>>
    BY <2>1, <2>2, NoList
  <2>4. Last(history) = history[n]
    BY <2>2 DEF Last
  <2> QED
    BY <1>4, <1>6, <1>11, <2>2, <2>3, <2>4
<1> QED
  BY <1>13, <1>14

LEMMA SameNet ==
    ASSUME NEW f, AreAmounts(f), NEW a, NEW g, DOMAIN g = DOMAIN f,
           \A i \in DOMAIN f : g[i].asset = f[i].asset /\ g[i].amt = f[i].amt
    PROVE  AreAmounts(g) /\ SeqNet(g, a) = SeqNet(f, a)
<1>1. PICK D : D = DOMAIN f
  OBVIOUS
<1>2. PICK h : h = [i \in D |-> AmountAt(f, a, i)]
  OBVIOUS
<1>3. IsFiniteSet(D) /\ D \in SUBSET D /\ \A i \in D : h[i] = AmountAt(f, a, i)
  BY <1>1, <1>2 DEF AreAmounts
<1>4. AreAmounts(g)
  BY DEF AreAmounts
<1>5. \A i \in D : h[i] = AmountAt(g, a, i)
  BY <1>1, <1>3 DEF AmountAt
<1>6. SeqNet(f, a) = SumFunctionOnSet(h, D)
  BY <1>1, <1>3, NetIs
<1>7. SeqNet(g, a) = SumFunctionOnSet(h, D)
  <2>1. DOMAIN g \in SUBSET D
    BY <1>1
  <2> QED
    BY <1>3, <1>4, <1>5, <2>1, NetIs
<1> QED
  BY <1>4, <1>6, <1>7

\* The wallet's own balance changes, as each derivation lists them.
LEMMA DeriveNativeNet ==
    ASSUME NEW p \in Payloads, NEW a, NEW r, r = Extracted(p)
    PROVE  LET S == WlEntries(PartiesOf(r))
           IN /\ DeriveNative(r) \in Seq(V1Entries)
              /\ SeqNet(DeriveNative(r), a) = SeqNet(NativeBalances(r), a)
              /\ DeriveWalletNative(r) \in Seq(S)
              /\ SeqNet(DeriveWalletNative(r), a) = SeqNet(NativeBalances(r), a)
<1> DEFINE S == WlEntries(PartiesOf(r))
<1>1. PICK ds, D, b : /\ ds = r.deltas /\ D = {k \in DOMAIN ds : ds[k].account = Wallet}
                      /\ b = NativeBalances(r)
  OBVIOUS
<1>2. /\ IsEntries(b, "native") /\ DOMAIN b = D
      /\ \A i \in D : b[i].asset = ds[i].token /\ b[i].amt = ds[i].amt
  BY <1>1, NativeBalancesAre
<1>3. \A i \in D : ds[i].token \in Assets /\ ds[i].amt \in Int
  BY <1>1, DeltasAre
<1>4. AreAmounts(b)
  BY <1>2, EntriesAmounts
<1>5. PICK f : f = [i \in D |-> V1(ds[i].token, ds[i].amt, IF ds[i].payer THEN "fee" ELSE "transfer")]
  OBVIOUS
<1>6. PICK g : g = [i \in D |-> Wl(ds[i].token, ds[i].amt, IF ds[i].payer THEN "fee" ELSE "transfer", "none")]
  OBVIOUS
<1>7. DeriveNative(r) = InOrder(f)
  BY <1>1, <1>5 DEF DeriveNative
<1>8. DeriveWalletNative(r) = InOrder(NonZero(g))
  BY <1>1, <1>6 DEF DeriveWalletNative, WalletDelta
<1>9. ASSUME NEW i \in D
      PROVE  f[i] \in V1Entries /\ f[i].asset = ds[i].token /\ f[i].amt = ds[i].amt
  <2>1. PICK t : t = IF ds[i].payer THEN "fee" ELSE "transfer"
    OBVIOUS
  <2>2. t \in {"fee", "transfer", "trade", "income"}
    BY <2>1
  <2>3. f[i] = V1(ds[i].token, ds[i].amt, t)
    BY <1>5, <2>1
  <2> QED
    BY <1>3, <2>2, <2>3, V1Is
<1>10. ASSUME NEW i \in D
       PROVE  g[i] \in S /\ g[i].asset = ds[i].token /\ g[i].amt = ds[i].amt
  <2>1. PICK t : t = IF ds[i].payer THEN "fee" ELSE "transfer"
    OBVIOUS
  <2>2. t \in {"fee", "transfer", "trade", "income", "funding"}
    BY <2>1
  <2>3. g[i] = Wl(ds[i].token, ds[i].amt, t, "none")
    BY <1>6, <2>1
  <2>4. "none" \in PartiesOf(r)
    BY DEF PartiesOf
  <2> QED
    BY <1>3, <2>2, <2>3, <2>4, WlIs
<1> HIDE DEF S
<1>11. DOMAIN f = D /\ DOMAIN g = D /\ IsFiniteSet(D) /\ D \in SUBSET Int
  BY <1>2, <1>4, <1>5, <1>6 DEF AreAmounts
<1>12. AreAmounts(f) /\ SeqNet(f, a) = SeqNet(b, a)
  <2>1. \A i \in DOMAIN b : f[i].asset = b[i].asset /\ f[i].amt = b[i].amt
    BY <1>2, <1>9
  <2> QED
    BY <1>2, <1>4, <1>11, <2>1, SameNet
<1>13. AreAmounts(g) /\ SeqNet(g, a) = SeqNet(b, a)
  <2>1. \A i \in DOMAIN b : g[i].asset = b[i].asset /\ g[i].amt = b[i].amt
    BY <1>2, <1>10
  <2> QED
    BY <1>2, <1>4, <1>11, <2>1, SameNet
<1>14. InOrder(f) \in Seq(V1Entries) /\ SeqNet(InOrder(f), a) = SeqNet(f, a)
  <2>1. \A i \in DOMAIN f : f[i] \in V1Entries
    BY <1>9, <1>11
  <2> QED
    BY <1>11, <1>12, <2>1, InOrderIn, InOrderNet
<1>15. AreAmounts(NonZero(g)) /\ SeqNet(NonZero(g), a) = SeqNet(g, a)
  BY <1>13, NonZeroNet
<1>16. SeqNet(InOrder(NonZero(g)), a) = SeqNet(NonZero(g), a)
  BY <1>15, InOrderNet
<1>17. InOrder(NonZero(g)) \in Seq(S)
  <2>1. PICK z : z = NonZero(g)
    OBVIOUS
  <2>2. DOMAIN z \in SUBSET DOMAIN g /\ \A i \in DOMAIN z : z[i] = g[i]
    BY <2>1 DEF NonZero, Restrict
  <2>3. \A i \in DOMAIN z : z[i] \in S
    BY <1>10, <1>11, <2>2
  <2>4. DOMAIN z \in SUBSET Int /\ IsFiniteSet(DOMAIN z)
    BY <1>15, <2>1 DEF AreAmounts
  <2> QED
    BY <2>1, <2>3, <2>4, InOrderIn
<1> QED
  BY <1>1, <1>7, <1>8, <1>12, <1>13, <1>14, <1>15, <1>16, <1>17 DEF S

AmountOf(e, a) == IF e.asset = a THEN e.amt ELSE 0

LEMMA OneAmount ==
    ASSUME NEW S, HaveAmounts(S), NEW e \in S, NEW a
    PROVE  <<e>> \in Seq(S) /\ SeqNet(<<e>>, a) = AmountOf(e, a) /\ AmountOf(e, a) \in Int
<1>1. <<e>> \in Seq(S) /\ SeqNet(<<e>>, a) = IF e.asset = a THEN e.amt ELSE 0
  BY OneNet
<1>2. AmountOf(e, a) = IF e.asset = a THEN e.amt ELSE 0
  BY DEF AmountOf
<1>3. e.amt \in Int
  BY DEF HaveAmounts
<1> QED
  BY <1>1, <1>2, <1>3

LEMMA TwoListed ==
    ASSUME NEW S, HaveAmounts(S), NEW x \in S, NEW y \in S, NEW a
    PROVE  LET l == InOrder(NonZero(<<x, y>>))
           IN l \in Seq(S) /\ SeqNet(l, a) = AmountOf(x, a) + AmountOf(y, a)
<1>1. PICK s : s = <<x, y>>
  OBVIOUS
<1>2. s \in Seq(S) /\ s = <<x>> \o <<y>>
  <2>1. PICK t, u, v : t = <<x>> /\ u = <<y>> /\ v = t \o u
    OBVIOUS
  <2>2. t \in Seq(S) /\ u \in Seq(S) /\ Len(t) = 1 /\ Len(u) = 1 /\ t[1] = x /\ u[1] = y
    BY <2>1
  <2>3. v \in Seq(S) /\ Len(v) = 2 /\ v[1] = x /\ v[2] = y
    BY <2>1, <2>2
  <2>4. s \in Seq(S) /\ Len(s) = 2 /\ s[1] = x /\ s[2] = y
    BY <1>1
  <2>5. s = v
    <3>1. \A i \in 1 .. 2 : s[i] = v[i]
      BY <2>3, <2>4
    <3> QED
      BY <2>3, <2>4, <3>1
  <2> QED
    BY <2>1, <2>4, <2>5
<1>3. /\ <<x>> \in Seq(S) /\ SeqNet(<<x>>, a) = AmountOf(x, a)
      /\ <<y>> \in Seq(S) /\ SeqNet(<<y>>, a) = AmountOf(y, a)
  BY OneAmount
<1>4. SeqNet(<<x>> \o <<y>>, a) = SeqNet(<<x>>, a) + SeqNet(<<y>>, a)
  <2>1. \A u, v \in Seq(S) : SeqNet(u \o v, a) = SeqNet(u, a) + SeqNet(v, a)
    BY ConcatNet
  <2> QED
    BY <1>3, <2>1
<1>5. AreAmounts(s)
  BY <1>2, ListAmounts
<1>6. AreAmounts(NonZero(s)) /\ SeqNet(NonZero(s), a) = SeqNet(s, a)
  BY <1>5, NonZeroNet
<1>7. SeqNet(InOrder(NonZero(s)), a) = SeqNet(NonZero(s), a)
  BY <1>6, InOrderNet
<1>8. InOrder(NonZero(s)) \in Seq(S)
  BY <1>2, ListedIn
<1>9. SeqNet(s, a) = AmountOf(x, a) + AmountOf(y, a)
  BY <1>2, <1>3, <1>4
<1> QED
  BY <1>1, <1>6, <1>7, <1>8, <1>9

LEMMA FillListed ==
    ASSUME NEW S, HaveAmounts(S), NEW e \in S, NEW x \in S, NEW y \in S, NEW a
    PROVE  LET l == <<e>> \o InOrder(NonZero(<<x, y>>))
           IN l \in Seq(S) /\ SeqNet(l, a) = AmountOf(e, a) + AmountOf(x, a) + AmountOf(y, a)
<1>1. PICK l : l = InOrder(NonZero(<<x, y>>))
  OBVIOUS
<1>2. l \in Seq(S) /\ SeqNet(l, a) = AmountOf(x, a) + AmountOf(y, a)
  BY <1>1, TwoListed
<1>3. <<e>> \in Seq(S) /\ SeqNet(<<e>>, a) = AmountOf(e, a)
  BY OneAmount
<1>4. <<e>> \o l \in Seq(S) /\ SeqNet(<<e>> \o l, a) = SeqNet(<<e>>, a) + SeqNet(l, a)
  <2>1. \A u, v \in Seq(S) : u \o v \in Seq(S) /\ SeqNet(u \o v, a) = SeqNet(u, a) + SeqNet(v, a)
    BY ConcatNet
  <2> QED
    BY <1>2, <1>3, <2>1
<1>5. AmountOf(e, a) \in Int /\ AmountOf(x, a) \in Int /\ AmountOf(y, a) \in Int
  BY OneAmount
<1> QED
  BY <1>1, <1>2, <1>3, <1>4, <1>5

\* The library's list of a fill adds up to the pipeline's entries of it.
LEMMA WalletFillsNet ==
    ASSUME NEW p \in Payloads, p.chain = "hyperliquid", NEW a, NEW r, r = Extracted(p)
    PROVE  /\ DeriveWalletFills(r) \in Seq(WlEntries(PartiesOf(r)))
           /\ SeqNet(DeriveWalletFills(r), a) = SeqNet(FillTrades(r), a) + SeqNet(FillFees(r), a)
                                                + SeqNet(FillIncome(r), a)
<1> DEFINE S == WlEntries(PartiesOf(r))
<1>1. /\ DOMAIN FillTrades(r) = DOMAIN r.fills /\ DOMAIN FillFees(r) = DOMAIN r.fills
      /\ DOMAIN FillIncome(r) = DOMAIN r.fills /\ DOMAIN r.fills \in SUBSET {1}
      /\ IsEntries(FillTrades(r), "fill") /\ IsEntries(FillFees(r), "fill_fee")
      /\ IsEntries(FillIncome(r), "fill_income")
  BY FillEntriesAre
<1>2. PICK L : L = [i \in DOMAIN r.fills |->
                      <<Wl(r.fills[i].coin, Mul(r.fills[i].side = "B", r.fills[i].size), "trade", "none")>>
                      \o InOrder(NonZero(<<Wl(FeeAsset(r.fills[i]), -r.fills[i].fee.n, "fee", "none"),
                                           Wl("USDC", r.fills[i].pnl.n, "income", "none")>>))]
  OBVIOUS
<1>3. DeriveWalletFills(r) = Flat(L) /\ DOMAIN L = DOMAIN r.fills
  BY <1>2 DEF DeriveWalletFills
<1>4. /\ SeqNet(FillTrades(r), a) = (IF 1 \in DOMAIN r.fills /\ FillTrades(r)[1].asset = a THEN FillTrades(r)[1].amt ELSE 0)
      /\ SeqNet(FillFees(r), a) = (IF 1 \in DOMAIN r.fills /\ FillFees(r)[1].asset = a THEN FillFees(r)[1].amt ELSE 0)
      /\ SeqNet(FillIncome(r), a) = (IF 1 \in DOMAIN r.fills /\ FillIncome(r)[1].asset = a THEN FillIncome(r)[1].amt ELSE 0)
  BY <1>1, NetOfOne
<1>5. CASE DOMAIN r.fills = {}
  <2>1. Flat(L) = <<>>
    BY <1>3, <1>5, FlatNone
  <2>2. Flat(L) \in Seq(S) /\ SeqNet(Flat(L), a) = 0
    BY <2>1, NoneIn, NoneNet
  <2> QED
    BY <1>3, <1>4, <1>5, <2>2
<1>6. CASE DOMAIN r.fills = {1}
  <2>1. PICK F : F = r.fills[1]
    OBVIOUS
  <2>2. PICK t, c, n : t = FillTrades(r)[1] /\ c = FillFees(r)[1] /\ n = FillIncome(r)[1]
    OBVIOUS
  <2>3. /\ t.asset \in Assets /\ t.amt \in Int /\ c.asset \in Assets /\ c.amt \in Int
        /\ n.asset \in Assets /\ n.amt \in Int
    BY <1>1, <1>6, <2>2 DEF IsEntries
  <2>4. /\ t = Entry("fill", F.coin, F.coin, Mul(F.side = "B", F.size))
        /\ c = Entry("fill_fee", F.coin, FeeAsset(F), -F.fee.n)
        /\ n = Entry("fill_income", F.coin, "USDC", F.pnl.n)
    BY <1>6, <2>1, <2>2 DEF FillTrades, FillFees, FillIncome
  <2>5. /\ t.asset = F.coin /\ t.amt = Mul(F.side = "B", F.size)
        /\ c.asset = FeeAsset(F) /\ c.amt = -F.fee.n
        /\ n.asset = "USDC" /\ n.amt = F.pnl.n
    BY <2>4, EntryIs
  <2>6. PICK e, x, y : /\ e = Wl(t.asset, t.amt, "trade", "none") /\ x = Wl(c.asset, c.amt, "fee", "none")
                       /\ y = Wl(n.asset, n.amt, "income", "none")
    OBVIOUS
  <2>7. "none" \in PartiesOf(r)
    BY DEF PartiesOf
  <2>8. /\ e \in S /\ e.asset = t.asset /\ e.amt = t.amt
        /\ x \in S /\ x.asset = c.asset /\ x.amt = c.amt
        /\ y \in S /\ y.asset = n.asset /\ y.amt = n.amt
    BY <2>3, <2>6, <2>7, WlIs
  <2>9. L[1] = <<e>> \o InOrder(NonZero(<<x, y>>))
    BY <1>2, <1>6, <2>1, <2>5, <2>6
  <2> HIDE DEF S
  <2>10. HaveAmounts(S)
    BY EntriesHaveAmounts DEF S
  <2>11. L[1] \in Seq(S) /\ SeqNet(L[1], a) = AmountOf(e, a) + AmountOf(x, a) + AmountOf(y, a)
    BY <2>8, <2>9, <2>10, FillListed
  <2>12. Flat(L) = L[1]
    BY <1>3, <1>6, <2>11, FlatOne
  <2>13. /\ AmountOf(e, a) = SeqNet(FillTrades(r), a) /\ AmountOf(x, a) = SeqNet(FillFees(r), a)
         /\ AmountOf(y, a) = SeqNet(FillIncome(r), a)
    BY <1>4, <1>6, <2>2, <2>8 DEF AmountOf
  <2> QED
    BY <1>3, <2>11, <2>12, <2>13 DEF S
<1> QED
  BY <1>1, <1>5, <1>6

LEMMA WalletFundingNet ==
    ASSUME NEW p \in Payloads, p.chain = "hyperliquid", NEW a, NEW r, r = Extracted(p)
    PROVE  /\ DeriveWalletFunding(r) \in Seq(WlEntries(PartiesOf(r)))
           /\ SeqNet(DeriveWalletFunding(r), a) = SeqNet(FundingEntries(r), a)
<1> DEFINE S == WlEntries(PartiesOf(r))
<1>1. PICK f : f = FundingEntries(r)
  OBVIOUS
<1>2. /\ DOMAIN f = DOMAIN r.funding /\ IsEntries(f, "funding") /\ DOMAIN r.funding \in SUBSET {1}
      /\ \A i \in DOMAIN r.funding : f[i].asset = "USDC" /\ f[i].amt = p.usdc.n
  BY <1>1, FundingEntriesAre
<1>3. r.funding = HlFunding(p)
  BY ExtractedIs
<1>4. SeqNet(f, a) = (IF 1 \in DOMAIN f /\ f[1].asset = a THEN f[1].amt ELSE 0)
  BY <1>2, NetOfOne
<1>5. CASE r.funding = <<>>
  <2>1. DOMAIN f = {}
    BY <1>2, <1>5
  <2>2. DeriveWalletFunding(r) = <<>>
    <3>1. Len(<<>>) = 0
      OBVIOUS
    <3>2. 1 .. Len(r.funding) = {}
      BY <1>5, <3>1
    <3> QED
      BY <3>2 DEF DeriveWalletFunding
  <2> QED
    BY <1>1, <1>4, <2>1, <2>2, NoneIn, NoneNet
<1>6. CASE r.funding # <<>>
  <2>1. PICK x : r.funding = <<x>>
    BY <1>3, <1>6 DEF HlFunding
  <2>2. Len(r.funding) = 1 /\ DOMAIN r.funding = {1} /\ r.funding[1] = x
    BY <2>1
  <2>3. f[1] = Entry("funding", x.coin, "USDC", x.amt)
    BY <1>1, <2>2 DEF FundingEntries
  <2>4. f[1].asset = "USDC" /\ f[1].amt = x.amt
    BY <2>3, EntryIs
  <2>5. x.amt \in Int /\ "USDC" \in Assets
    BY <1>2, <2>2, <2>4 DEF IsEntries
  <2>6. PICK e : e = Wl("USDC", x.amt, "funding", "none")
    OBVIOUS
  <2>7. "none" \in PartiesOf(r)
    BY DEF PartiesOf
  <2>8. e \in S /\ e.asset = "USDC" /\ e.amt = x.amt
    BY <2>5, <2>6, <2>7, WlIs
  <2>9. DeriveWalletFunding(r) = <<e>>
    <3>1. DeriveWalletFunding(r) = [i \in 1 .. 1 |-> Wl("USDC", r.funding[i].amt, "funding", "none")]
      BY <2>2 DEF DeriveWalletFunding
    <3> QED
      BY <2>2, <2>6, <3>1
  <2> HIDE DEF S
  <2>10. HaveAmounts(S)
    BY EntriesHaveAmounts DEF S
  <2>11. <<e>> \in Seq(S) /\ SeqNet(<<e>>, a) = IF e.asset = a THEN e.amt ELSE 0
    BY <2>8, <2>10, OneNet
  <2> QED
    BY <1>1, <1>2, <1>4, <2>2, <2>4, <2>8, <2>9, <2>11 DEF S
<1> QED
  BY <1>5, <1>6

-----------------------------------------------------------------------------
(* The library's records *)

\* The library's records of a payload add up to the pipeline's ledger of it.
LEMMA LibraryNet ==
    ASSUME NEW p \in Payloads, ValidImport(p), NEW a \in Assets, LibraryCovers(p, a), NEW r, r = Extracted(p)
    PROVE  /\ DeriveAllWallet(p, r) \in Seq(WlEntries(PartiesOf(r)))
           /\ SeqNet(DeriveAllWallet(p, r), a) = NetOf(Written(LedgerRecords(p, r)), a)
<1>1. PICK S : S = WlEntries(PartiesOf(r))
  OBVIOUS
<1>2. HaveAmounts(S)
  BY <1>1, EntriesHaveAmounts
<1>3. \A u, v \in Seq(S) : u \o v \in Seq(S) /\ SeqNet(u \o v, a) = SeqNet(u, a) + SeqNet(v, a)
  BY <1>2, ConcatNet
<1>4. PICK te, nm, nf, ft, ff, fi, fu, fl :
         /\ te = SeqNet(TransferEntries(r), a) /\ nm = SeqNet(NativeMoves(p, r), a)
         /\ nf = SeqNet(NativeFees(p, r), a) /\ ft = SeqNet(FillTrades(r), a) /\ ff = SeqNet(FillFees(r), a)
         /\ fi = SeqNet(FillIncome(r), a) /\ fu = SeqNet(FundingEntries(r), a) /\ fl = SeqNet(FlowEntries(p), a)
  OBVIOUS
<1>5. NetOf(Written(LedgerRecords(p, r)), a) = te + nm + nf + ft + ff + fi + fu + fl
  BY <1>4, LedgerRecordsAddUp
<1>6. PICK wt, wn, wf, wu : /\ wt = DeriveWalletTransfers(r) /\ wn = DeriveWalletNative(r)
                            /\ wf = DeriveWalletFills(r) /\ wu = DeriveWalletFunding(r)
  OBVIOUS
<1>7. wt \in Seq(S)
  <2>1. PICK h : h = [i \in DOMAIN r.transfers |-> Moves(r.transfers[i], a)]
    OBVIOUS
  <2>2. \A i \in DOMAIN r.transfers : h[i] = Moves(r.transfers[i], a)
    BY <2>1
  <2> QED
    BY <1>1, <1>6, <2>2, DeriveTransfersNet
<1>8. CASE p.chain = "solana"
  <2>1. \A i \in DOMAIN r.transfers : r.transfers[i].known
    BY <1>8, ExtractedIs, TransferIs
  <2>2. SeqNet(wt, a) = te /\ te \in Int
    BY <1>4, <1>6, <2>1, KnownTransfersNet
  <2>3. wn \in Seq(S) /\ SeqNet(wn, a) = SeqNet(NativeBalances(r), a)
    BY <1>1, <1>6, DeriveNativeNet
  <2>4. nm \in Int /\ nf \in Int /\ SeqNet(NativeBalances(r), a) = nm + nf
    BY <1>4, <1>8, NativeNet
  <2>5. ft = 0 /\ ff = 0 /\ fi = 0 /\ fu = 0
    BY <1>4, <1>8, NoFills
  <2>6. fl = 0
    <3>1. ~HasFlows(p)
      BY <1>8 DEF HasFlows
    <3> QED
      BY <1>4, <3>1, NoFlows
  <2>7. DeriveAllWallet(p, r) = wn \o wt
    BY <1>6, <1>8 DEF DeriveAllWallet
  <2>8. wn \o wt \in Seq(S) /\ SeqNet(wn \o wt, a) = SeqNet(wn, a) + SeqNet(wt, a)
    BY <1>3, <1>7, <2>3
  <2>9. SeqNet(wn \o wt, a) = te + nm + nf + ft + ff + fi + fu + fl
    BY <2>2, <2>3, <2>4, <2>5, <2>6, <2>8
  <2> QED
    BY <1>1, <1>5, <2>7, <2>8, <2>9
<1>9. CASE p.chain = "evm"
  <2>1. a # "ETH" /\ \A i \in DOMAIN p.logs : Symbol[p.logs[i].token] = a => HasDecimals(p, p.logs[i].token)
    BY <1>9 DEF LibraryCovers
  <2>2. \A i \in DOMAIN r.transfers : r.transfers[i].symbol = a => r.transfers[i].known
    <3>1. r.transfers = EvmTransfers(p)
      BY <1>9, ExtractedIs
    <3>2. \A i \in DOMAIN EvmTransfers(p) :
              /\ i \in DOMAIN p.logs /\ EvmTransfers(p)[i].symbol = Symbol[p.logs[i].token]
              /\ EvmTransfers(p)[i].known = HasDecimals(p, p.logs[i].token)
      BY <1>9, EvmTransfersList
    <3> QED
      BY <2>1, <3>1, <3>2
  <2>3. SeqNet(wt, a) = te /\ te \in Int
    BY <1>4, <1>6, <2>2, KnownTransfersNet
  <2>4. nm = 0 /\ nf = 0
    BY <1>4, <1>9, NoNative
  <2>5. ft = 0 /\ ff = 0 /\ fi = 0 /\ fu = 0
    BY <1>4, <1>9, NoFills
  <2>6. fl = 0
    BY <1>4, <1>9, <2>1, FlowsNet
  <2>7. DeriveAllWallet(p, r) = wt
    BY <1>6, <1>9 DEF DeriveAllWallet
  <2>8. SeqNet(wt, a) = te + nm + nf + ft + ff + fi + fu + fl
    BY <2>3, <2>4, <2>5, <2>6
  <2> QED
    BY <1>1, <1>5, <1>7, <2>7, <2>8
<1>10. CASE p.chain = "hyperliquid"
  <2>1. p.type \notin {"deposit", "withdraw"}
    BY <1>10 DEF LibraryCovers
  <2>2. te = 0
    <3>1. r.transfers = HlTransfers(p)
      BY <1>10, ExtractedIs
    <3>2. DOMAIN r.transfers = {}
      BY <1>10, <2>1, <3>1, HlRowsAre
    <3>3. DOMAIN TransferEntries(r) = {}
      BY <3>2, TransferEntriesAre
    <3> QED
      BY <1>4, <3>3, NetOfNothing
  <2>3. nm = 0 /\ nf = 0
    BY <1>4, <1>10, NoNative
  <2>4. fl = 0
    <3>1. ~HasFlows(p)
      BY <1>10 DEF HasFlows
    <3> QED
      BY <1>4, <3>1, NoFlows
  <2>5. wf \in Seq(S) /\ SeqNet(wf, a) = ft + ff + fi
    BY <1>1, <1>4, <1>6, <1>10, WalletFillsNet
  <2>6. wu \in Seq(S) /\ SeqNet(wu, a) = fu
    BY <1>1, <1>4, <1>6, <1>10, WalletFundingNet
  <2>7. DeriveAllWallet(p, r) = wf \o wu
    BY <1>6, <1>10 DEF DeriveAllWallet
  <2>8. wf \o wu \in Seq(S) /\ SeqNet(wf \o wu, a) = SeqNet(wf, a) + SeqNet(wu, a)
    BY <1>3, <2>5, <2>6
  <2>9. ft \in Int /\ ff \in Int /\ fi \in Int /\ fu \in Int
    <3>1. /\ IsEntries(FillTrades(r), "fill") /\ IsEntries(FillFees(r), "fill_fee")
          /\ IsEntries(FillIncome(r), "fill_income")
      BY FillEntriesAre
    <3>2. IsEntries(FundingEntries(r), "funding")
      BY FundingEntriesAre
    <3> QED
      BY <1>4, <3>1, <3>2, SeqNetType
  <2>10. SeqNet(wf \o wu, a) = te + nm + nf + ft + ff + fi + fu + fl
    BY <2>2, <2>3, <2>4, <2>5, <2>6, <2>8, <2>9
  <2> QED
    BY <1>1, <1>5, <2>7, <2>8, <2>10
<1> QED
  BY <1>8, <1>9, <1>10, PayloadIs

\* The last balance of the library's history.
LEMMA LibraryHistoryNet ==
    ASSUME NEW p \in Payloads, ValidImport(p), NEW a \in Assets, LibraryCovers(p, a), NEW r, r = Extracted(p),
           NEW history, history = DeriveBalanceHistory(DeriveAllWallet(p, r), a)
    PROVE  (IF history = <<>> THEN 0 ELSE Last(history)) = NetOf(Written(LedgerRecords(p, r)), a)
<1>1. PICK S : S = WlEntries(PartiesOf(r))
  OBVIOUS
<1>2. HaveAmounts(S)
  BY <1>1, EntriesHaveAmounts
<1>3. PICK records : records = DeriveAllWallet(p, r)
  OBVIOUS
<1>4. records \in Seq(S) /\ SeqNet(records, a) = NetOf(Written(LedgerRecords(p, r)), a)
  BY <1>1, <1>3, LibraryNet
<1>5. (IF history = <<>> THEN 0 ELSE Last(history)) = SeqNet(records, a)
  BY <1>2, <1>3, <1>4, HistoryNet
<1> QED
  BY <1>4, <1>5

\* Hyperliquid: the same entries in the same order.
LEMMA FillIs ==
    ASSUME NEW coin \in Assets, NEW side, NEW size \in Int, NEW fee, fee.n \in Int, NEW token \in Assets \cup {"none"},
           NEW pnl, pnl.n \in Int
    PROVE  V1Fill(coin, side, size, fee, token, pnl) \in Seq(V1Entries)
<1>1. PICK c : c = IF token = "none" THEN "USDC" ELSE token
  OBVIOUS
<1>2. c \in Assets /\ "USDC" \in Assets
  BY <1>1, PayloadsAssumption
<1>3. PICK m : m = Mul(side = "B", size)
  OBVIOUS
<1>4. m \in Int
  BY <1>3 DEF Mul
<1>5. PICK e, x, y : e = V1(coin, m, "trade") /\ x = V1(c, -fee.n, "fee") /\ y = V1("USDC", pnl.n, "income")
  OBVIOUS
<1>6. e \in V1Entries /\ x \in V1Entries /\ y \in V1Entries
  BY <1>2, <1>4, <1>5, V1Is
<1>7. V1Fill(coin, side, size, fee, token, pnl) = <<e>> \o InOrder(NonZero(<<x, y>>))
  BY <1>1, <1>3, <1>5 DEF V1Fill
<1>8. HaveAmounts(V1Entries)
  BY EntriesHaveAmounts
<1>9. <<e>> \o InOrder(NonZero(<<x, y>>)) \in Seq(V1Entries)
  BY <1>6, <1>8, FillListed
<1> QED
  BY <1>7, <1>9

LEMMA HlSameEntries ==
    ASSUME NEW p \in Payloads, p.chain = "hyperliquid", p.type \in {"fill", "funding"}
    PROVE  DeriveAll(p, Extracted(p)) = ParseV1(p)
<1>1. PICK r : r = Extracted(p)
  OBVIOUS
<1>2. r.fills = HlFills(p) /\ r.funding = HlFunding(p)
  BY <1>1, ExtractedIs
<1>3. /\ p.sz.n \in Int /\ p.pnl.n \in Int /\ p.fee.n \in Int /\ p.usdc.n \in Int
      /\ p.coin \in Assets /\ p.feeToken \in Assets \cup {"none"} /\ p.fee \in Fields /\ p.pnl \in Fields
  BY HyperliquidIs
<1>4. /\ DOMAIN r.fills = IF p.type = "fill" /\ Parses(p.px) /\ Parses(p.sz) THEN {1} ELSE {}
      /\ DOMAIN r.funding = IF p.type = "funding" /\ Parses(p.usdc) THEN {1} ELSE {}
  BY <1>2, HlRowsAre
<1>5. DeriveAll(p, r) = DeriveFills(r) \o DeriveFunding(r) /\ ParseV1(p) = ParseHyperliquid(p)
  BY DEF DeriveAll, ParseV1
<1>6. PICK L : L = [i \in DOMAIN r.fills |-> V1Fill(r.fills[i].coin, r.fills[i].side, r.fills[i].size,
                                                    r.fills[i].fee, r.fills[i].feeToken, r.fills[i].pnl)]
  OBVIOUS
<1>7. DeriveFills(r) = Flat(L) /\ DOMAIN L = DOMAIN r.fills
  BY <1>6 DEF DeriveFills
<1>8. PICK M : M = [i \in DOMAIN r.funding |-> V1Funding(r.funding[i].amt)]
  OBVIOUS
<1>9. DeriveFunding(r) = Flat(M) /\ DOMAIN M = DOMAIN r.funding
  BY <1>8 DEF DeriveFunding
<1>10. DOMAIN r.fills = {} => Flat(L) = <<>>
  BY <1>7, FlatNone
<1>11. DOMAIN r.funding = {} => Flat(M) = <<>>
  BY <1>9, FlatNone
<1>12. CASE p.type = "fill" /\ Parses(p.px) /\ Parses(p.sz)
  <2>1. PICK l : l = V1Fill(p.coin, p.side, p.sz.n, p.fee, p.feeToken, p.pnl)
    OBVIOUS
  <2>2. l \in Seq(V1Entries)
    BY <1>3, <2>1, FillIs
  <2>3. 1 \in DOMAIN HlFills(p)
    BY <1>2, <1>4, <1>12
  <2>4. LET f == r.fills[1]
        IN f.coin = p.coin /\ f.side = p.side /\ f.size = p.sz.n /\ f.feeToken = p.feeToken
           /\ f.pnl = Optional(p.pnl) /\ f.fee = Optional(p.fee)
    BY <1>2, <2>3, HlFillIs
  <2>5. Optional(p.pnl).n = p.pnl.n /\ Optional(p.fee).n = p.fee.n
    <3>1. \A x \in Fields : Optional(x).n = x.n
      BY DEF Fields, Optional, Parses, Absent
    <3> QED
      BY <1>3, <3>1
  <2>6. L[1] = V1Fill(p.coin, p.side, p.sz.n, Optional(p.fee), p.feeToken, Optional(p.pnl))
    BY <1>4, <1>6, <1>12, <2>4
  <2>7. V1Fill(p.coin, p.side, p.sz.n, Optional(p.fee), p.feeToken, Optional(p.pnl)) = l
    BY <2>1, <2>5 DEF V1Fill
  <2>8. Flat(L) = l
    BY <1>4, <1>7, <1>12, <2>2, <2>6, <2>7, FlatOne
  <2>9. Flat(M) = <<>>
    BY <1>4, <1>11, <1>12
  <2>10. l \o <<>> = l
    BY <2>2, ConcatEmptySeq
  <2>11. ParseHyperliquid(p) = l
    BY <1>12, <2>1 DEF ParseHyperliquid
  <2> QED
    BY <1>1, <1>5, <1>7, <1>9, <2>8, <2>9, <2>10, <2>11
<1>13. CASE p.type = "funding" /\ Parses(p.usdc)
  <2>1. PICK l : l = V1Funding(p.usdc.n)
    OBVIOUS
  <2>2. l \in Seq(V1Entries)
    <3>1. PICK t : t = IF p.usdc.n > 0 THEN "income" ELSE "fee"
      OBVIOUS
    <3>2. l = <<V1("USDC", p.usdc.n, t)>>
      BY <2>1, <3>1 DEF V1Funding
    <3>3. "USDC" \in Assets /\ t \in {"fee", "transfer", "trade", "income"}
      BY <3>1, PayloadsAssumption
    <3> QED
      BY <1>3, <3>2, <3>3, V1In
  <2>3. 1 \in DOMAIN HlFunding(p)
    BY <1>2, <1>4, <1>13
  <2>4. r.funding[1].amt = p.usdc.n
    BY <1>2, <2>3, HlFundingIs
  <2>5. M[1] = l
    BY <1>4, <1>8, <1>13, <2>1, <2>4
  <2>6. Flat(M) = l
    BY <1>4, <1>9, <1>13, <2>2, <2>5, FlatOne
  <2>7. Flat(L) = <<>>
    BY <1>4, <1>10, <1>13
  <2>8. <<>> \o l = l
    BY <2>2, ConcatEmptySeq
  <2>9. ParseHyperliquid(p) = l
    BY <1>13, <2>1 DEF ParseHyperliquid
  <2> QED
    BY <1>1, <1>5, <1>7, <1>9, <2>6, <2>7, <2>8, <2>9
<1>14. CASE /\ ~(p.type = "fill" /\ Parses(p.px) /\ Parses(p.sz))
            /\ ~(p.type = "funding" /\ Parses(p.usdc))
  <2>1. Flat(L) = <<>> /\ Flat(M) = <<>>
    BY <1>4, <1>10, <1>11, <1>14
  <2>2. <<>> \o <<>> = <<>>
    BY NoneIn, ConcatEmptySeq
  <2>3. ParseHyperliquid(p) = <<>>
    BY <1>14 DEF ParseHyperliquid
  <2> QED
    BY <1>1, <1>5, <1>7, <1>9, <2>1, <2>2, <2>3
<1> QED
  BY <1>12, <1>13, <1>14

-----------------------------------------------------------------------------
(* The parsers of V1 and Silver *)

LEMMA SumOfOne ==
    ASSUME NEW h, NEW x, h[x] \in Int
    PROVE  SumFunctionOnSet(h, {x}) = h[x]
<1>1. IsFiniteSet({x}) /\ IsCount(h, {x}) /\ x \in {x}
  BY FS_Singleton DEF IsCount
<1>2. SumFunctionOnSet(h, {x}) = h[x] + SumFunctionOnSet(h, {x} \ {x})
  BY <1>1, SumTake
<1>3. SumFunctionOnSet(h, {x} \ {x}) = 0
  <2>1. {x} \ {x} = {}
    OBVIOUS
  <2> QED
    BY <2>1, SumEmpty
<1> QED
  BY <1>2, <1>3

\* One transfer, with its amount in units of q and of m.
Scaled(t, q, u, m) ==
    /\ t.amt \in Int /\ u.amt \in Int /\ t.amt * m = u.amt * q
    /\ u.from = t.from /\ u.to = t.to /\ u.symbol = t.symbol

LEMMA ScaledMoves ==
    ASSUME NEW q \in Int, NEW m \in Int, NEW t, NEW u, Scaled(t, q, u, m), NEW a
    PROVE  Moves(t, a) * m = Moves(u, a) * q
<1>1. PICK x \in Int, y \in Int : x = t.amt /\ y = u.amt
  BY DEF Scaled
<1>2. x * m = y * q
  BY <1>1 DEF Scaled
<1>3. u.from = t.from /\ u.to = t.to /\ u.symbol = t.symbol
  BY DEF Scaled
<1>4. 0 * m = 0 * q
  OBVIOUS
<1>5. CASE t.symbol # a
  BY <1>3, <1>4, <1>5 DEF Moves
<1>6. CASE t.symbol = a
  <2>1. CASE t.to = Wallet /\ t.from # Wallet
    <3>1. Moves(t, a) = x /\ Moves(u, a) = y
      BY <1>1, <1>3, <1>6, <2>1 DEF Moves
    <3> QED
      BY <1>2, <3>1
  <2>2. CASE t.to # Wallet /\ t.from = Wallet
    <3>1. Moves(t, a) = -x /\ Moves(u, a) = -y
      BY <1>1, <1>3, <1>6, <2>2 DEF Moves
    <3>2. (-x) * m = -(x * m) /\ (-y) * q = -(y * q)
      OBVIOUS
    <3> QED
      BY <1>2, <3>1, <3>2
  <2>3. CASE (t.to = Wallet) = (t.from = Wallet)
    <3>1. Moves(t, a) = 0 /\ Moves(u, a) = 0
      BY <1>1, <1>3, <1>6, <2>3 DEF Moves
    <3> QED
      BY <1>4, <3>1
  <2> QED
    BY <2>1, <2>2, <2>3
<1> QED
  BY <1>5, <1>6

\* The amounts of a log, as Silver and as V1 normalize them.
LEMMA LogUnits ==
    ASSUME NEW p \in Payloads, p.chain = "evm", 1 \in DOMAIN p.logs, NEW log, log = p.logs[1]
    PROVE  /\ log.data.n \in Int /\ SilverUnit(p) \in Int /\ V1Unit(p) \in Int
           /\ LogAmount(p, log) = log.data.n * SilverUnit(p)
           /\ Normalized(log.data.n, TableDecimals[log.token]) = log.data.n * V1Unit(p)
<1>1. log.token \in Tokens /\ log.data.n \in Int
  BY EvmIs
<1>2. TableDecimals[log.token] \in Decimals
  BY <1>1, PayloadsAssumption
<1>3. (IF HasDecimals(p, log.token) THEN DecimalsOf(p, log.token) ELSE 0) \in Decimals
  BY <1>1, LogDecimals
<1>4. \A d \in Decimals : Quanta[d] \in Int
  BY PayloadsAssumption
<1>5. /\ SilverUnit(p) = Quanta[IF HasDecimals(p, log.token) THEN DecimalsOf(p, log.token) ELSE 0]
      /\ V1Unit(p) = Quanta[TableDecimals[log.token]]
  BY DEF SilverUnit, V1Unit
<1>6. /\ LogAmount(p, log) = log.data.n * SilverUnit(p)
      /\ Normalized(log.data.n, TableDecimals[log.token]) = log.data.n * V1Unit(p)
  BY <1>5 DEF LogAmount, Normalized
<1> QED
  BY <1>1, <1>2, <1>3, <1>4, <1>5, <1>6

\* One ERC-20 log: both parsers list the same two sides, each in its own unit.
LEMMA EvmSameNet ==
    ASSUME NEW p \in Payloads, p.chain = "evm", Comparable(p), NEW a
    PROVE  SeqNet(DeriveAll(p, Extracted(p)), a) * V1Unit(p) = SeqNet(ParseV1(p), a) * SilverUnit(p)
<1>1. PICK r, log : r = Extracted(p) /\ log = p.logs[1]
  OBVIOUS
<1>2. p.single /\ ~p.failed /\ p.value.n = 0 /\ p.gas.n = 0 /\ log.topics = 3
  BY <1>1 DEF Comparable
<1>3. /\ r.transfers = EvmTransfers(p) /\ DOMAIN p.logs = {1}
      /\ Symbol[log.token] \in Assets /\ LogAmount(p, log) \in Int
      /\ Normalized(log.data.n, TableDecimals[log.token]) \in Int
  <2>1. r.transfers = EvmTransfers(p) /\ DOMAIN p.logs = {1}
    BY <1>1, <1>2, ExtractedIs, EvmIs
  <2> QED
    BY <1>1, <2>1, LogAmountIs
<1>4. PICK n \in Int, q \in Int, m \in Int :
         /\ n = log.data.n /\ q = SilverUnit(p) /\ m = V1Unit(p) /\ LogAmount(p, log) = n * q
         /\ Normalized(log.data.n, TableDecimals[log.token]) = n * m
  BY <1>1, <1>3, LogUnits
<1>5. DOMAIN r.transfers = {k \in {1} : IsTransfer(log)}
  BY <1>1, <1>2, <1>3, EvmTransfersList
<1>6. PICK h : h = [i \in DOMAIN r.transfers |-> Moves(r.transfers[i], a)]
  OBVIOUS
<1>7. IsCount(h, DOMAIN r.transfers) /\ SeqNet(DeriveTransfers(r), a) = SumFunctionOnSet(h, DOMAIN r.transfers)
  <2>1. \A i \in DOMAIN r.transfers : h[i] = Moves(r.transfers[i], a)
    BY <1>6
  <2> QED
    BY <1>1, <2>1, DeriveTransfersNet
<1>8. DeriveAll(p, r) = DeriveTransfers(r) /\ ParseV1(p) = ParseEvm(p)
  BY DEF DeriveAll, ParseV1
<1>9. <<>> \o <<>> = <<>>
  BY NoneIn, ConcatEmptySeq
<1>10. CASE IsTransfer(log)
  <2>1. PICK t : t = r.transfers[1]
    OBVIOUS
  <2>2. 1 \in DOMAIN r.transfers /\ DOMAIN r.transfers = {1}
    BY <1>5, <1>10
  <2>3. t.from = log.from /\ t.to = log.to /\ t.symbol = Symbol[log.token] /\ t.amt = LogAmount(p, log)
    <3>1. 1 \in DOMAIN EvmTransfers(p) /\ t = EvmTransfers(p)[1]
      BY <1>3, <2>1, <2>2
    <3> QED
      BY <1>1, <3>1, EvmTransfersList
  <2>4. SeqNet(DeriveTransfers(r), a) = Moves(t, a)
    <3>1. h[1] = Moves(t, a) /\ h[1] \in Int
      BY <1>6, <1>7, <2>1, <2>2 DEF IsCount
    <3>2. SumFunctionOnSet(h, {1}) = h[1]
      BY <3>1, SumOfOne
    <3> QED
      BY <1>7, <2>2, <3>1, <3>2
  <2>5. PICK amt \in Int : amt = Normalized(log.data.n, TableDecimals[log.token])
    BY <1>3
  <2>6. PICK o : o = [from |-> log.from, to |-> log.to, symbol |-> Symbol[log.token], amt |-> amt]
    OBVIOUS
  <2>7. Moves(t, a) * m = Moves(o, a) * q
    <3>1. t.amt = n * q /\ o.amt = n * m
      BY <1>4, <2>3, <2>5, <2>6
    <3>2. o.from = t.from /\ o.to = t.to /\ o.symbol = t.symbol
      BY <2>3, <2>6
    <3>3. n * q \in Int /\ n * m \in Int /\ (n * q) * m = (n * m) * q
      OBVIOUS
    <3>4. t.amt \in Int /\ o.amt \in Int /\ t.amt * m = o.amt * q
      BY <3>1, <3>3
    <3>5. Scaled(t, q, o, m)
      BY <3>2, <3>4 DEF Scaled
    <3> QED
      BY <3>5, ScaledMoves
  <2>8. PICK debit, credit : /\ debit = V1(Symbol[log.token], -amt, "transfer")
                             /\ credit = V1(Symbol[log.token], amt, "transfer")
    OBVIOUS
  <2>9. -amt \in Int
    OBVIOUS
  <2>10. /\ debit \in V1Entries /\ debit.asset = o.symbol /\ debit.amt = -o.amt
         /\ credit \in V1Entries /\ credit.asset = o.symbol /\ credit.amt = o.amt
    BY <1>3, <2>6, <2>8, <2>9, V1Is
  <2>11. PICK u, v : /\ u = IF o.from = Wallet THEN <<debit>> ELSE <<>>
                     /\ v = IF o.to = Wallet THEN <<credit>> ELSE <<>>
    OBVIOUS
  <2>12. u \o v \in Seq(V1Entries) /\ SeqNet(u \o v, a) = Moves(o, a)
    <3>1. o.amt \in Int /\ HaveAmounts(V1Entries)
      BY <2>6, EntriesHaveAmounts
    <3> QED
      BY <2>10, <2>11, <3>1, SidesNet
  <2>13. ParseEvm(p) = u \o v \o <<>> \o <<>>
    <3>1. log.sig = "transfer" /\ log.topics >= 3 /\ Parses(log.data)
      BY <1>10 DEF IsTransfer
    <3>2. ~(p.value.n > 0) /\ ~(p.gas.n > 0)
      BY <1>2
    <3>3. PICK w : w = Normalized(log.data.n, TableDecimals[log.token])
      OBVIOUS
    <3>4. /\ u = (IF log.from = Wallet THEN <<V1(Symbol[log.token], -w, "transfer")>> ELSE <<>>)
          /\ v = (IF log.to = Wallet THEN <<V1(Symbol[log.token], w, "transfer")>> ELSE <<>>)
      BY <2>5, <2>6, <2>8, <2>11, <3>3
    <3> QED
      BY <1>1, <1>2, <3>1, <3>2, <3>3, <3>4 DEF ParseEvm
  <2>14. \A w \in Seq(V1Entries) : w \o <<>> = w
    BY ConcatEmptySeq
  <2>15. ParseEvm(p) = u \o v
    BY <2>12, <2>13, <2>14
  <2> QED
    BY <1>1, <1>4, <1>8, <2>4, <2>7, <2>12, <2>15
<1>11. CASE ~IsTransfer(log)
  <2>1. DOMAIN r.transfers = {}
    BY <1>5, <1>11
  <2>2. SeqNet(DeriveTransfers(r), a) = 0
    BY <1>7, <2>1, SumEmpty
  <2>3. ParseEvm(p) = <<>> \o <<>> \o <<>>
    <3>1. ~(p.single /\ log.sig = "transfer" /\ log.topics >= 3 /\ Parses(log.data))
      BY <1>2, <1>11 DEF IsTransfer
    <3>2. ~(p.value.n > 0) /\ ~(p.gas.n > 0)
      BY <1>2
    <3> QED
      BY <1>1, <3>1, <3>2 DEF ParseEvm
  <2>4. ParseEvm(p) = <<>>
    BY <1>9, <2>3
  <2> QED
    BY <1>1, <1>4, <1>8, <2>2, <2>4, NoneNet
<1> QED
  BY <1>10, <1>11

\* What the direct parser takes for the balance before: that of the same account.
BeforeAmt(p, b) ==
    LET same == {i \in DOMAIN p.tpre : p.tpre[i].acct = b.acct}
    IN IF same = {} THEN 0 ELSE p.tpre[Min(same)].amt

\* It is the balance of the same mint and owner, where no account was closed or
\* changed hands.
LEMMA BeforeIs ==
    ASSUME NEW p \in Payloads, p.chain = "solana", Comparable(p), NEW i \in DOMAIN p.tpost
    PROVE  BeforeAmt(p, p.tpost[i]) = Held(p.tpre, p.tpost[i])
<1>1. PICK b : b = p.tpost[i]
  OBVIOUS
<1>2. /\ p.tpre \in Seq(Balance) /\ p.tpost \in Seq(Balance)
      /\ \A j, k \in DOMAIN p.tpre : p.tpre[j].acct = p.tpre[k].acct => j = k
      /\ \A j, k \in DOMAIN p.tpost : p.tpost[j].acct = p.tpost[k].acct => j = k
  BY SolanaIs
<1>3. \A j \in DOMAIN p.tpre : \E k \in DOMAIN p.tpost : TokenKey(p.tpre[j]) = TokenKey(p.tpost[k])
  BY DEF Comparable, Range
<1>4. PICK same : same = {j \in DOMAIN p.tpre : p.tpre[j].acct = b.acct}
  OBVIOUS
<1>5. /\ Held(p.tpre, b) \in Int
      /\ \A j \in DOMAIN p.tpre : TokenKey(p.tpre[j]) = TokenKey(b) => Held(p.tpre, b) = p.tpre[j].amt
      /\ (\A j \in DOMAIN p.tpre : TokenKey(p.tpre[j]) # TokenKey(b)) => Held(p.tpre, b) = 0
  BY <1>2, HeldIs
<1>6. \A x, y : TokenKey(x) = TokenKey(y) => x.acct = y.acct
  BY DEF TokenKey
<1>7. BeforeAmt(p, b) = IF same = {} THEN 0 ELSE p.tpre[Min(same)].amt
  BY <1>4 DEF BeforeAmt
<1>8. CASE same = {}
  <2>1. \A j \in DOMAIN p.tpre : TokenKey(p.tpre[j]) # TokenKey(b)
    BY <1>4, <1>6, <1>8
  <2> QED
    BY <1>1, <1>5, <1>7, <1>8, <2>1
<1>9. CASE same # {}
  <2>1. PICK j : j = Min(same)
    OBVIOUS
  <2>2. same \in SUBSET Nat
    BY <1>2, <1>4
  <2>3. j \in same
    BY <1>9, <2>1, <2>2, MinIsLeast
  <2>4. j \in DOMAIN p.tpre /\ p.tpre[j].acct = b.acct
    BY <1>4, <2>3
  <2>5. PICK k \in DOMAIN p.tpost : TokenKey(p.tpre[j]) = TokenKey(p.tpost[k])
    BY <1>3, <2>4
  <2>6. p.tpost[k].acct = p.tpost[i].acct
    BY <1>1, <1>6, <2>4, <2>5
  <2>7. k = i
    BY <1>2, <2>6
  <2>8. Held(p.tpre, b) = p.tpre[j].amt
    BY <1>1, <1>5, <2>4, <2>5, <2>7
  <2> QED
    BY <1>1, <1>7, <1>9, <2>1, <2>8
<1> QED
  BY <1>8, <1>9

\* The wallet's token balances afterwards, less those before.
OwnTokens(p) ==
    [i \in {k \in DOMAIN p.tpost : p.tpost[k].owner = Wallet} |->
        V1(Symbol[p.tpost[i].mint], p.tpost[i].amt - BeforeAmt(p, p.tpost[i]), "transfer")]

LEMMA OwnTokensNet ==
    ASSUME NEW p \in Payloads, p.chain = "solana", Comparable(p), NEW a
    PROVE  /\ InOrder(OwnTokens(p)) \in Seq(V1Entries)
           /\ SeqNet(InOrder(OwnTokens(p)), a) = WalletHeld(p.tpost, a) - WalletHeld(p.tpre, a)
<1>1. PICK f, all, n : f = OwnTokens(p) /\ all = TokenEntries(p) /\ n = Len(p.tpost)
  OBVIOUS
<1>2. /\ all \in Seq(Balance) /\ DOMAIN all = 1 .. n + Len(p.tpre)
      /\ n \in Nat /\ Len(p.tpre) \in Nat /\ DOMAIN p.tpost = 1 .. n
      /\ \A i \in 1 .. n : all[i] = p.tpost[i]
      /\ \A i \in DOMAIN all : i > n => i - n \in 1 .. Len(p.tpre) /\ all[i] = p.tpre[i - n]
  BY <1>1, TokenEntriesAre
<1>3. /\ p.tpre \in Seq(Balance) /\ p.tpost \in Seq(Balance)
      /\ \A j, k \in DOMAIN p.tpost : p.tpost[j].acct = p.tpost[k].acct => j = k
      /\ DOMAIN p.tpre = 1 .. Len(p.tpre)
  BY SolanaIs, TokenEntriesAre
<1>4. PICK D : D = DOMAIN all
  OBVIOUS
<1>5. PICK h : h = [i \in D |-> Gained(p, a, i)]
  OBVIOUS
<1>6. /\ IsCount(h, D) /\ IsFiniteSet(D)
      /\ SumFunctionOnSet(h, D) = WalletHeld(p.tpost, a) - WalletHeld(p.tpre, a)
  <2>1. \A i \in DOMAIN TokenEntries(p) : h[i] = Gained(p, a, i)
    BY <1>1, <1>4, <1>5
  <2> QED
    BY <1>1, <1>4, <2>1, GainedNet
<1>7. /\ DOMAIN f = {k \in 1 .. n : p.tpost[k].owner = Wallet} /\ DOMAIN f \in SUBSET D
      /\ \A i \in DOMAIN f : f[i] = V1(Symbol[p.tpost[i].mint], p.tpost[i].amt - Held(p.tpre, p.tpost[i]), "transfer")
  <2>1. DOMAIN f = {k \in 1 .. n : p.tpost[k].owner = Wallet}
    BY <1>1, <1>2 DEF OwnTokens
  <2>2. DOMAIN f \in SUBSET D
    BY <1>2, <1>4, <2>1
  <2>3. \A i \in DOMAIN f : f[i] = V1(Symbol[p.tpost[i].mint], p.tpost[i].amt - BeforeAmt(p, p.tpost[i]), "transfer")
    BY <1>1 DEF OwnTokens
  <2>4. \A i \in DOMAIN f : i \in DOMAIN p.tpost
    BY <1>2, <2>1
  <2> QED
    BY <2>1, <2>2, <2>3, <2>4, BeforeIs
<1>8. \A i \in 1 .. n : p.tpost[i] \in Balance
  BY <1>2, <1>3
<1>9. ASSUME NEW i \in DOMAIN f
      PROVE  /\ f[i] \in V1Entries /\ f[i].asset = Symbol[p.tpost[i].mint]
             /\ f[i].amt = p.tpost[i].amt - Held(p.tpre, p.tpost[i])
  <2>1. Symbol[p.tpost[i].mint] \in Assets /\ p.tpost[i].amt \in Int
    BY <1>7, <1>8, PayloadsAssumption DEF Balance
  <2>2. Held(p.tpre, p.tpost[i]) \in Int
    BY ChangeType
  <2>3. p.tpost[i].amt - Held(p.tpre, p.tpost[i]) \in Int
    BY <2>1, <2>2
  <2> QED
    BY <1>7, <2>1, <2>3, V1Is
<1>10. AreAmounts(f)
  <2>1. IsFiniteSet(DOMAIN f)
    BY <1>6, <1>7, FS_Subset
  <2>2. DOMAIN f \in SUBSET Int
    BY <1>7
  <2>3. \A i \in DOMAIN f : f[i].amt \in Int
    BY <1>9 DEF V1Entries
  <2> QED
    BY <2>1, <2>2, <2>3 DEF AreAmounts
<1>11. ASSUME NEW i \in D PROVE h[i] = AmountAt(f, a, i)
  <2>1. h[i] = IF IsFirst(p, i) /\ Mine(all[i], a) THEN Change(p, all[i]) ELSE 0
    BY <1>1, <1>5 DEF Gained
  <2>2. CASE i \in 1 .. n
    <3>1. all[i] = p.tpost[i] /\ i \in DOMAIN p.tpost
      BY <1>2, <2>2
    <3>2. IsFirst(p, i)
      <4>1. \A j \in 1 .. (i - 1) : j \in 1 .. n /\ j # i
        BY <1>2, <2>2
      <4>2. \A j \in 1 .. (i - 1) : p.tpost[j].acct # p.tpost[i].acct
        BY <1>2, <1>3, <3>1, <4>1
      <4>3. \A x, y : TokenKey(x) = TokenKey(y) => x.acct = y.acct
        BY DEF TokenKey
      <4>4. ASSUME NEW j \in 1 .. (i - 1) PROVE TokenKey(all[j]) # TokenKey(all[i])
        <5>1. all[j] = p.tpost[j]
          BY <1>2, <4>1
        <5>2. all[j].acct # all[i].acct
          BY <3>1, <4>2, <5>1
        <5> QED
          BY <4>3, <5>2
      <4> QED
        BY <1>1, <4>4 DEF IsFirst
    <3>3. Change(p, all[i]) = p.tpost[i].amt - Held(p.tpre, p.tpost[i])
      <4>1. Held(p.tpost, p.tpost[i]) = p.tpost[i].amt
        BY <1>3, <3>1, HeldIs
      <4> QED
        BY <3>1, <4>1 DEF Change
    <3>4. i \in DOMAIN f <=> p.tpost[i].owner = Wallet
      BY <1>7, <2>2
    <3>5. CASE Mine(all[i], a)
      <4>1. i \in DOMAIN f /\ Symbol[p.tpost[i].mint] = a
        BY <3>1, <3>4, <3>5 DEF Mine
      <4>2. AmountAt(f, a, i) = p.tpost[i].amt - Held(p.tpre, p.tpost[i])
        BY <1>9, <4>1 DEF AmountAt
      <4> QED
        BY <2>1, <3>2, <3>3, <3>5, <4>2
    <3>6. CASE ~Mine(all[i], a)
      <4>1. i \notin DOMAIN f \/ Symbol[p.tpost[i].mint] # a
        BY <3>1, <3>4, <3>6 DEF Mine
      <4>2. AmountAt(f, a, i) = 0
        BY <1>9, <4>1 DEF AmountAt
      <4> QED
        BY <2>1, <3>6, <4>2
    <3> QED
      BY <3>5, <3>6
  <2>3. CASE i \notin 1 .. n
    <3>1. i > n /\ i - n \in 1 .. Len(p.tpre) /\ all[i] = p.tpre[i - n] /\ i \in Int
      BY <1>2, <1>4, <2>3
    <3>2. PICK k \in DOMAIN p.tpost : TokenKey(p.tpre[i - n]) = TokenKey(p.tpost[k])
      <4>1. i - n \in DOMAIN p.tpre
        BY <1>3, <3>1
      <4> QED
        BY <4>1 DEF Comparable, Range
    <3>3. k \in 1 .. (i - 1) /\ all[k] = p.tpost[k]
      BY <1>2, <3>1, <3>2
    <3>4. ~IsFirst(p, i)
      BY <1>1, <3>1, <3>2, <3>3 DEF IsFirst
    <3>5. i \notin DOMAIN f
      BY <1>7, <2>3
    <3> QED
      BY <2>1, <3>4, <3>5 DEF AmountAt
  <2> QED
    BY <2>2, <2>3
<1>12. SeqNet(f, a) = SumFunctionOnSet(h, D)
  BY <1>6, <1>7, <1>10, <1>11, NetIs
<1>13. InOrder(f) \in Seq(V1Entries)
  <2>1. DOMAIN f \in SUBSET Int /\ IsFiniteSet(DOMAIN f)
    BY <1>10 DEF AreAmounts
  <2> QED
    BY <1>9, <2>1, InOrderIn
<1>14. SeqNet(InOrder(f), a) = SeqNet(f, a)
  BY <1>10, InOrderNet
<1> QED
  BY <1>1, <1>6, <1>12, <1>13, <1>14

\* The wallet among the keys of a message, and what the direct parser lists for it.
WalletKeys(p) == {i \in DOMAIN p.keys : p.keys[i] = Wallet}
FeeOf(p) == IF Min(WalletKeys(p)) = 1 THEN <<V1("SOL", -p.fee, "fee")>> ELSE <<>>
MovedOf(p) ==
    IF p.failed THEN <<>>
    ELSE <<V1("SOL", LamportChange(p, Min(WalletKeys(p))) + (IF Min(WalletKeys(p)) = 1 THEN p.fee ELSE 0),
              "transfer")>>

\* A parsed message lists its keys: the wallet's native change is that of its key.
LEMMA LamportsAre ==
    ASSUME NEW p \in Payloads, p.chain = "solana", p.parsed,
           NEW at, at = WalletKeys(p), NEW idx, idx = Min(at)
    PROVE  /\ at = {} => Lamports(p) = 0
           /\ at # {} => /\ Lamports(p) = LamportChange(p, idx) /\ LamportChange(p, idx) \in Int
                         /\ p.failed => LamportChange(p, idx) = IF idx = 1 THEN -p.fee ELSE 0
<1>1. PICK D : D = DOMAIN AccountKeys(p)
  OBVIOUS
<1>2. AccountKeys(p) = p.keys
  BY DEF AccountKeys
<1>3. /\ \A i \in D : LamportChange(p, i) \in Int
      /\ IsFiniteSet(D) /\ D \in SUBSET Int
      /\ \A i, j \in D : AccountKeys(p)[i] = AccountKeys(p)[j] => i = j
  BY <1>1, SolanaDeltasList
<1>4. PICK q : q = [i \in at |-> LamportChange(p, i)]
  OBVIOUS
<1>5. Lamports(p) = SumFunction(q)
  BY <1>2, <1>4 DEF Lamports, WalletKeys
<1>6. PICK h : h = [i \in D |-> LamportChange(p, i)]
  OBVIOUS
<1>7. at \in SUBSET D /\ IsCount(h, D) /\ DOMAIN q = at /\ \A i \in at : q[i] = h[i]
  BY <1>1, <1>2, <1>3, <1>4, <1>6 DEF IsCount, WalletKeys
<1>8. SumFunction(q) = SumFunctionOnSet(h, at)
  <2>1. IsFiniteSet(D) /\ IsCount(h, D) /\ at \in SUBSET D
    BY <1>3, <1>7
  <2>2. DOMAIN q = at /\ \A i \in at : q[i] = h[i]
    BY <1>7
  <2> QED
    BY <2>1, <2>2, SumGiven
<1>9. CASE at = {}
  BY <1>5, <1>8, <1>9, SumEmpty
<1>10. CASE at # {}
  <2>1. \A i, j \in at : i = j
    <3>1. \A i \in at : i \in D /\ AccountKeys(p)[i] = Wallet
      BY <1>2, <1>7 DEF WalletKeys
    <3> QED
      BY <1>3, <3>1
  <2>2. at \in SUBSET Nat
    <3>1. p.keys \in Seq(STRING)
      BY PayloadIs DEF SolanaOK
    <3>2. DOMAIN p.keys \in SUBSET Nat
      BY <3>1
    <3> QED
      BY <3>2 DEF WalletKeys
  <2>3. idx \in at
    BY <1>10, <2>2, MinIsLeast
  <2>4. at = {idx} /\ idx \in D
    BY <1>7, <2>1, <2>3
  <2>5. h[idx] = LamportChange(p, idx) /\ h[idx] \in Int
    BY <1>3, <1>6, <2>4
  <2>6. SumFunctionOnSet(h, {idx}) = h[idx]
    BY <2>5, SumOfOne
  <2>7. p.failed => LamportChange(p, idx) = IF idx = 1 THEN -p.fee ELSE 0
    <3>1. SolanaOK(p)
      BY PayloadIs
    <3> QED
      BY <1>1, <2>4, <3>1 DEF SolanaOK
  <2> QED
    BY <1>5, <1>8, <1>10, <2>4, <2>5, <2>6, <2>7
<1> QED
  BY <1>9, <1>10

\* The fee and the rest of the payer's change, or the whole change of another key.
LEMMA ParsedNativeNet ==
    ASSUME NEW p \in Payloads, p.chain = "solana", p.parsed, NEW a, WalletKeys(p) # {}
    PROVE  /\ FeeOf(p) \o MovedOf(p) \in Seq(V1Entries)
           /\ SeqNet(FeeOf(p) \o MovedOf(p), a) = IF a = "SOL" THEN Lamports(p) ELSE 0
<1>1. PICK idx, c, u, v : /\ idx = Min(WalletKeys(p)) /\ c = LamportChange(p, idx)
                          /\ u = FeeOf(p) /\ v = MovedOf(p)
  OBVIOUS
<1>2. c = Lamports(p) /\ c \in Int /\ (p.failed => c = IF idx = 1 THEN -p.fee ELSE 0)
  BY <1>1, LamportsAre
<1>3. p.fee \in Int /\ "SOL" \in Assets
  BY SolanaIs, PayloadsAssumption
<1>4. PICK m, k : m = c + (IF idx = 1 THEN p.fee ELSE 0) /\ k = -p.fee
  OBVIOUS
<1>5. m \in Int /\ k \in Int
  BY <1>2, <1>3, <1>4
<1>6. PICK e, x : e = V1("SOL", k, "fee") /\ x = V1("SOL", m, "transfer")
  OBVIOUS
<1>7. /\ e \in V1Entries /\ e.asset = "SOL" /\ e.amt = k
      /\ x \in V1Entries /\ x.asset = "SOL" /\ x.amt = m
  BY <1>3, <1>5, <1>6, V1Is
<1>8. HaveAmounts(V1Entries)
  BY EntriesHaveAmounts
<1>9. /\ <<e>> \in Seq(V1Entries) /\ SeqNet(<<e>>, a) = IF a = "SOL" THEN k ELSE 0
      /\ <<x>> \in Seq(V1Entries) /\ SeqNet(<<x>>, a) = IF a = "SOL" THEN m ELSE 0
  <2>1. \A y \in V1Entries : <<y>> \in Seq(V1Entries) /\ SeqNet(<<y>>, a) = IF y.asset = a THEN y.amt ELSE 0
    BY <1>8, OneNet
  <2> QED
    BY <1>7, <2>1
<1>10. u = (IF idx = 1 THEN <<e>> ELSE <<>>) /\ v = (IF p.failed THEN <<>> ELSE <<x>>)
  BY <1>1, <1>4, <1>6 DEF FeeOf, MovedOf
<1>11. u \in Seq(V1Entries) /\ SeqNet(u, a) = IF idx = 1 /\ a = "SOL" THEN k ELSE 0
  <2>1. CASE idx = 1
    BY <1>9, <1>10, <2>1
  <2>2. CASE idx # 1
    BY <1>10, <2>2, NoneIn, NoneNet
  <2> QED
    BY <2>1, <2>2
<1>12. v \in Seq(V1Entries) /\ SeqNet(v, a) = IF ~p.failed /\ a = "SOL" THEN m ELSE 0
  <2>1. CASE ~p.failed
    BY <1>9, <1>10, <2>1
  <2>2. CASE p.failed
    BY <1>10, <2>2, NoneIn, NoneNet
  <2> QED
    BY <2>1, <2>2
<1>13. u \o v \in Seq(V1Entries) /\ SeqNet(u \o v, a) = SeqNet(u, a) + SeqNet(v, a)
  <2>1. \A y, z \in Seq(V1Entries) : y \o z \in Seq(V1Entries) /\ SeqNet(y \o z, a) = SeqNet(y, a) + SeqNet(z, a)
    BY <1>8, ConcatNet
  <2>2. u \in Seq(V1Entries) /\ v \in Seq(V1Entries)
    BY <1>11, <1>12
  <2> QED
    BY <2>1, <2>2
<1>14. CASE a # "SOL"
  BY <1>1, <1>11, <1>12, <1>13, <1>14
<1>15. CASE a = "SOL" /\ p.failed
  <2>1. SeqNet(u, a) + SeqNet(v, a) = c
    BY <1>2, <1>3, <1>4, <1>11, <1>12, <1>15
  <2> QED
    BY <1>1, <1>2, <1>13, <1>15, <2>1
<1>16. CASE a = "SOL" /\ ~p.failed
  <2>1. SeqNet(u, a) + SeqNet(v, a) = c
    BY <1>2, <1>3, <1>4, <1>11, <1>12, <1>16
  <2> QED
    BY <1>1, <1>2, <1>13, <1>16, <2>1
<1> QED
  BY <1>14, <1>15, <1>16

\* A parsed message: what both parsers list adds up to the same.
LEMMA SolanaSameNet ==
    ASSUME NEW p \in Payloads, p.chain = "solana", Comparable(p), NEW a
    PROVE  SeqNet(DeriveAll(p, Extracted(p)), a) = SeqNet(ParseV1(p), a)
<1>1. PICK r : r = Extracted(p)
  OBVIOUS
<1>2. PICK n, t : n = (IF a = "SOL" THEN Lamports(p) ELSE 0) /\ t = WalletHeld(p.tpost, a) - WalletHeld(p.tpre, a)
  OBVIOUS
<1>3. SeqNet(NativeBalances(r), a) = n /\ n \in Int
  BY <1>1, <1>2, NativeNet
<1>4. SeqNet(TransferEntries(r), a) = t /\ t \in Int
  BY <1>1, <1>2, SolanaTransfersNet
<1>5. HaveAmounts(V1Entries)
  BY EntriesHaveAmounts
<1>6. \A y, z \in Seq(V1Entries) : y \o z \in Seq(V1Entries) /\ SeqNet(y \o z, a) = SeqNet(y, a) + SeqNet(z, a)
  BY <1>5, ConcatNet
<1>7. SeqNet(DeriveAll(p, r), a) = n + t
  <2>1. DeriveAll(p, r) = DeriveNative(r) \o DeriveTransfers(r)
    BY DEF DeriveAll
  <2>2. DeriveNative(r) \in Seq(V1Entries) /\ SeqNet(DeriveNative(r), a) = n
    BY <1>1, <1>3, DeriveNativeNet
  <2>3. \A i \in DOMAIN r.transfers : r.transfers[i].known
    BY <1>1, ExtractedIs, TransferIs
  <2>4. SeqNet(DeriveTransfers(r), a) = t
    BY <1>1, <1>4, <2>3, KnownTransfersNet
  <2>5. DeriveTransfers(r) \in Seq(V1Entries)
    <3>1. PICK h : h = [i \in DOMAIN r.transfers |-> Moves(r.transfers[i], a)]
      OBVIOUS
    <3>2. \A i \in DOMAIN r.transfers : h[i] = Moves(r.transfers[i], a)
      BY <3>1
    <3> QED
      BY <1>1, <3>2, DeriveTransfersNet
  <2>6. PICK y, z : y = DeriveNative(r) /\ z = DeriveTransfers(r)
    OBVIOUS
  <2>7. SeqNet(y \o z, a) = SeqNet(y, a) + SeqNet(z, a)
    BY <1>6, <2>2, <2>5, <2>6
  <2> QED
    BY <2>1, <2>2, <2>4, <2>6, <2>7
<1>8. PICK at : at = WalletKeys(p)
  OBVIOUS
<1>9. p.parsed
  BY DEF Comparable
<1>10. PICK u, v : u = FeeOf(p) /\ v = MovedOf(p)
  OBVIOUS
<1>11. PICK sol : sol = IF at = {} THEN <<>> ELSE u \o v
  OBVIOUS
<1>12. sol \in Seq(V1Entries) /\ SeqNet(sol, a) = n
  <2>1. CASE at = {}
    <3>1. Lamports(p) = 0
      BY <1>8, <1>9, <2>1, LamportsAre
    <3> QED
      BY <1>2, <1>11, <2>1, <3>1, NoneIn, NoneNet
  <2>2. CASE at # {}
    <3>1. u \o v \in Seq(V1Entries) /\ SeqNet(u \o v, a) = IF a = "SOL" THEN Lamports(p) ELSE 0
      BY <1>8, <1>9, <1>10, <2>2, ParsedNativeNet
    <3> QED
      BY <1>2, <1>11, <2>2, <3>1
  <2> QED
    BY <2>1, <2>2
<1>13. PICK own : own = InOrder(OwnTokens(p))
  OBVIOUS
<1>14. own \in Seq(V1Entries) /\ SeqNet(own, a) = t
  BY <1>2, <1>13, OwnTokensNet
<1>15. PICK spl : spl = IF p.failed THEN <<>> ELSE own
  OBVIOUS
<1>16. spl \in Seq(V1Entries) /\ SeqNet(spl, a) = t
  <2>1. CASE ~p.failed
    BY <1>14, <1>15, <2>1
  <2>2. CASE p.failed
    <3>1. p.tpost = p.tpre
      BY <2>2, SolanaIs
    <3>2. WalletHeld(p.tpost, a) \in Int
      <4>1. PICK h : h = [i \in DOMAIN TokenEntries(p) |-> Gained(p, a, i)]
        OBVIOUS
      <4>2. \A i \in DOMAIN TokenEntries(p) : h[i] = Gained(p, a, i)
        BY <4>1
      <4> QED
        BY <4>2, GainedNet
    <3>3. t = 0
      BY <1>2, <3>1, <3>2
    <3> QED
      BY <1>15, <2>2, <3>3, NoneIn, NoneNet
  <2> QED
    BY <2>1, <2>2
<1>17. PICK s : s = sol \o spl
  OBVIOUS
<1>18. s \in Seq(V1Entries) /\ SeqNet(s, a) = n + t
  BY <1>6, <1>12, <1>16, <1>17
<1>19. ParseV1(p) = InOrder(NonZero(s))
  <2>1. ParseV1(p) = ParseSolana(p)
    BY DEF ParseV1
  <2>2. ParseSolana(p) = InOrder(NonZero(s))
    BY <1>8, <1>9, <1>10, <1>11, <1>13, <1>15, <1>17
       DEF ParseSolana, OwnTokens, BeforeAmt, WalletKeys, FeeOf, MovedOf
  <2> QED
    BY <2>1, <2>2
<1>20. SeqNet(InOrder(NonZero(s)), a) = SeqNet(s, a)
  <2>1. AreAmounts(s)
    BY <1>5, <1>18, ListAmounts
  <2>2. AreAmounts(NonZero(s)) /\ SeqNet(NonZero(s), a) = SeqNet(s, a)
    BY <2>1, NonZeroNet
  <2> QED
    BY <2>2, InOrderNet
<1> QED
  BY <1>1, <1>7, <1>18, <1>19, <1>20

LEMMA UnitsIn ==
    ASSUME NEW p \in Payloads, Comparable(p)
    PROVE  V1Unit(p) \in Int /\ SilverUnit(p) \in Int
<1>1. p.chain # "evm" => V1Unit(p) = 1 /\ SilverUnit(p) = 1
  BY DEF V1Unit, SilverUnit
<1>2. CASE p.chain = "evm"
  <2>1. p.single
    BY <1>2 DEF Comparable
  <2>2. 1 \in DOMAIN p.logs
    BY <1>2, <2>1, EvmIs
  <2> QED
    BY <1>2, <2>2, LogUnits
<1> QED
  BY <1>1, <1>2

\* Both parsers of a payload agree, each in its own unit.
LEMMA SameEntries ==
    ASSUME NEW p \in Payloads, Comparable(p)
    PROVE  LET derivedOf == DeriveAll(p, Extracted(p))
           IN /\ \A a \in Assets :
                    SeqNet(derivedOf, a) * V1Unit(p) = SeqNet(ParseV1(p), a) * SilverUnit(p)
              /\ p.chain = "hyperliquid" => derivedOf = ParseV1(p)
<1>1. p.chain = "hyperliquid" => DeriveAll(p, Extracted(p)) = ParseV1(p)
  <2>1. p.chain = "hyperliquid" => p.type \in {"fill", "funding"}
    BY DEF Comparable
  <2> QED
    BY <2>1, HlSameEntries
<1>2. p.chain # "evm" => V1Unit(p) = 1 /\ SilverUnit(p) = 1
  BY DEF V1Unit, SilverUnit
<1> QED
  BY <1>1, <1>2, PayloadIs, EvmSameNet, SolanaSameNet

-----------------------------------------------------------------------------
(* The derivations agree *)

LEMMA SlInvAgree == SlInv => DerivationsAgree
<1> SUFFICES ASSUME SlInv PROVE DerivationsAgree
  OBVIOUS
<1>1. payload \in Payloads
  BY DEF SlInv
<1>2. BalancesFollowLedger
  BY SlInvBalances
<1>3. DerivedMatchesV1
  <2>1. CASE entries = <<>> /\ derived = <<>>
    <3>1. \A a : SeqNet(derived, a) = 0 /\ SeqNet(entries, a) = 0
      BY <2>1, NoneNet
    <3>2. Comparable(payload) => V1Unit(payload) \in Int /\ SilverUnit(payload) \in Int
      BY <1>1, UnitsIn
    <3>3. \A x \in Int : 0 * x = 0
      OBVIOUS
    <3> QED
      BY <2>1, <3>1, <3>2, <3>3 DEF DerivedMatchesV1
  <2>2. CASE entries = ParseV1(payload) /\ derived = DeriveAll(payload, Extracted(payload))
    BY <1>1, <2>2, SameEntries DEF DerivedMatchesV1
  <2> QED
    BY <2>1, <2>2 DEF SlInv
<1>4. LibraryMatchesPipeline
  <2> SUFFICES ASSUME step = "ledger", NEW a \in Assets, LibraryCovers(payload, a),
                      NEW history, history = DeriveBalanceHistory(DeriveAllWallet(payload, rows), a)
               PROVE  (IF history = <<>> THEN 0 ELSE Last(history)) = NetOf(ledger, a)
    BY DEF LibraryMatchesPipeline
  <2>1. ValidImport(payload) /\ rows = Extracted(payload) /\ ledger = Written(LedgerRecords(payload, rows))
    BY DEF SlInv, LedgerOf
  <2> QED
    BY <1>1, <2>1, LibraryHistoryNet
<1> QED
  BY <1>2, <1>3, <1>4 DEF DerivationsAgree

\* The places that derive what a wallet holds agree about every payload: the gold
\* ledger and balance history, the V1 parsers and the entries derived from Silver, each
\* in the units it normalizes by, and the library's own balance history.
THEOREM DerivationsHold == SlSpec => []DerivationsAgree
  BY SlInvariant, SlInvAgree, PTL
=============================================================================
