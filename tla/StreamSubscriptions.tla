------------------------- MODULE StreamSubscriptions -------------------------
(***************************************************************************)
(* Stream subscriptions: the stream_subscriptions statements of            *)
(* v2_repo.rs, the start and stop handlers, and the orchestrator of        *)
(* api/src/stream_worker.rs with the stream tasks it spawns.               *)
(*                                                                         *)
(* A task holds a permit of its process's stream_semaphore until it ends,  *)
(* so tasks are known by their permits.  active is the key set of          *)
(* active_streams; a task's token is "held" while the map has it.  The     *)
(* messages of a stream are only counted.  flushed is history.  The run,   *)
(* match and materialization rows of a flush are left out: nothing here    *)
(* reads them; so is actual_status, which is only displayed.               *)
(***************************************************************************)
EXTENDS Integers

CONSTANTS
    Orchestrators,  \* one per process start
    NoOwner,        \* lease_owner IS NULL
    Subs,           \* stream_subscriptions rows
    NoSub,          \* no subscription
    Permits,        \* the permits of all processes
    Holder,         \* the process of each permit
    MaxMessages,    \* bound: messages received
    MaxFaults       \* bound: failed calls and leases that expire under a live task

ASSUME ConstantsAssumption ==
    /\ NoOwner \notin Orchestrators /\ NoSub \notin Subs
    /\ Holder \in [Permits -> Orchestrators]
    /\ MaxMessages \in Nat /\ MaxFaults \in Nat

VARIABLES
    desired,    \* desired_status ("absent": no row)
    owner,      \* lease_owner
    fresh,      \* the subscriptions whose heartbeat_at is under five minutes old
    cursor,     \* tx_count in cursor_state and in the v2 checkpoint
    flushed,    \* history: messages stored in raw_transactions
    loop,       \* where each orchestrator is
    stopping,   \* the orchestrators whose shutdown token is cancelled
    todo,       \* subscriptions left in the current poll, reconcile or drain
    seen,       \* the cursors in the rows a poll has listed
    releasing,  \* the subscription whose lease the orchestrator is releasing
    active,     \* keys of each active_streams
    pc,         \* where each task is ("free": the permit is)
    then,       \* where its flush returns to
    sub,        \* its subscription
    token,      \* its cancellation token
    count,      \* its tx_count
    batch,      \* its unflushed messages
    received,   \* messages received so far
    faults      \* faults so far

leaseVars == <<desired, owner, fresh>>
loopVars  == <<loop, stopping, todo, seen, releasing, active>>
taskVars  == <<pc, then, sub, token, count, batch>>
vars == <<leaseVars, cursor, flushed, loopVars, taskVars, received, faults>>

LoopLocations == {"idle", "poll", "reconcile", "drain", "ended", "exited"}
TaskLocations == {"free", "run", "flush", "cursor", "release", "fail"}

Init ==
    /\ desired = [s \in Subs |-> "absent"]
    /\ owner = [s \in Subs |-> NoOwner]
    /\ fresh = {}
    /\ cursor = [s \in Subs |-> 0]
    /\ flushed = [s \in Subs |-> 0]
    /\ loop = [w \in Orchestrators |-> "idle"]
    /\ stopping = {}
    /\ todo = [w \in Orchestrators |-> {}]
    /\ seen = [w \in Orchestrators |-> [s \in Subs |-> 0]]
    /\ releasing = [w \in Orchestrators |-> NoSub]
    /\ active = [w \in Orchestrators |-> {}]
    /\ pc = [p \in Permits |-> "free"]
    /\ then = [p \in Permits |-> "run"]
    /\ sub = [p \in Permits |-> NoSub]
    /\ token = [p \in Permits |-> "none"]
    /\ count = [p \in Permits |-> 0]
    /\ batch = [p \in Permits |-> 0]
    /\ received = 0
    /\ faults = 0

Fault   == faults < MaxFaults /\ faults' = faults + 1
NoFault == UNCHANGED faults

-----------------------------------------------------------------------------
(* The API handlers *)

\* start_stream: upsert_stream_subscription leaves lease and cursor alone.
Start(s) ==
    /\ desired[s] # "active"
    /\ desired' = [desired EXCEPT ![s] = "active"]
    /\ UNCHANGED <<owner, fresh, cursor, flushed, loopVars, taskVars, received, faults>>

\* stop_stream: set_stream_desired_status.
Stop(s) ==
    /\ desired[s] = "active"
    /\ desired' = [desired EXCEPT ![s] = "stopped"]
    /\ UNCHANGED <<owner, fresh, cursor, flushed, loopVars, taskVars, received, faults>>

-----------------------------------------------------------------------------
(* The lease *)

Claimable(s) == desired[s] = "active" /\ (owner[s] = NoOwner \/ s \notin fresh)

\* release_stream_lease: refused unless the lease bears the worker's id.
ReleaseLease(s, w) ==
    IF owner[s] = w
    THEN owner' = [owner EXCEPT ![s] = NoOwner] /\ fresh' = fresh \ {s}
    ELSE UNCHANGED <<owner, fresh>>

\* Somebody whose calls take far less than five minutes is at work on s.
Attended(s) ==
    \/ \E p \in Permits : pc[p] # "free" /\ sub[p] = s /\ Holder[p] = owner[s]
    \/ \E w \in Orchestrators : releasing[w] = s /\ owner[s] = w

Expire(s) ==
    /\ owner[s] # NoOwner /\ s \in fresh
    /\ fresh' = fresh \ {s}
    /\ IF Attended(s) THEN Fault ELSE NoFault
    /\ UNCHANGED <<desired, owner, cursor, flushed, loopVars, taskVars, received>>

-----------------------------------------------------------------------------
(* The orchestrator: a poll or a reconcile runs to its end before the next  *)
(* turn of the select loop, which is where shutdown is noticed.             *)

\* The loop over S goes on, or ends; rows behind it are forgotten.
Remaining(w, S) ==
    /\ todo' = [todo EXCEPT ![w] = S]
    /\ seen' = [seen EXCEPT ![w] = [s \in Subs |-> IF s \in S THEN @[s] ELSE 0]]
    /\ loop' = [loop EXCEPT ![w] = IF S # {} THEN @
                                   ELSE IF @ = "drain" THEN "ended" ELSE "idle"]

\* list_claimable_stream_subscriptions: the rows, cursors included, as they
\* are now.
Poll(w) ==
    /\ loop[w] = "idle"
    /\ \E s \in Subs : Claimable(s)
    /\ loop' = [loop EXCEPT ![w] = "poll"]
    /\ todo' = [todo EXCEPT ![w] = {s \in Subs : Claimable(s)}]
    /\ seen' = [seen EXCEPT ![w] = [s \in Subs |-> IF Claimable(s) THEN cursor[s] ELSE 0]]
    /\ UNCHANGED <<leaseVars, cursor, flushed, stopping, releasing, active, taskVars, received, faults>>

\* Mutant: the map of running streams is not consulted.
RunningAnywhere(w, s) == FALSE

\* active_streams.contains_key
RunningLocally(w, s) == s \in active[w]

\* No lease for s in this poll: it is running here, or was claimed meanwhile,
\* or the claim is reported as failed, perhaps after it was made.  Without a
\* permit the poll ends.
Skip(w, s) ==
    /\ loop[w] = "poll" /\ s \in todo[w]
    /\ \/ /\ RunningLocally(w, s) \/ ~ Claimable(s)
          /\ Remaining(w, todo[w] \ {s}) /\ NoFault /\ UNCHANGED <<owner, fresh>>
       \/ /\ ~ RunningLocally(w, s)
          /\ \A p \in Permits : Holder[p] = w => pc[p] # "free"
          /\ Remaining(w, {}) /\ NoFault /\ UNCHANGED <<owner, fresh>>
       \/ /\ ~ RunningLocally(w, s) /\ Claimable(s) /\ Fault
          /\ Remaining(w, todo[w] \ {s})
          /\ \/ owner' = [owner EXCEPT ![s] = w] /\ fresh' = fresh \cup {s}
             \/ UNCHANGED <<owner, fresh>>
    /\ UNCHANGED <<desired, cursor, flushed, stopping, releasing, active, taskVars, received>>

\* claim_stream_lease and spawn_stream_task, which starts from the listed row.
\* A token the map already had for s is dropped uncancelled by the insert.
Claim(w, s, p) ==
    /\ loop[w] = "poll" /\ s \in todo[w]
    /\ ~ RunningLocally(w, s)
    /\ Holder[p] = w /\ pc[p] = "free"
    /\ Claimable(s)
    /\ owner' = [owner EXCEPT ![s] = w]
    /\ fresh' = fresh \cup {s}
    /\ active' = [active EXCEPT ![w] = @ \cup {s}]
    /\ pc' = [pc EXCEPT ![p] = "run"]
    /\ sub' = [sub EXCEPT ![p] = s]
    /\ token' = [q \in Permits |-> IF q = p THEN "held"
                                   ELSE IF Holder[q] = w /\ sub[q] = s /\ token[q] = "held"
                                   THEN "dropped" ELSE token[q]]
    /\ count' = [count EXCEPT ![p] = seen[w][s]]
    /\ batch' = [batch EXCEPT ![p] = 0]
    /\ Remaining(w, todo[w] \ {s})
    /\ UNCHANGED <<desired, cursor, flushed, stopping, releasing, then, received, faults>>

\* active_streams.remove(s) and stream.cancel.cancel()
CancelStream(w, s) ==
    /\ active' = [active EXCEPT ![w] = @ \ {s}]
    /\ token' = [q \in Permits |-> IF Holder[q] = w /\ sub[q] = s /\ token[q] = "held"
                                   THEN "cancelled" ELSE token[q]]
    /\ UNCHANGED <<pc, then, sub, count, batch>>

Reconcile(w) ==
    /\ loop[w] = "idle" /\ active[w] # {}
    /\ loop' = [loop EXCEPT ![w] = "reconcile"]
    /\ todo' = [todo EXCEPT ![w] = active[w]]
    /\ UNCHANGED <<leaseVars, cursor, flushed, stopping, seen, releasing, active, taskVars,
                   received, faults>>

\* The row of one running stream: to be stopped, taken by somebody else, or
\* as it should be; or it cannot be read.
CheckStream(w, s) ==
    /\ loop[w] = "reconcile" /\ s \in todo[w] /\ releasing[w] = NoSub
    /\ \/ /\ desired[s] # "active"
          /\ CancelStream(w, s)
          /\ releasing' = [releasing EXCEPT ![w] = s]
          /\ NoFault /\ UNCHANGED <<loop, todo, seen>>
       \/ /\ desired[s] = "active" /\ owner[s] # w
          /\ CancelStream(w, s)
          /\ Remaining(w, todo[w] \ {s}) /\ NoFault /\ UNCHANGED releasing
       \/ /\ desired[s] = "active" /\ owner[s] = w
          /\ Remaining(w, todo[w] \ {s}) /\ NoFault /\ UNCHANGED <<releasing, active, taskVars>>
       \/ Fault /\ Remaining(w, todo[w] \ {s}) /\ UNCHANGED <<releasing, active, taskVars>>
    /\ UNCHANGED <<leaseVars, cursor, flushed, stopping, received>>

\* After the loop: every stream is cancelled and its lease released.
Drain(w) ==
    /\ loop[w] = "idle" /\ w \in stopping
    /\ loop' = [loop EXCEPT ![w] = IF active[w] = {} THEN "ended" ELSE "drain"]
    /\ todo' = [todo EXCEPT ![w] = active[w]]
    /\ UNCHANGED <<leaseVars, cursor, flushed, stopping, seen, releasing, active, taskVars,
                   received, faults>>

DrainStream(w, s) ==
    /\ loop[w] = "drain" /\ s \in todo[w] /\ releasing[w] = NoSub
    /\ CancelStream(w, s)
    /\ releasing' = [releasing EXCEPT ![w] = s]
    /\ UNCHANGED <<leaseVars, cursor, flushed, loop, stopping, todo, seen, received, faults>>

\* The orchestrator's release of a stream it has cancelled; its error is ignored.
Release(w) ==
    /\ releasing[w] # NoSub
    /\ \/ ReleaseLease(releasing[w], w) /\ NoFault
       \/ Fault /\ UNCHANGED <<owner, fresh>>
    /\ releasing' = [releasing EXCEPT ![w] = NoSub]
    /\ Remaining(w, todo[w] \ {releasing[w]})
    /\ UNCHANGED <<desired, cursor, flushed, stopping, active, taskVars, received>>

LoopStep(w) ==
    \/ \E s \in Subs :
        \/ Skip(w, s) \/ CheckStream(w, s) \/ DrainStream(w, s)
        \/ \E p \in Permits : Claim(w, s, p)
    \/ Release(w)

-----------------------------------------------------------------------------
(* A task: run_solana_grpc_stream or run_hyperliquid_ws_stream, then         *)
(* spawn_stream_task                                                        *)

Goto(p, l) == pc' = [pc EXCEPT ![p] = l]

\* Back from a flush to where it was asked for.
Return(p) == Goto(p, then[p]) /\ then' = [then EXCEPT ![p] = "run"]

\* A message; the batch is flushed when it is large or old enough.
Receive(p) ==
    /\ pc[p] = "run" /\ received < MaxMessages
    /\ received' = received + 1
    /\ batch' = [batch EXCEPT ![p] = @ + 1]
    /\ count' = [count EXCEPT ![p] = @ + 1]
    /\ \/ UNCHANGED <<pc, then>>
       \/ Goto(p, "flush") /\ then' = [then EXCEPT ![p] = "run"]
    /\ UNCHANGED <<leaseVars, cursor, flushed, loopVars, sub, token, faults>>

\* A refused heartbeat ends the stream, with what it had not flushed.
Heartbeat(p) ==
    /\ pc[p] = "run"
    /\ \/ owner[sub[p]] = Holder[p] /\ fresh' = fresh \cup {sub[p]} /\ UNCHANGED pc
       \/ owner[sub[p]] # Holder[p] /\ Goto(p, "release") /\ UNCHANGED fresh
    /\ UNCHANGED <<desired, owner, cursor, flushed, loopVars, then, sub, token, count, batch,
                   received, faults>>

\* The stream ends: what is left is flushed first.
Leave(p, l) ==
    /\ IF batch[p] = 0 THEN Goto(p, l) /\ UNCHANGED then
                       ELSE Goto(p, "flush") /\ then' = [then EXCEPT ![p] = l]
    /\ UNCHANGED <<leaseVars, cursor, flushed, loopVars, sub, token, count, batch, received, faults>>

Cancelled(p) == pc[p] = "run" /\ token[p] = "cancelled" /\ Leave(p, "release")

\* The adapter is out of retries or the remote closed; or no adapter could be
\* made at all.
ChannelClosed(p) == pc[p] = "run" /\ Leave(p, "fail")

\* Mutant: the cursor is written whether or not the batch was stored.
FlushUnchecked(p) ==
    /\ pc[p] = "flush"
    /\ flushed' = [flushed EXCEPT ![sub[p]] = @ + batch[p]] \/ UNCHANGED flushed
    /\ batch' = [batch EXCEPT ![p] = 0]
    /\ Goto(p, "cursor")
    /\ UNCHANGED <<leaseVars, cursor, loopVars, then, sub, token, count, received, faults>>

\* flush_stream_batch: on error the batch is kept for the next flush, if there
\* is one.
Flush(p) ==
    /\ pc[p] = "flush"
    /\ \/ /\ flushed' = [flushed EXCEPT ![sub[p]] = @ + batch[p]]
          /\ batch' = [batch EXCEPT ![p] = 0]
          /\ Goto(p, "cursor")
          /\ UNCHANGED then
       \/ Return(p) /\ UNCHANGED <<flushed, batch>>
    /\ UNCHANGED <<leaseVars, cursor, loopVars, sub, token, count, received, faults>>

\* update_stream_cursor asks for no lease; an error is not fatal.
UpdateCursor(p) ==
    /\ pc[p] = "cursor"
    /\ cursor' = [cursor EXCEPT ![sub[p]] = count[p]] \/ UNCHANGED cursor
    /\ Return(p)
    /\ UNCHANGED <<leaseVars, flushed, loopVars, sub, token, count, batch, received, faults>>

\* The task is over and the permit free; active_streams is not told.
End(p) ==
    /\ Goto(p, "free")
    /\ sub' = [sub EXCEPT ![p] = NoSub]
    /\ token' = [token EXCEPT ![p] = "none"]
    /\ count' = [count EXCEPT ![p] = 0]
    /\ batch' = [batch EXCEPT ![p] = 0]
    /\ UNCHANGED then

\* release_stream_lease after a clean exit
EndRelease(p) ==
    /\ pc[p] = "release"
    /\ \/ ReleaseLease(sub[p], Holder[p]) /\ NoFault
       \/ Fault /\ UNCHANGED <<owner, fresh>>
    /\ End(p)
    /\ UNCHANGED <<desired, cursor, flushed, loopVars, received>>

\* fail_stream_subscription also withdraws the intent.
EndFail(p) ==
    /\ pc[p] = "fail"
    /\ \/ /\ owner[sub[p]] = Holder[p]
          /\ desired' = [desired EXCEPT ![sub[p]] = "stopped"]
          /\ ReleaseLease(sub[p], Holder[p])
          /\ NoFault
       \/ owner[sub[p]] # Holder[p] /\ NoFault /\ UNCHANGED leaseVars
       \/ Fault /\ UNCHANGED leaseVars
    /\ End(p)
    /\ UNCHANGED <<cursor, flushed, loopVars, received>>

TaskStep(p) ==
    Cancelled(p) \/ Flush(p) \/ UpdateCursor(p) \/ EndRelease(p) \/ EndFail(p)

-----------------------------------------------------------------------------
(* Process exit *)

Shutdown(w) ==
    /\ loop[w] # "exited" /\ w \notin stopping
    /\ stopping' = stopping \cup {w}
    /\ UNCHANGED <<leaseVars, cursor, flushed, loop, todo, seen, releasing, active, taskVars,
                   received, faults>>

\* main returns once the server has stopped; it waits for no task.
Exit(w) ==
    /\ w \in stopping /\ loop[w] # "exited"
    /\ loop' = [loop EXCEPT ![w] = "exited"]
    /\ todo' = [todo EXCEPT ![w] = {}]
    /\ releasing' = [releasing EXCEPT ![w] = NoSub]
    /\ active' = [active EXCEPT ![w] = {}]
    /\ pc' = [p \in Permits |-> IF Holder[p] = w THEN "free" ELSE pc[p]]
    /\ sub' = [p \in Permits |-> IF Holder[p] = w THEN NoSub ELSE sub[p]]
    /\ token' = [p \in Permits |-> IF Holder[p] = w THEN "none" ELSE token[p]]
    /\ count' = [p \in Permits |-> IF Holder[p] = w THEN 0 ELSE count[p]]
    /\ batch' = [p \in Permits |-> IF Holder[p] = w THEN 0 ELSE batch[p]]
    /\ then' = [p \in Permits |-> IF Holder[p] = w THEN "run" ELSE then[p]]
    /\ seen' = [seen EXCEPT ![w] = [s \in Subs |-> 0]]
    /\ UNCHANGED <<leaseVars, cursor, flushed, stopping, received, faults>>

-----------------------------------------------------------------------------

Next ==
    \/ \E s \in Subs : Start(s) \/ Stop(s) \/ Expire(s)
    \/ \E w \in Orchestrators :
        Poll(w) \/ Reconcile(w) \/ Drain(w) \/ LoopStep(w) \/ Shutdown(w) \/ Exit(w)
    \/ \E p \in Permits : Receive(p) \/ Heartbeat(p) \/ ChannelClosed(p) \/ TaskStep(p)

Spec == Init /\ [][Next]_vars

\* Every call returns; the select loops choose at random among the arms that
\* are ready, so an arm that is ready again and again is taken; the lease of a
\* subscription nobody attends to runs out.
Fairness ==
    /\ \A w \in Orchestrators :
        /\ WF_vars(LoopStep(w)) /\ WF_vars(Exit(w))
        /\ SF_vars(Poll(w)) /\ SF_vars(Reconcile(w))
    /\ \A p \in Permits : SF_vars(Cancelled(p)) /\ WF_vars(TaskStep(p))
    /\ \A s \in Subs : WF_vars(~ Attended(s) /\ Expire(s))

FairSpec == Spec /\ Fairness

-----------------------------------------------------------------------------
(* Properties *)

\* Types of the rows, the orchestrators and the tasks.
TypeOK ==
    /\ desired \in [Subs -> {"absent", "active", "stopped"}]
    /\ owner \in [Subs -> Orchestrators \cup {NoOwner}]
    /\ fresh \subseteq Subs
    /\ cursor \in [Subs -> Nat] /\ flushed \in [Subs -> Nat]
    /\ loop \in [Orchestrators -> LoopLocations]
    /\ stopping \subseteq Orchestrators
    /\ todo \in [Orchestrators -> SUBSET Subs]
    /\ seen \in [Orchestrators -> [Subs -> Nat]]
    /\ releasing \in [Orchestrators -> Subs \cup {NoSub}]
    /\ active \in [Orchestrators -> SUBSET Subs]
    /\ pc \in [Permits -> TaskLocations]
    /\ then \in [Permits -> {"run", "release", "fail"}]
    /\ sub \in [Permits -> Subs \cup {NoSub}]
    /\ token \in [Permits -> {"none", "held", "dropped", "cancelled"}]
    /\ count \in [Permits -> Nat] /\ batch \in [Permits -> Nat]
    /\ received \in 0..MaxMessages
    /\ faults \in 0..MaxFaults

\* A stream the orchestrator has not told to end is one it still can: its token
\* is in active_streams, which has one for each subscription.  Cancelled
\* predecessors may still be flushing (poll_and_claim, reconcile).
StreamsAreControlled ==
    /\ \A p \in Permits : pc[p] # "free" /\ token[p] # "cancelled" =>
        token[p] = "held" /\ sub[p] \in active[Holder[p]]
    /\ \A p, q \in Permits :
        token[p] = "held" /\ token[q] = "held" /\ Holder[p] = Holder[q] /\ sub[p] = sub[q] => p = q

\* The cursor counts no message that was not stored, though tasks of several
\* owners write it without a lease and start from rows listed before their
\* claim (flush_stream_batch, update_stream_cursor).
CursorIsBacked == \A s \in Subs : cursor[s] <= flushed[s]

\* "If desired_status changed to 'stopped', cancel the task" (reconcile): a
\* stopped stream stops running, in every process, unless it is started again.
StopTakesEffect ==
    \A s \in Subs : (desired[s] = "stopped") ~>
        (desired[s] = "active" \/ \A p \in Permits : ~ (pc[p] = "run" /\ sub[p] = s))

\* "Polls for claimable subscriptions (active + unclaimed/stale)" and "Claims
\* leases and spawns stream tasks" (spawn_stream_orchestrator): an active
\* subscription is streamed sooner or later, while an orchestrator is left.
ActiveIsStreamed ==
    \A s \in Subs : (desired[s] = "active") ~>
        \/ desired[s] # "active"
        \/ \E p \in Permits : pc[p] = "run" /\ sub[p] = s
        \/ stopping = Orchestrators

-----------------------------------------------------------------------------
(* The inductive invariant behind the safety properties *)

\* A permit in use has a subscription and a token; a cursor is about to be
\* written only after the whole batch is stored.
TaskShape ==
    \A p \in Permits :
        /\ pc[p] = "free" => sub[p] = NoSub /\ token[p] = "none"
        /\ pc[p] # "free" => sub[p] \in Subs /\ token[p] # "none"
        /\ pc[p] = "cursor" => batch[p] = 0

\* What a task has counted beyond its batch is stored, and so is what a poll
\* has read.
CountsAreBacked ==
    /\ \A p \in Permits : pc[p] # "free" => count[p] <= flushed[sub[p]] + batch[p]
    /\ \A w \in Orchestrators, s \in Subs : seen[w][s] <= flushed[s]

\* Inductive: it implies the safety properties and every step keeps it.
StreamInv ==
    /\ TypeOK
    /\ TaskShape
    /\ StreamsAreControlled
    /\ CountsAreBacked
    /\ CursorIsBacked
=============================================================================
