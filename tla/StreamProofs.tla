---------------------------- MODULE StreamProofs ----------------------------
(***************************************************************************)
(* Proofs about the streams, for any processes, permits, rows, messages,   *)
(* slots, tasks and faults and any sizes of channel and batch.  First      *)
(* StreamSubscriptions: who may stream, and what the stored cursor stands  *)
(* for.  Then StreamSource: a gRPC stream is resumed without loss, from    *)
(* the connection's checkpoint and from the stored cursor.                 *)
(***************************************************************************)
EXTENDS StreamSubscriptions, StreamSource, TLAPS

-----------------------------------------------------------------------------
(* Subscriptions and the orchestrator *)


LeaseType ==
    /\ desired \in [Subs -> {"absent", "active", "stopped"}]
    /\ owner \in [Subs -> Orchestrators \cup {NoOwner}]
    /\ fresh \subseteq Subs

LoopType ==
    /\ loop \in [Orchestrators -> LoopLocations]
    /\ todo \in [Orchestrators -> SUBSET Subs]
    /\ seen \in [Orchestrators -> [Subs -> Nat]]

TaskType ==
    /\ pc \in [Permits -> TaskLocations]
    /\ then \in [Permits -> {"run", "release", "fail"}]
    /\ sub \in [Permits -> Subs \cup {NoSub}]
    /\ token \in [Permits -> {"none", "held", "dropped", "cancelled"}]
    /\ count \in [Permits -> Nat] /\ batch \in [Permits -> Nat]

LEMMA ReleaseLeaseType ==
    ASSUME TypeOK, NEW s \in Subs, NEW w \in Orchestrators, ReleaseLease(s, w)
    PROVE  owner' \in [Subs -> Orchestrators \cup {NoOwner}] /\ fresh' \subseteq Subs
  BY DEF ReleaseLease, TypeOK

\* A loop that goes on keeps the part of its list that is left.
LEMMA RemainingType ==
    ASSUME TypeOK, NEW w \in Orchestrators, NEW S \in SUBSET Subs, Remaining(w, S)
    PROVE  /\ LoopType'
           /\ \A v \in Orchestrators, s \in Subs : seen'[v][s] \in {0, seen[v][s]}
<1>1. todo' \in [Orchestrators -> SUBSET Subs]
  BY DEF Remaining, TypeOK
<1>2. loop' \in [Orchestrators -> LoopLocations]
  BY DEF Remaining, TypeOK, LoopLocations
<1>3. seen' = [seen EXCEPT ![w] = [s \in Subs |-> IF s \in S THEN seen[w][s] ELSE 0]]
  BY DEF Remaining
<1>4. [s \in Subs |-> IF s \in S THEN seen[w][s] ELSE 0] \in [Subs -> Nat]
  BY DEF TypeOK
<1>5. seen' \in [Orchestrators -> [Subs -> Nat]]
  BY <1>3, <1>4 DEF TypeOK
<1>6. \A v \in Orchestrators, s \in Subs : seen'[v][s] \in {0, seen[v][s]}
  BY <1>3 DEF TypeOK
<1> QED
  BY <1>1, <1>2, <1>5, <1>6 DEF LoopType

LEMMA CancelStreamType ==
    ASSUME TypeOK, NEW w \in Orchestrators, NEW s \in Subs, CancelStream(w, s)
    PROVE  TaskType' /\ active' \in [Orchestrators -> SUBSET Subs]
<1>1. token' \in [Permits -> {"none", "held", "dropped", "cancelled"}]
  BY DEF CancelStream, TypeOK
<1> QED
  BY <1>1 DEF CancelStream, TypeOK, TaskType

LEMMA EndType ==
    ASSUME TypeOK, NEW p \in Permits, End(p)
    PROVE  TaskType'
<1>1. pc' \in [Permits -> TaskLocations]
  BY DEF End, Goto, TypeOK, TaskLocations
<1>2. sub' \in [Permits -> Subs \cup {NoSub}]
  BY DEF End, TypeOK
<1>3. token' \in [Permits -> {"none", "held", "dropped", "cancelled"}]
  BY DEF End, TypeOK
<1>4. count' \in [Permits -> Nat]
  BY DEF End, TypeOK
<1>5. batch' \in [Permits -> Nat]
  BY DEF End, TypeOK
<1>6. then' \in [Permits -> {"run", "release", "fail"}]
  BY DEF End, TypeOK
<1> QED
  BY <1>1, <1>2, <1>3, <1>4, <1>5, <1>6 DEF TaskType

\* The steps of the API and of the lease
LEMMA TypeLease ==
    ASSUME TypeOK, NEW s \in Subs, Start(s) \/ Stop(s) \/ Expire(s)
    PROVE  TypeOK'
<1>1. CASE Start(s) \/ Stop(s)
  <2>1. desired' \in [Subs -> {"absent", "active", "stopped"}]
    BY <1>1 DEF Start, Stop, TypeOK
  <2>2. UNCHANGED <<owner, fresh, cursor, flushed, loopVars, taskVars, received, faults>>
    BY <1>1 DEF Start, Stop
  <2> QED
    BY <2>1, <2>2 DEF TypeOK, loopVars, taskVars
<1>2. CASE Expire(s)
  <2>1. faults' \in 0..MaxFaults
    BY <1>2, ConstantsAssumption DEF Expire, Fault, NoFault, TypeOK
  <2>2. fresh' \subseteq Subs
    BY <1>2 DEF Expire, TypeOK
  <2> QED
    BY <1>2, <2>1, <2>2 DEF Expire, TypeOK, loopVars, taskVars
<1> QED
  BY <1>1, <1>2

LEMMA TypeLoop ==
    ASSUME TypeOK, NEW w \in Orchestrators,
           Poll(w) \/ Reconcile(w) \/ Drain(w) \/ Shutdown(w) \/ Exit(w) \/ Release(w)
    PROVE  TypeOK'
<1>1. CASE Poll(w)
  <2>1. [s \in Subs |-> IF Claimable(s) THEN cursor[s] ELSE 0] \in [Subs -> Nat]
    BY DEF TypeOK
  <2>2. seen' \in [Orchestrators -> [Subs -> Nat]]
    BY <1>1, <2>1 DEF Poll, TypeOK
  <2>3. todo' \in [Orchestrators -> SUBSET Subs]
    <3>1. {s \in Subs : Claimable(s)} \in SUBSET Subs
      OBVIOUS
    <3> QED
      BY <1>1, <3>1 DEF Poll, TypeOK
  <2>4. loop' \in [Orchestrators -> LoopLocations]
    BY <1>1 DEF Poll, TypeOK, LoopLocations
  <2> QED
    BY <1>1, <2>2, <2>3, <2>4 DEF Poll, TypeOK, leaseVars, taskVars
<1>2. CASE Reconcile(w)
  BY <1>2 DEF Reconcile, TypeOK, LoopLocations, leaseVars, taskVars
<1>3. CASE Drain(w)
  BY <1>3 DEF Drain, TypeOK, LoopLocations, leaseVars, taskVars
<1>4. CASE Shutdown(w)
  BY <1>4 DEF Shutdown, TypeOK, leaseVars, taskVars
<1>5. CASE Exit(w)
  <2>1. TaskType'
    BY <1>5 DEF Exit, TypeOK, TaskType, TaskLocations
  <2>2. [s \in Subs |-> 0] \in [Subs -> Nat]
    OBVIOUS
  <2>3. LoopType' /\ releasing' \in [Orchestrators -> Subs \cup {NoSub}]
                  /\ active' \in [Orchestrators -> SUBSET Subs]
    BY <1>5, <2>2 DEF Exit, TypeOK, LoopType, LoopLocations
  <2> QED
    BY <1>5, <2>1, <2>3 DEF Exit, TypeOK, TaskType, LoopType, leaseVars
<1>6. CASE Release(w)
  <2>1. PICK s \in Subs : s = releasing[w]
    BY <1>6 DEF Release, TypeOK
  <2>2. LoopType'
    BY <1>6, RemainingType DEF Release, TypeOK
  <2>3. owner' \in [Subs -> Orchestrators \cup {NoOwner}] /\ fresh' \subseteq Subs
    <3>1. CASE ReleaseLease(s, w)
      BY <3>1, ReleaseLeaseType
    <3>2. CASE UNCHANGED <<owner, fresh>>
      BY <3>2 DEF TypeOK
    <3> QED
      BY <1>6, <2>1, <3>1, <3>2 DEF Release
  <2>4. faults' \in 0..MaxFaults
    BY <1>6, ConstantsAssumption DEF Release, Fault, NoFault, TypeOK
  <2> QED
    BY <1>6, <2>2, <2>3, <2>4 DEF Release, TypeOK, LoopType, taskVars
<1> QED
  BY <1>1, <1>2, <1>3, <1>4, <1>5, <1>6

LEMMA TypeStream ==
    ASSUME TypeOK, NEW w \in Orchestrators, NEW s \in Subs,
           \/ Skip(w, s) \/ CheckStream(w, s) \/ DrainStream(w, s)
           \/ \E p \in Permits : Claim(w, s, p)
    PROVE  TypeOK'
<1>1. CASE Skip(w, s)
  <2>1. LoopType'
    BY <1>1, RemainingType DEF Skip, TypeOK
  <2>2. owner' \in [Subs -> Orchestrators \cup {NoOwner}] /\ fresh' \subseteq Subs
    <3>1. \/ UNCHANGED <<owner, fresh>>
          \/ owner' = [owner EXCEPT ![s] = w] /\ fresh' = fresh \cup {s}
      BY <1>1 DEF Skip
    <3> QED
      BY <3>1 DEF TypeOK
  <2>3. faults' \in 0..MaxFaults
    BY <1>1, ConstantsAssumption DEF Skip, Fault, NoFault, TypeOK
  <2> QED
    BY <1>1, <2>1, <2>2, <2>3 DEF Skip, TypeOK, LoopType, taskVars
<1>2. CASE CheckStream(w, s)
  <2>1. LoopType'
    <3>1. CASE \E S \in SUBSET Subs : Remaining(w, S)
      BY <3>1, RemainingType
    <3>2. CASE UNCHANGED <<loop, todo, seen>>
      BY <3>2 DEF TypeOK, LoopType
    <3> QED
      BY <1>2, <3>1, <3>2 DEF CheckStream, TypeOK
  <2>2. TaskType' /\ active' \in [Orchestrators -> SUBSET Subs]
    <3>1. CASE CancelStream(w, s)
      BY <3>1, CancelStreamType
    <3>2. CASE UNCHANGED <<active, taskVars>>
      BY <3>2 DEF TypeOK, TaskType, taskVars
    <3> QED
      BY <1>2, <3>1, <3>2 DEF CheckStream
  <2>3. releasing' \in [Orchestrators -> Subs \cup {NoSub}]
    BY <1>2 DEF CheckStream, TypeOK
  <2>4. faults' \in 0..MaxFaults
    BY <1>2, ConstantsAssumption DEF CheckStream, Fault, NoFault, TypeOK
  <2> QED
    BY <1>2, <2>1, <2>2, <2>3, <2>4 DEF CheckStream, TypeOK, LoopType, TaskType, leaseVars
<1>3. CASE DrainStream(w, s)
  <2>1. TaskType' /\ active' \in [Orchestrators -> SUBSET Subs]
    BY <1>3, CancelStreamType DEF DrainStream
  <2> QED
    BY <1>3, <2>1 DEF DrainStream, TypeOK, TaskType, leaseVars
<1>4. ASSUME NEW p \in Permits, Claim(w, s, p) PROVE TypeOK'
  <2>1. LoopType'
    <3>1. todo[w] \ {s} \in SUBSET Subs
      BY DEF TypeOK
    <3>2. Remaining(w, todo[w] \ {s})
      BY <1>4 DEF Claim
    <3> QED
      BY <3>1, <3>2, RemainingType
  <2>2. token' \in [Permits -> {"none", "held", "dropped", "cancelled"}]
    BY <1>4 DEF Claim, TypeOK
  <2>3. seen[w][s] \in Nat
    BY DEF TypeOK
  <2>4. /\ pc' \in [Permits -> TaskLocations] /\ sub' \in [Permits -> Subs \cup {NoSub}]
        /\ count' \in [Permits -> Nat] /\ batch' \in [Permits -> Nat]
    BY <1>4, <2>3 DEF Claim, TypeOK, TaskLocations
  <2>5. /\ owner' \in [Subs -> Orchestrators \cup {NoOwner}] /\ fresh' \subseteq Subs
        /\ active' \in [Orchestrators -> SUBSET Subs]
    BY <1>4 DEF Claim, TypeOK
  <2> QED
    BY <1>4, <2>1, <2>2, <2>4, <2>5 DEF Claim, TypeOK, LoopType
<1> QED
  BY <1>1, <1>2, <1>3, <1>4

LEMMA TypeTask ==
    ASSUME TypeOK, TaskShape, NEW p \in Permits,
           Receive(p) \/ Heartbeat(p) \/ ChannelClosed(p) \/ TaskStep(p)
    PROVE  TypeOK'
<1>1. pc[p] # "free" => sub[p] \in Subs
  BY DEF TaskShape
<1>2. Holder[p] \in Orchestrators
  BY ConstantsAssumption
<1>3. CASE Receive(p)
  <2>1. pc' = pc \/ pc' = [pc EXCEPT ![p] = "flush"]
    BY <1>3 DEF Receive, Goto
  <2>2. then' = then \/ then' = [then EXCEPT ![p] = "run"]
    BY <1>3 DEF Receive
  <2>3. pc' \in [Permits -> TaskLocations]
    BY <2>1 DEF TypeOK, TaskLocations
  <2>4. then' \in [Permits -> {"run", "release", "fail"}]
    BY <2>2 DEF TypeOK
  <2>5. received' \in 0..MaxMessages /\ batch' \in [Permits -> Nat] /\ count' \in [Permits -> Nat]
    BY <1>3, ConstantsAssumption DEF Receive, TypeOK
  <2> QED
    BY <1>3, <2>3, <2>4, <2>5 DEF Receive, TypeOK, leaseVars, loopVars
<1>4. CASE Heartbeat(p)
  <2>1. pc' = pc \/ pc' = [pc EXCEPT ![p] = "release"]
    BY <1>4 DEF Heartbeat, Goto
  <2>2. pc' \in [Permits -> TaskLocations]
    BY <2>1 DEF TypeOK, TaskLocations
  <2>3. fresh' \subseteq Subs
    BY <1>1, <1>4 DEF Heartbeat, TypeOK
  <2> QED
    BY <1>4, <2>2, <2>3 DEF Heartbeat, TypeOK, loopVars
<1>5. ASSUME NEW l \in {"release", "fail"}, Leave(p, l) PROVE TypeOK'
  <2>1. pc' = [pc EXCEPT ![p] = l] \/ pc' = [pc EXCEPT ![p] = "flush"]
    BY <1>5 DEF Leave, Goto
  <2>2. then' = then \/ then' = [then EXCEPT ![p] = l]
    BY <1>5 DEF Leave
  <2>3. pc' \in [Permits -> TaskLocations]
    BY <2>1 DEF TypeOK, TaskLocations
  <2>4. then' \in [Permits -> {"run", "release", "fail"}]
    BY <2>2 DEF TypeOK
  <2> QED
    BY <1>5, <2>3, <2>4 DEF Leave, TypeOK, leaseVars, loopVars
<1>6. CASE Flush(p)
  <2>1. then[p] \in {"run", "release", "fail"}
    BY DEF TypeOK
  <2>2. pc' = [pc EXCEPT ![p] = "cursor"] \/ pc' = [pc EXCEPT ![p] = then[p]]
    BY <1>6 DEF Flush, Return, Goto
  <2>3. then' = then \/ then' = [then EXCEPT ![p] = "run"]
    BY <1>6 DEF Flush, Return
  <2>4. pc' \in [Permits -> TaskLocations]
    BY <2>1, <2>2 DEF TypeOK, TaskLocations
  <2>5. then' \in [Permits -> {"run", "release", "fail"}]
    BY <2>3 DEF TypeOK
  <2>6. flushed' \in [Subs -> Nat]
    <3>1. flushed' = flushed \/ flushed' = [flushed EXCEPT ![sub[p]] = flushed[sub[p]] + batch[p]]
      BY <1>6 DEF Flush
    <3>2. sub[p] \in Subs
      BY <1>1, <1>6 DEF Flush
    <3>3. flushed[sub[p]] + batch[p] \in Nat
      BY <3>2 DEF TypeOK
    <3> QED
      BY <3>1, <3>2, <3>3 DEF TypeOK
  <2>7. batch' \in [Permits -> Nat]
    <3>1. batch' = batch \/ batch' = [batch EXCEPT ![p] = 0]
      BY <1>6 DEF Flush
    <3>2. batch \in [Permits -> Nat] /\ 0 \in Nat
      BY DEF TypeOK
    <3> QED
      BY <3>1, <3>2
  <2> QED
    BY <1>6, <2>4, <2>5, <2>6, <2>7 DEF Flush, TypeOK, leaseVars, loopVars
<1>7. CASE UpdateCursor(p)
  <2>1. then[p] \in {"run", "release", "fail"} /\ count[p] \in Nat
    BY DEF TypeOK
  <2>2. pc' \in [Permits -> TaskLocations]
    BY <1>7, <2>1 DEF UpdateCursor, Return, Goto, TypeOK, TaskLocations
  <2>3. then' \in [Permits -> {"run", "release", "fail"}]
    BY <1>7 DEF UpdateCursor, Return, TypeOK
  <2>4. cursor' = cursor \/ cursor' = [cursor EXCEPT ![sub[p]] = count[p]]
    BY <1>7 DEF UpdateCursor
  <2>5. cursor' \in [Subs -> Nat]
    BY <2>1, <2>4 DEF TypeOK
  <2> QED
    BY <1>7, <2>2, <2>3, <2>5 DEF UpdateCursor, TypeOK, leaseVars, loopVars
<1>8. CASE EndRelease(p)
  <2>1. PICK s \in Subs : s = sub[p]
    BY <1>1, <1>8 DEF EndRelease
  <2>2. owner' \in [Subs -> Orchestrators \cup {NoOwner}] /\ fresh' \subseteq Subs
    <3>1. CASE ReleaseLease(s, Holder[p])
      BY <1>2, <3>1, ReleaseLeaseType
    <3>2. CASE UNCHANGED <<owner, fresh>>
      BY <3>2 DEF TypeOK
    <3> QED
      BY <1>8, <2>1, <3>1, <3>2 DEF EndRelease
  <2>3. TaskType'
    BY <1>8, EndType DEF EndRelease
  <2>4. faults' \in 0..MaxFaults
    BY <1>8, ConstantsAssumption DEF EndRelease, Fault, NoFault, TypeOK
  <2> QED
    BY <1>8, <2>2, <2>3, <2>4 DEF EndRelease, TypeOK, TaskType, loopVars
<1>9. CASE EndFail(p)
  <2>1. PICK s \in Subs : s = sub[p]
    BY <1>1, <1>9 DEF EndFail
  <2>2. LeaseType'
    <3>1. CASE ReleaseLease(s, Holder[p]) /\ desired' = [desired EXCEPT ![s] = "stopped"]
      BY <1>2, <3>1, ReleaseLeaseType DEF LeaseType, TypeOK
    <3>2. CASE UNCHANGED leaseVars
      BY <3>2 DEF TypeOK, LeaseType, leaseVars
    <3> QED
      BY <1>9, <2>1, <3>1, <3>2 DEF EndFail
  <2>3. TaskType'
    BY <1>9, EndType DEF EndFail
  <2>4. faults' \in 0..MaxFaults
    BY <1>9, ConstantsAssumption DEF EndFail, Fault, NoFault, TypeOK
  <2> QED
    BY <1>9, <2>2, <2>3, <2>4 DEF EndFail, TypeOK, LeaseType, TaskType, loopVars
<1> QED
  BY <1>3, <1>4, <1>5, <1>6, <1>7, <1>8, <1>9 DEF TaskStep, Cancelled, ChannelClosed

LEMMA TypeStep == ASSUME TypeOK, TaskShape, [Next]_vars PROVE TypeOK'
<1>1. CASE UNCHANGED vars
  BY <1>1 DEF vars, leaseVars, loopVars, taskVars, TypeOK
<1> QED
  BY <1>1, TypeLease, TypeLoop, TypeStream, TypeTask DEF Next, LoopStep

-----------------------------------------------------------------------------
(* The invariant *)

LEMMA InitInv == Init => StreamInv
<1> SUFFICES ASSUME Init PROVE StreamInv
  OBVIOUS
<1>1. [s \in Subs |-> 0] \in [Subs -> Nat]
  OBVIOUS
<1>2. TypeOK
  BY <1>1, ConstantsAssumption DEF Init, TypeOK, LoopLocations, TaskLocations
<1>3. TaskShape /\ StreamsAreControlled
  BY DEF Init, TaskShape, StreamsAreControlled
<1>4. CountsAreBacked /\ CursorIsBacked
  BY DEF Init, CountsAreBacked, CursorIsBacked
<1> QED
  BY <1>2, <1>3, <1>4 DEF StreamInv

\* What a poll remembers of a cursor stays backed while its loop goes on.
LEMMA RemainingBacked ==
    ASSUME TypeOK, CountsAreBacked, NEW w \in Orchestrators, NEW S \in SUBSET Subs,
           Remaining(w, S)
    PROVE  \A v \in Orchestrators, s \in Subs : seen'[v][s] <= flushed[s]
<1> SUFFICES ASSUME NEW v \in Orchestrators, NEW s \in Subs PROVE seen'[v][s] <= flushed[s]
  OBVIOUS
<1>1. seen'[v][s] = 0 \/ seen'[v][s] = seen[v][s]
  BY RemainingType
<1>2. seen[v][s] <= flushed[s] /\ flushed[s] \in Nat
  BY DEF CountsAreBacked, TypeOK
<1> QED
  BY <1>1, <1>2

\* A step that touches no task keeps the invariant if what it reads is backed.
LEMMA LoopKeeps ==
    ASSUME StreamInv, UNCHANGED <<pc, sub, token, count, batch, active, flushed, cursor>>,
           \A v \in Orchestrators, s \in Subs : seen'[v][s] <= flushed[s]
    PROVE  TaskShape' /\ StreamsAreControlled' /\ CountsAreBacked' /\ CursorIsBacked'
<1>1. TaskShape' /\ StreamsAreControlled'
  BY DEF StreamInv, TaskShape, StreamsAreControlled
<1>2. CountsAreBacked' /\ CursorIsBacked'
  BY DEF StreamInv, CountsAreBacked, CursorIsBacked
<1> QED
  BY <1>1, <1>2

\* A cancelled stream leaves the map and loses its held token together.
LEMMA CancelKeeps ==
    ASSUME StreamInv, NEW w \in Orchestrators, NEW s \in Subs, CancelStream(w, s)
    PROVE  TaskShape' /\ StreamsAreControlled'
<1>1. TaskShape'
  BY DEF StreamInv, TypeOK, TaskShape, CancelStream
<1>2. \A p \in Permits : token'[p] = "held" => token[p] = "held"
  BY DEF CancelStream
<1>3. \A p \in Permits : token[p] = "cancelled" => token'[p] = "cancelled"
  BY DEF CancelStream
<1>4. ASSUME NEW p \in Permits, pc'[p] # "free", token'[p] # "cancelled"
      PROVE  token'[p] = "held" /\ sub'[p] \in active'[Holder[p]]
  <2>1. token[p] = "held" /\ sub[p] \in active[Holder[p]]
    BY <1>3, <1>4 DEF StreamInv, StreamsAreControlled, CancelStream
  <2>2. token'[p] = "held" /\ ~ (Holder[p] = w /\ sub[p] = s)
    BY <1>4, <2>1 DEF CancelStream
  <2>3. Holder[p] \in Orchestrators
    BY ConstantsAssumption
  <2> QED
    BY <2>1, <2>2, <2>3 DEF CancelStream, StreamInv, TypeOK
<1> QED
  BY <1>1, <1>2, <1>4 DEF StreamInv, StreamsAreControlled, CancelStream

\* A task that goes on keeps its subscription and its token.
LEMMA BusyKeeps ==
    ASSUME StreamInv, NEW p \in Permits, pc[p] # "free",
           NEW l \in TaskLocations \ {"free"}, pc' = [pc EXCEPT ![p] = l],
           \A q \in Permits \ {p} : batch'[q] = batch[q],
           l = "cursor" => batch'[p] = 0,
           UNCHANGED <<sub, token, active>>
    PROVE  TaskShape' /\ StreamsAreControlled'
<1>1. TaskShape'
  BY DEF StreamInv, TypeOK, TaskShape
<1>2. \A q \in Permits : pc'[q] # "free" => pc[q] # "free"
  BY DEF StreamInv, TypeOK
<1> QED
  BY <1>1, <1>2 DEF StreamInv, StreamsAreControlled

LEMMA EndKeeps ==
    ASSUME StreamInv, NEW p \in Permits, End(p), UNCHANGED <<active, seen, flushed>>
    PROVE  TaskShape' /\ StreamsAreControlled' /\ CountsAreBacked'
<1>1. /\ pc'[p] = "free" /\ sub'[p] = NoSub /\ token'[p] = "none"
      /\ \A q \in Permits \ {p} :
            /\ pc'[q] = pc[q] /\ sub'[q] = sub[q] /\ token'[q] = token[q]
            /\ count'[q] = count[q] /\ batch'[q] = batch[q]
  BY DEF End, Goto, StreamInv, TypeOK
<1>2. TaskShape'
  BY <1>1 DEF StreamInv, TaskShape
<1>3. StreamsAreControlled'
  BY <1>1 DEF StreamInv, StreamsAreControlled
<1>4. CountsAreBacked'
  BY <1>1 DEF StreamInv, CountsAreBacked
<1> QED
  BY <1>2, <1>3, <1>4

\* The parts of the invariant beside TypeOK
Kept == TaskShape /\ StreamsAreControlled /\ CountsAreBacked /\ CursorIsBacked

LEMMA InvLease ==
    ASSUME StreamInv, NEW s \in Subs, Start(s) \/ Stop(s) \/ Expire(s)
    PROVE  Kept'
<1>1. UNCHANGED <<pc, sub, token, count, batch, active, flushed, cursor, seen>>
  BY DEF Start, Stop, Expire, loopVars, taskVars
<1>2. \A v \in Orchestrators, r \in Subs : seen'[v][r] <= flushed[r]
  BY <1>1 DEF StreamInv, CountsAreBacked
<1> QED
  BY <1>1, <1>2, LoopKeeps DEF Kept

LEMMA InvLoop ==
    ASSUME StreamInv, NEW w \in Orchestrators,
           Poll(w) \/ Reconcile(w) \/ Drain(w) \/ Shutdown(w) \/ Exit(w) \/ Release(w)
    PROVE  Kept'
<1> USE DEF StreamInv
<1>1. CASE Poll(w)
  <2>1. UNCHANGED <<pc, sub, token, count, batch, active, flushed, cursor>>
    BY <1>1 DEF Poll, taskVars
  <2>2. ASSUME NEW v \in Orchestrators, NEW s \in Subs PROVE seen'[v][s] <= flushed[s]
    <3>1. seen'[v][s] = seen[v][s] \/ seen'[v][s] = cursor[s] \/ seen'[v][s] = 0
      BY <1>1 DEF Poll, TypeOK
    <3>2. seen[v][s] <= flushed[s] /\ cursor[s] <= flushed[s] /\ flushed[s] \in Nat
      BY DEF CountsAreBacked, CursorIsBacked, TypeOK
    <3> QED
      BY <3>1, <3>2
  <2> QED
    BY <2>1, <2>2, LoopKeeps DEF Kept
<1>2. CASE Reconcile(w) \/ Drain(w) \/ Shutdown(w)
  <2>1. UNCHANGED <<pc, sub, token, count, batch, active, flushed, cursor, seen>>
    BY <1>2 DEF Reconcile, Drain, Shutdown, taskVars
  <2>2. \A v \in Orchestrators, s \in Subs : seen'[v][s] <= flushed[s]
    BY <2>1 DEF CountsAreBacked
  <2> QED
    BY <2>1, <2>2, LoopKeeps DEF Kept
<1>3. CASE Exit(w)
  <2>1. \A p \in Permits :
          \/ /\ Holder[p] = w /\ pc'[p] = "free" /\ sub'[p] = NoSub /\ token'[p] = "none"
          \/ /\ Holder[p] # w /\ pc'[p] = pc[p] /\ sub'[p] = sub[p] /\ token'[p] = token[p]
             /\ count'[p] = count[p] /\ batch'[p] = batch[p]
    BY <1>3 DEF Exit
  <2>2. \A v \in Orchestrators : v # w => active'[v] = active[v]
    BY <1>3 DEF Exit, TypeOK
  <2>3. TaskShape'
    BY <2>1 DEF TaskShape
  <2>4. StreamsAreControlled'
    BY <2>1, <2>2, ConstantsAssumption DEF StreamsAreControlled
  <2>5. ASSUME NEW v \in Orchestrators, NEW s \in Subs PROVE seen'[v][s] <= flushed[s]
    <3>1. seen'[v][s] = seen[v][s] \/ seen'[v][s] = 0
      BY <1>3 DEF Exit, TypeOK
    <3>2. seen[v][s] <= flushed[s] /\ flushed[s] \in Nat
      BY DEF CountsAreBacked, TypeOK
    <3> QED
      BY <3>1, <3>2
  <2>6. UNCHANGED <<flushed, cursor>>
    BY <1>3 DEF Exit
  <2>7. CountsAreBacked' /\ CursorIsBacked'
    BY <2>1, <2>5, <2>6 DEF CountsAreBacked, CursorIsBacked
  <2> QED
    BY <2>3, <2>4, <2>7 DEF Kept
<1>4. CASE Release(w)
  <2>1. UNCHANGED <<pc, sub, token, count, batch, active, flushed, cursor>>
    BY <1>4 DEF Release, taskVars
  <2>2. todo[w] \ {releasing[w]} \in SUBSET Subs
    BY DEF TypeOK
  <2>3. Remaining(w, todo[w] \ {releasing[w]})
    BY <1>4 DEF Release
  <2>4. \A v \in Orchestrators, s \in Subs : seen'[v][s] <= flushed[s]
    BY <2>2, <2>3, RemainingBacked
  <2> QED
    BY <2>1, <2>4, LoopKeeps DEF Kept
<1> QED
  BY <1>1, <1>2, <1>3, <1>4

LEMMA InvStream ==
    ASSUME StreamInv, NEW w \in Orchestrators, NEW s \in Subs,
           Skip(w, s) \/ CheckStream(w, s) \/ DrainStream(w, s)
    PROVE  Kept'
<1> USE DEF StreamInv
<1>1. UNCHANGED <<pc, sub, count, batch, flushed, cursor>>
  BY DEF Skip, CheckStream, DrainStream, CancelStream, taskVars
<1>2. \/ seen' = seen \/ Remaining(w, todo[w] \ {s}) \/ Remaining(w, {})
  BY DEF Skip, CheckStream, DrainStream
<1>3. todo[w] \ {s} \in SUBSET Subs /\ {} \in SUBSET Subs
  BY DEF TypeOK
<1>4. \A v \in Orchestrators, r \in Subs : seen'[v][r] <= flushed[r]
  <2>1. CASE seen' = seen
    BY <2>1 DEF CountsAreBacked
  <2>2. CASE Remaining(w, todo[w] \ {s}) \/ Remaining(w, {})
    BY <1>3, <2>2, RemainingBacked
  <2> QED
    BY <1>2, <2>1, <2>2
<1>5. CancelStream(w, s) \/ UNCHANGED <<active, taskVars>>
  BY DEF Skip, CheckStream, DrainStream
<1>6. CASE CancelStream(w, s)
  <2>1. TaskShape' /\ StreamsAreControlled'
    BY <1>6, CancelKeeps
  <2>2. CountsAreBacked' /\ CursorIsBacked'
    BY <1>1, <1>4 DEF CountsAreBacked, CursorIsBacked
  <2> QED
    BY <2>1, <2>2 DEF Kept
<1>7. CASE UNCHANGED <<active, taskVars>>
  <2>1. UNCHANGED <<token, active>>
    BY <1>7 DEF taskVars
  <2> QED
    BY <1>1, <1>4, <2>1, LoopKeeps DEF Kept
<1> QED
  BY <1>5, <1>6, <1>7

\* A new task: no other of its process holds a token for the subscription,
\* which is not in the map.
LEMMA InvClaim ==
    ASSUME StreamInv, NEW w \in Orchestrators, NEW s \in Subs, NEW p \in Permits,
           Claim(w, s, p)
    PROVE  Kept'
<1> USE DEF StreamInv
<1>1. /\ Holder[p] = w /\ s \notin active[w]
      /\ pc'[p] = "run" /\ sub'[p] = s /\ token'[p] = "held" /\ count'[p] = seen[w][s]
      /\ batch'[p] = 0
  BY DEF Claim, RunningLocally, TypeOK
<1>2. \A q \in Permits \ {p} :
        pc'[q] = pc[q] /\ sub'[q] = sub[q] /\ count'[q] = count[q] /\ batch'[q] = batch[q]
  BY DEF Claim, TypeOK
<1>3. \A q \in Permits : token[q] = "held" => sub[q] \in active[Holder[q]]
  BY DEF TaskShape, StreamsAreControlled
<1>4. \A q \in Permits \ {p} : token'[q] = token[q] /\ ~ (Holder[q] = w /\ sub[q] = s /\ token[q] = "held")
  BY <1>1, <1>3 DEF Claim
<1>5. \A v \in Orchestrators : active[v] \subseteq active'[v]
  BY DEF Claim, TypeOK
<1>6. s \in active'[w]
  BY DEF Claim, TypeOK
<1>7. TaskShape'
  BY <1>1, <1>2, <1>4 DEF TaskShape
<1>8. StreamsAreControlled'
  <2>1. ASSUME NEW q \in Permits, pc'[q] # "free", token'[q] # "cancelled"
        PROVE  token'[q] = "held" /\ sub'[q] \in active'[Holder[q]]
    <3>1. CASE q = p
      BY <1>1, <1>6, <3>1
    <3>2. CASE q # p
      BY <1>2, <1>4, <1>5, <2>1, <3>2, ConstantsAssumption DEF StreamsAreControlled
    <3> QED
      BY <3>1, <3>2
  <2>2. ASSUME NEW q \in Permits, NEW r \in Permits, token'[q] = "held", token'[r] = "held",
               Holder[q] = Holder[r], sub'[q] = sub'[r]
        PROVE  q = r
    BY <1>1, <1>2, <1>4, <2>2 DEF StreamsAreControlled
  <2> QED
    BY <2>1, <2>2 DEF StreamsAreControlled
<1>9. CountsAreBacked' /\ CursorIsBacked'
  <2>1. UNCHANGED <<flushed, cursor>>
    BY DEF Claim
  <2>2. todo[w] \ {s} \in SUBSET Subs
    BY DEF TypeOK
  <2>3. Remaining(w, todo[w] \ {s})
    BY DEF Claim
  <2>4. \A v \in Orchestrators, r \in Subs : seen'[v][r] <= flushed[r]
    BY <2>2, <2>3, RemainingBacked
  <2>5. seen[w][s] <= flushed[s] + 0
    BY DEF CountsAreBacked, TypeOK
  <2>6. \A q \in Permits : pc'[q] # "free" => count'[q] <= flushed[sub'[q]] + batch'[q]
    BY <1>1, <1>2, <2>5 DEF CountsAreBacked
  <2> QED
    BY <2>1, <2>4, <2>6 DEF CountsAreBacked, CursorIsBacked
<1> QED
  BY <1>7, <1>8, <1>9 DEF Kept

\* A message is counted once, in the batch and in the task's total.
LEMMA InvReceive ==
    ASSUME StreamInv, NEW p \in Permits, Receive(p)
    PROVE  Kept'
<1> USE DEF StreamInv
<1>1. PICK l \in {"run", "flush"} : pc' = [pc EXCEPT ![p] = l]
  <2>1. pc' = pc \/ pc' = [pc EXCEPT ![p] = "flush"]
    BY DEF Receive, Goto
  <2>2. pc = [pc EXCEPT ![p] = "run"]
    BY DEF Receive, TypeOK
  <2> QED
    BY <2>1, <2>2
<1>2. UNCHANGED <<sub, token, active, seen, flushed, cursor>> /\ pc[p] = "run"
  BY DEF Receive, loopVars
<1>3. \A q \in Permits \ {p} : batch'[q] = batch[q] /\ count'[q] = count[q]
  BY DEF Receive, TypeOK
<1>4. TaskShape' /\ StreamsAreControlled'
  BY <1>1, <1>2, <1>3, BusyKeeps DEF TaskLocations
<1>5. batch'[p] = batch[p] + 1 /\ count'[p] = count[p] + 1
  BY DEF Receive, TypeOK
<1>6. sub[p] \in Subs
  BY <1>2 DEF TaskShape
<1>7. count[p] <= flushed[sub[p]] + batch[p]
  BY <1>2 DEF CountsAreBacked
<1>8. flushed[sub[p]] \in Nat /\ batch[p] \in Nat /\ count[p] \in Nat
  BY <1>6 DEF TypeOK
<1>9. count[p] + 1 <= flushed[sub[p]] + (batch[p] + 1)
  BY <1>7, <1>8
<1>10. \A q \in Permits : pc'[q] # "free" => count'[q] <= flushed[sub[q]] + batch'[q]
  BY <1>1, <1>3, <1>5, <1>9 DEF CountsAreBacked, TypeOK
<1> QED
  BY <1>2, <1>4, <1>10 DEF CountsAreBacked, CursorIsBacked, Kept

\* Heartbeat and Leave move the task and store nothing.
LEMMA InvMove ==
    ASSUME StreamInv, NEW p \in Permits,
           Heartbeat(p) \/ Cancelled(p) \/ ChannelClosed(p)
    PROVE  Kept'
<1> USE DEF StreamInv
<1>1. PICK l \in {"run", "release", "fail", "flush"} : pc' = [pc EXCEPT ![p] = l]
  <2>1. \/ pc' = pc \/ pc' = [pc EXCEPT ![p] = "release"]
        \/ pc' = [pc EXCEPT ![p] = "fail"] \/ pc' = [pc EXCEPT ![p] = "flush"]
    BY DEF Heartbeat, Cancelled, ChannelClosed, Leave, Goto
  <2>2. pc = [pc EXCEPT ![p] = "run"]
    BY DEF Heartbeat, Cancelled, ChannelClosed, TypeOK
  <2> QED
    BY <2>1, <2>2
<1>2. UNCHANGED <<sub, token, count, batch, active, seen, flushed, cursor>> /\ pc[p] = "run"
  BY DEF Heartbeat, Cancelled, ChannelClosed, Leave, loopVars
<1>3. TaskShape' /\ StreamsAreControlled'
  BY <1>1, <1>2, BusyKeeps DEF TaskLocations
<1>4. \A q \in Permits : pc'[q] # "free" => pc[q] # "free"
  BY <1>1, <1>2 DEF TypeOK
<1> QED
  BY <1>2, <1>3, <1>4 DEF CountsAreBacked, CursorIsBacked, Kept

\* A stored batch moves from the task to flushed; a failed flush moves nothing.
LEMMA InvFlush ==
    ASSUME StreamInv, NEW p \in Permits, Flush(p)
    PROVE  Kept'
<1> USE DEF StreamInv
<1>1. UNCHANGED <<sub, token, count, active, seen, cursor>> /\ pc[p] = "flush"
  BY DEF Flush, loopVars
<1>2. sub[p] \in Subs
  BY <1>1 DEF TaskShape
<1>3. then[p] \in {"run", "release", "fail"} /\ batch[p] \in Nat /\ flushed[sub[p]] \in Nat
  BY <1>2 DEF TypeOK
<1>4. CASE /\ flushed' = [flushed EXCEPT ![sub[p]] = flushed[sub[p]] + batch[p]]
           /\ batch' = [batch EXCEPT ![p] = 0] /\ pc' = [pc EXCEPT ![p] = "cursor"]
  <2>1. \A q \in Permits \ {p} : batch'[q] = batch[q]
    BY <1>4 DEF TypeOK
  <2>2. batch'[p] = 0
    BY <1>4 DEF TypeOK
  <2>3. TaskShape' /\ StreamsAreControlled'
    BY <1>1, <1>4, <2>1, <2>2, BusyKeeps DEF TaskLocations
  <2>4. flushed'[sub[p]] = flushed[sub[p]] + batch[p]
    BY <1>2, <1>4 DEF TypeOK
  <2>5. \A s \in Subs : flushed[s] <= flushed'[s] /\ flushed[s] \in Nat /\ flushed'[s] \in Nat
    BY <1>2, <1>3, <1>4 DEF TypeOK
  <2>6. CursorIsBacked'
    <3> SUFFICES ASSUME NEW s \in Subs PROVE cursor[s] <= flushed'[s]
      BY <1>1 DEF CursorIsBacked
    <3>1. cursor[s] <= flushed[s] /\ cursor[s] \in Nat
      BY DEF CursorIsBacked, TypeOK
    <3> QED
      BY <2>5, <3>1
  <2>7. ASSUME NEW v \in Orchestrators, NEW s \in Subs PROVE seen[v][s] <= flushed'[s]
    <3>1. seen[v][s] <= flushed[s] /\ seen[v][s] \in Nat
      BY DEF CountsAreBacked, TypeOK
    <3> QED
      BY <2>5, <3>1
  <2>8. ASSUME NEW q \in Permits, pc'[q] # "free" PROVE count[q] <= flushed'[sub[q]] + batch'[q]
    <3>1. pc[q] # "free"
      BY <1>1, <1>4, <2>8 DEF TypeOK
    <3>2. /\ sub[q] \in Subs /\ count[q] <= flushed[sub[q]] + batch[q]
          /\ count[q] \in Nat /\ batch[q] \in Nat
      BY <3>1 DEF TaskShape, CountsAreBacked, TypeOK
    <3>3. CASE q = p
      BY <2>2, <2>4, <3>2, <3>3, <1>3
    <3>4. CASE q # p
      <4>1. batch'[q] = batch[q]
        BY <2>1, <3>4
      <4> QED
        BY <2>5, <3>2, <4>1
    <3> QED
      BY <3>3, <3>4
  <2>9. CountsAreBacked'
    BY <1>1, <2>7, <2>8 DEF CountsAreBacked
  <2> QED
    BY <2>3, <2>6, <2>9 DEF Kept
<1>5. CASE UNCHANGED <<flushed, batch>> /\ pc' = [pc EXCEPT ![p] = then[p]]
  <2>1. TaskShape' /\ StreamsAreControlled'
    BY <1>1, <1>3, <1>5, BusyKeeps DEF TaskLocations
  <2>2. \A q \in Permits : pc'[q] # "free" => pc[q] # "free"
    BY <1>1, <1>5 DEF TypeOK
  <2> QED
    BY <1>1, <1>5, <2>1, <2>2 DEF CountsAreBacked, CursorIsBacked, Kept
<1> QED
  BY <1>4, <1>5 DEF Flush, Return, Goto

\* The batch is stored, so the count about to be written is backed.
LEMMA InvCursor ==
    ASSUME StreamInv, NEW p \in Permits, UpdateCursor(p)
    PROVE  Kept'
<1> USE DEF StreamInv
<1>1. /\ UNCHANGED <<sub, token, count, batch, active, seen, flushed>> /\ pc[p] = "cursor"
      /\ pc' = [pc EXCEPT ![p] = then[p]]
  BY DEF UpdateCursor, Return, Goto, loopVars
<1>2. then[p] \in {"run", "release", "fail"}
  BY DEF TypeOK
<1>3. TaskShape' /\ StreamsAreControlled'
  BY <1>1, <1>2, BusyKeeps DEF TaskLocations
<1>4. \A q \in Permits : pc'[q] # "free" => pc[q] # "free"
  BY <1>1 DEF TypeOK
<1>5. CountsAreBacked'
  BY <1>1, <1>4 DEF CountsAreBacked
<1>6. sub[p] \in Subs /\ batch[p] = 0 /\ count[p] <= flushed[sub[p]] + batch[p]
  BY <1>1 DEF TaskShape, CountsAreBacked
<1>7. count[p] <= flushed[sub[p]]
  BY <1>6 DEF TypeOK
<1>8. \A s \in Subs : cursor'[s] = cursor[s] \/ (s = sub[p] /\ cursor'[s] = count[p])
  <2>1. cursor' = cursor \/ cursor' = [cursor EXCEPT ![sub[p]] = count[p]]
    BY DEF UpdateCursor
  <2> QED
    BY <2>1 DEF TypeOK
<1>9. CursorIsBacked'
  BY <1>1, <1>7, <1>8 DEF CursorIsBacked
<1> QED
  BY <1>3, <1>5, <1>9 DEF Kept

LEMMA InvEnd ==
    ASSUME StreamInv, NEW p \in Permits, EndRelease(p) \/ EndFail(p)
    PROVE  Kept'
<1>1. End(p) /\ UNCHANGED <<active, seen, flushed, cursor>>
  BY DEF EndRelease, EndFail, loopVars
<1>2. CursorIsBacked'
  BY <1>1 DEF StreamInv, CursorIsBacked
<1> QED
  BY <1>1, <1>2, EndKeeps DEF Kept

LEMMA InvStep == StreamInv /\ [Next]_vars => StreamInv'
<1> SUFFICES ASSUME StreamInv, [Next]_vars PROVE StreamInv'
  OBVIOUS
<1>1. TypeOK'
  BY TypeStep DEF StreamInv
<1>2. CASE UNCHANGED vars
  <2>1. UNCHANGED <<pc, sub, token, count, batch, active, flushed, cursor, seen>>
    BY <1>2 DEF vars, loopVars, taskVars
  <2>2. \A v \in Orchestrators, s \in Subs : seen'[v][s] <= flushed[s]
    BY <2>1 DEF StreamInv, CountsAreBacked
  <2> QED
    BY <1>1, <2>1, <2>2, LoopKeeps DEF StreamInv
<1>3. CASE Next
  <2>1. Kept'
    BY <1>3, InvLease, InvLoop, InvStream, InvClaim, InvReceive, InvMove, InvFlush, InvCursor, InvEnd
       DEF Next, LoopStep, TaskStep
  <2> QED
    BY <1>1, <2>1 DEF Kept, StreamInv
<1> QED
  BY <1>2, <1>3

-----------------------------------------------------------------------------

\* The invariant of orchestrators and tasks (stream_worker.rs) is inductive.
THEOREM StreamInvariant == Spec => []StreamInv
  BY InitInv, InvStep, PTL DEF Spec

\* Every stream that has not been told to end can be: its token is the one
\* active_streams has for its subscription, in whatever order polls, reconciles
\* and late ends of cancelled predecessors come (poll_and_claim, reconcile).
THEOREM StreamControl == Spec => []StreamsAreControlled
<1>1. StreamInv => StreamsAreControlled
  BY DEF StreamInv
<1> QED
  BY StreamInvariant, <1>1, PTL

\* The cursor counts only stored messages, though update_stream_cursor is not
\* fenced and tasks start from rows read before their claim.
THEOREM CursorSafety == Spec => []CursorIsBacked
<1>1. StreamInv => CursorIsBacked
  BY DEF StreamInv
<1> QED
  BY StreamInvariant, <1>1, PTL


-----------------------------------------------------------------------------
(* Sequences *)

LEMMA SeqGrows ==
    ASSUME NEW S, NEW T, S \subseteq T, NEW s \in Seq(S)
    PROVE  s \in Seq(T)
  <1>1. Len(s) \in Nat /\ s \in [1..Len(s) -> T]
    OBVIOUS
  <1> QED
    BY <1>1

LEMMA RangeEmpty == Range(<<>>) = {}
  BY DEF Range

LEMMA RangeType ==
    ASSUME NEW S, NEW s \in Seq(S)
    PROVE  Range(s) \subseteq S /\ (\A a \in 1..Len(s) : s[a] \in Range(s)) /\ \A x \in Range(s) : \E a \in 1..Len(s) : s[a] = x
  <1>1. DOMAIN s = 1..Len(s) /\ \A a \in 1..Len(s) : s[a] \in S
    OBVIOUS
  <1> QED
    BY <1>1 DEF Range

LEMMA RangeAppend ==
    ASSUME NEW S, NEW s \in Seq(S), NEW x \in S
    PROVE  /\ Append(s, x) \in Seq(S) /\ Range(Append(s, x)) = Range(s) \cup {x}
           /\ Len(Append(s, x)) = Len(s) + 1 /\ Append(s, x)[Len(s) + 1] = x
           /\ \A a \in 1..Len(s) : Append(s, x)[a] = s[a]
  <1> DEFINE t == Append(s, x)
  <1>1. /\ t \in Seq(S) /\ Len(s) \in Nat /\ Len(t) = Len(s) + 1 /\ t[Len(s) + 1] = x
        /\ \A a \in 1..Len(s) : t[a] = s[a]
    OBVIOUS
  <1>2. DOMAIN s = 1..Len(s) /\ DOMAIN t = 1..Len(t)
    BY <1>1
  <1> HIDE DEF t
  <1>3. Range(t) \subseteq Range(s) \cup {x}
    BY <1>1, <1>2 DEF Range
  <1>4. Range(s) \cup {x} \subseteq Range(t)
    BY <1>1, <1>2 DEF Range
  <1>5. Range(t) = Range(s) \cup {x}
    BY <1>3, <1>4
  <1> QED
    BY <1>1, <1>5 DEF t

LEMMA RangeTail ==
    ASSUME NEW S, NEW s \in Seq(S), s # <<>>
    PROVE  /\ Head(s) \in S /\ Tail(s) \in Seq(S) /\ Range(s) = {Head(s)} \cup Range(Tail(s))
           /\ Len(s) >= 1 /\ Head(s) = s[1] /\ Len(Tail(s)) = Len(s) - 1
           /\ \A a \in 1..Len(Tail(s)) : Tail(s)[a] = s[a + 1]
  <1> DEFINE t == Tail(s)
             h == Head(s)
  <1>1. /\ h \in S /\ t \in Seq(S) /\ Len(s) \in Nat /\ Len(s) >= 1 /\ h = s[1] /\ Len(t) = Len(s) - 1
        /\ \A a \in 1..Len(t) : t[a] = s[a + 1]
    OBVIOUS
  <1>2. DOMAIN s = 1..Len(s) /\ DOMAIN t = 1..Len(t)
    BY <1>1
  <1> HIDE DEF t, h
  <1>3. {h} \cup Range(t) \subseteq Range(s)
    BY <1>1, <1>2 DEF Range
  <1>4. ASSUME NEW a \in 1..Len(s) PROVE s[a] \in {h} \cup Range(t)
    <2>1. CASE a = 1
      BY <1>1, <2>1
    <2>2. CASE a # 1
      <3>1. a - 1 \in 1..Len(t) /\ t[a - 1] = s[(a - 1) + 1] /\ (a - 1) + 1 = a
        BY <1>1, <2>2
      <3> QED
        BY <1>2, <3>1 DEF Range
    <2> QED
      BY <2>1, <2>2
  <1>5. Range(s) = {h} \cup Range(t)
    BY <1>2, <1>3, <1>4 DEF Range
  <1> QED
    BY <1>1, <1>5 DEF t, h

-----------------------------------------------------------------------------
(* The invariant *)

\* The part of it for every stream, and the part for those that replay.
Base == SourceTypeOK /\ PipelineOK
Replays ==
    SlotsOK /\ InSlotOrder /\ ConnectionOK /\ ResumeIsSafe /\ NoMessageSkipped /\ CursorSlotIsStored

LEMMA SourceParts == SourceInv <=> Base /\ (source # "ws" => Replays)
  BY DEF SourceInv, SourceConsistent, Base, Replays, NoMessageSkipped, CursorSlotIsStored

\* Slots of messages are positive and in the order of the messages.
LEMMA Slots ==
    ASSUME Base
    PROVE  /\ emitted \in Nat /\ emitted <= MaxMessage /\ MaxMessage \in Nat
           /\ \A i \in 1..MaxMessage : SlotOf[i] \in Nat /\ SlotOf[i] > 0
           /\ \A i, j \in 1..MaxMessage : i <= j => SlotOf[i] <= SlotOf[j]
  <1>1. emitted \in Nat /\ emitted <= MaxMessage /\ MaxMessage \in Nat
    BY SourceAssumption DEF Base, SourceTypeOK
  <1>2. \A i \in 1..MaxMessage : SlotOf[i] \in Nat /\ SlotOf[i] > 0
    BY SourceAssumption
  <1>3. ASSUME NEW i \in 1..MaxMessage, NEW j \in 1..MaxMessage, i <= j PROVE SlotOf[i] <= SlotOf[j]
    <2>1. CASE i = j
      BY <1>2, <2>1
    <2>2. CASE i < j
      BY <2>2, SourceAssumption
    <2> QED
      BY <1>3, <2>1, <2>2
  <1> QED
    BY <1>1, <1>2, <1>3

\* What the type invariant says of the pipeline follows from PipelineOK.
LEMMA QueueRange ==
    ASSUME PipelineOK
    PROVE  Range(queue) \subseteq 1..emitted /\ Range(unsaved) \subseteq 1..emitted
  BY RangeType DEF PipelineOK

\* The initial state.
LEMMA SourceInvInit == SourceInit => SourceInv
  <1> SUFFICES ASSUME SourceInit PROVE SourceInv
    OBVIOUS
  <1>1. MaxMessage \in Nat /\ MaxRetries \in Nat /\ ChannelSize \in Nat
    BY SourceAssumption
  <1>2. Range(<<>>) = {} /\ Len(<<>>) = 0
    BY RangeEmpty
  <1>3. Base
    <2>1. SourceTypeOK
      BY <1>1, <1>2 DEF SourceInit, SourceTypeOK
    <2>2. PipelineOK
      BY <1>1, <1>2 DEF SourceInit, PipelineOK, InHand
    <2> QED
      BY <2>1, <2>2 DEF Base
  <1>4. Replays
    <2>1. SlotsOK
      BY DEF SourceInit, SlotsOK, Noted
    <2>2. InSlotOrder /\ ConnectionOK /\ ResumeIsSafe /\ NoMessageSkipped /\ CursorSlotIsStored
      BY <1>2 DEF SourceInit, InSlotOrder, ConnectionOK, ResumeIsSafe, NoMessageSkipped, CursorSlotIsStored
    <2> QED
      BY <2>1, <2>2 DEF Replays
  <1> QED
    BY <1>3, <1>4, SourceParts

-----------------------------------------------------------------------------
(* The chain and the connection *)

\* A new message has the latest slot, so nothing that was noted is after it.
LEMMA EmitStep ==
    ASSUME SourceInv, Emit
    PROVE  SourceInv'
  <1>1. Base /\ (source # "ws" => Replays)
    BY SourceParts
  <1>2. /\ emitted < MaxMessage /\ emitted' = emitted + 1
        /\ source' = source /\ conn' = conn /\ position' = position /\ slot' = slot /\ held' = held
        /\ retries' = retries /\ queue' = queue /\ consumer' = consumer /\ unsaved' = unsaved
        /\ lastSlot' = lastSlot /\ saved' = saved /\ storedSlot' = storedSlot /\ firstSent' = firstSent
        /\ reached' = reached /\ InHand' = InHand /\ FromSlot' = FromSlot /\ CursorSlot' = CursorSlot
    BY DEF Emit, linkVars, consumerVars, pastVars, InHand, FromSlot, CursorSlot
  <1>3. emitted \in Nat /\ MaxMessage \in Nat
    BY <1>1, Slots
  <1>4. 1..emitted \subseteq 1..emitted' /\ 0..emitted \subseteq 0..emitted'
    BY <1>2, <1>3
  <1>5. PipelineOK'
    <2>1. queue \in Seq(1..emitted') /\ unsaved \in Seq(1..emitted')
      BY <1>1, <1>4, SeqGrows DEF Base, PipelineOK
    <2>2. held \in 0..emitted' /\ position \in 1..emitted' + 1
      BY <1>1, <1>2, <1>3 DEF Base, PipelineOK
    <2> QED
      BY <1>1, <1>2, <2>1, <2>2 DEF Base, PipelineOK
  <1>6. SourceTypeOK'
    BY <1>1, <1>2, <1>3, <1>4 DEF Base, SourceTypeOK
  <1>7. ASSUME source # "ws" PROVE Replays'
    <2>1. Replays
      BY <1>1, <1>7
    <2>2. /\ \A i \in 1..MaxMessage : SlotOf[i] \in Nat /\ SlotOf[i] > 0
          /\ \A i, j \in 1..MaxMessage : i <= j => SlotOf[i] <= SlotOf[j]
      BY <1>1, Slots
    <2>3. ASSUME NEW s, Noted(s, emitted) PROVE Noted(s, emitted')
      BY <1>2, <1>3, <2>2, <2>3 DEF Noted
    <2>4. SlotsOK'
      <3>1. Noted(storedSlot, emitted') /\ Noted(lastSlot, emitted')
        BY <2>1, <2>3 DEF Replays, SlotsOK
      <3>2. reached \in 0..emitted'
        BY <1>4, <2>1 DEF Replays, SlotsOK
      <3> QED
        BY <1>2, <2>1, <3>1, <3>2 DEF Replays, SlotsOK, Noted
    <2>5. InSlotOrder'
      BY <1>2, <2>1 DEF Replays, InSlotOrder
    <2>6. ConnectionOK'
      <3> SUFFICES ASSUME conn \in {"open", "send"}, NEW i \in 1..emitted'
                   PROVE  /\ SlotOf[i] < FromSlot => i < position
                          /\ firstSent = 0 /\ SlotOf[i] < storedSlot => i < position
        BY <1>2 DEF ConnectionOK
      <3>1. CASE i \in 1..emitted
        BY <2>1, <3>1 DEF Replays, ConnectionOK
      <3>2. CASE i = emitted + 1
        <4>1. \A k \in 1..emitted : SlotOf[k] <= SlotOf[i]
          BY <1>2, <1>3, <2>2, <3>2
        <4>2. FromSlot \in Nat /\ storedSlot \in Nat /\ SlotOf[i] \in Nat
          BY <1>2, <1>3, <2>1, <2>2, <3>2 DEF Replays, SlotsOK, Noted, FromSlot, CursorSlot
        <4>3. storedSlot <= SlotOf[i] /\ slot <= SlotOf[i]
          BY <1>2, <1>3, <2>1, <2>2, <4>1, <4>2 DEF Replays, SlotsOK, Noted
        <4> QED
          BY <4>2, <4>3 DEF FromSlot, CursorSlot
      <3> QED
        BY <1>2, <1>3, <3>1, <3>2
    <2>7. ResumeIsSafe' /\ CursorSlotIsStored'
      BY <1>2, <2>1 DEF Replays, ResumeIsSafe, CursorSlotIsStored
    <2>8. NoMessageSkipped'
      <3>1. firstSent \in Nat /\ position \in 1..emitted + 1
        BY <1>1, <1>3, <2>1 DEF Base, PipelineOK, Replays, SlotsOK
      <3>2. \A i \in firstSent..emitted' : i < position => i \in firstSent..emitted
        BY <1>2, <1>3, <3>1
      <3> QED
        BY <1>2, <2>1, <3>2 DEF Replays, NoMessageSkipped
    <2> QED
      BY <2>4, <2>5, <2>6, <2>7, <2>8 DEF Replays
  <1>8. Base' /\ (source' # "ws" => Replays')
    BY <1>2, <1>5, <1>6, <1>7 DEF Base
  <1> QED
    BY <1>8 DEF SourceInv, SourceConsistent, Base, Replays, NoMessageSkipped, CursorSlotIsStored

\* A step of the connection task that delivers and sends nothing.
LEMMA LinkStep ==
    ASSUME SourceInv, UNCHANGED <<source, emitted, slot, held, queue, consumerVars, saved, storedSlot, firstSent, reached>>,
           consumer = "ended" => conn' = "ended", position' \in 1..emitted + 1,
           conn' \in {"connect", "open", "backoff", "ended"}, held = 0,
           retries' \in 0..MaxRetries + 1, retries' > MaxRetries => conn' = "ended",
           source # "ws" => ConnectionOK' /\ NoMessageSkipped'
    PROVE  SourceInv'
  <1>1. Base /\ (source # "ws" => Replays)
    BY SourceParts
  <1>2. /\ emitted' = emitted /\ source' = source /\ slot' = slot /\ held' = held /\ queue' = queue
        /\ consumer' = consumer /\ unsaved' = unsaved /\ lastSlot' = lastSlot /\ saved' = saved
        /\ storedSlot' = storedSlot /\ firstSent' = firstSent /\ reached' = reached
        /\ InHand' = InHand /\ FromSlot' = FromSlot /\ CursorSlot' = CursorSlot
    BY DEF consumerVars, InHand, FromSlot, CursorSlot
  <1>3. PipelineOK'
    BY <1>1, <1>2 DEF Base, PipelineOK
  <1>4. SourceTypeOK'
    <2>1. position' \in 1..MaxMessage + 1
      BY <1>1, Slots
    <2> QED
      BY <1>1, <1>2, <2>1 DEF Base, SourceTypeOK
  <1>5. ASSUME source # "ws" PROVE Replays'
    <2>1. SlotsOK' /\ InSlotOrder'
      BY <1>1, <1>2, <1>5 DEF Replays, SlotsOK, Noted, InSlotOrder
    <2>2. ResumeIsSafe' /\ CursorSlotIsStored'
      BY <1>1, <1>2, <1>5 DEF Replays, ResumeIsSafe, CursorSlotIsStored
    <2> QED
      BY <1>5, <2>1, <2>2 DEF Replays
  <1> QED
    BY <1>2, <1>3, <1>4, <1>5 DEF SourceInv, SourceConsistent, Replays, NoMessageSkipped, CursorSlotIsStored

\* A connection that is not sending holds no message.
LEMMA HeldByType == SourceTypeOK /\ conn # "send" => held = 0
  BY DEF SourceTypeOK

\* A connection that breaks, closes or waits will ask for its slot again.
LEMMA BreakStep ==
    ASSUME SourceInv, Break \/ CloseByServer \/ Backoff
    PROVE  SourceInv'
  <1>1. Base
    BY SourceParts
  <1>2. /\ conn # "send" /\ consumer # "ended"
        /\ UNCHANGED <<source, emitted, position, slot, held, queue, consumerVars, saved, storedSlot, firstSent, reached>>
    <2>1. consumer # "ended" \/ conn = "ended"
      BY <1>1 DEF Base, PipelineOK
    <2> QED
      BY <2>1 DEF Break, CloseByServer, Backoff, pastVars
  <1>3. held = 0 /\ retries \in 0..MaxRetries + 1 /\ MaxRetries \in Nat
    BY <1>1, <1>2, HeldByType, SourceAssumption DEF Base, SourceTypeOK
  <1>4. /\ conn' \in {"connect", "backoff", "ended"}
        /\ retries' \in 0..MaxRetries + 1 /\ (retries' > MaxRetries => conn' = "ended")
    <2>1. CASE Break
      <3>1. retries <= MaxRetries
        BY <1>1, <2>1, <1>3 DEF Base, SourceTypeOK, Break
      <3> QED
        BY <2>1, <1>3, <3>1 DEF Break, GivesUp
    <2>2. CASE CloseByServer
      BY <2>2, <1>3 DEF CloseByServer
    <2>3. CASE Backoff
      BY <2>3, <1>1, <1>3 DEF Backoff, Base, SourceTypeOK
    <2> QED
      BY <2>1, <2>2, <2>3
  <1>5. ConnectionOK' /\ NoMessageSkipped' /\ position' \in 1..emitted + 1
    BY <1>1, <1>2, <1>4 DEF ConnectionOK, NoMessageSkipped, Base, PipelineOK
  <1> QED
    BY <1>2, <1>3, <1>4, <1>5, LinkStep

\* A connection starts at the first message of the slot it asks for: what is before it
\* and after the first delivered is stored or on its way (ResumeIsSafe).
LEMMA ConnectStep ==
    ASSUME SourceInv, Connect
    PROVE  SourceInv'
  <1>1. Base /\ (source # "ws" => Replays)
    BY SourceParts
  <1>2. /\ conn = "connect" /\ conn' = "open" /\ position' \in IF source = "ws" THEN {emitted + 1} ELSE Replay
        /\ UNCHANGED <<source, emitted, slot, held, queue, consumerVars, saved, storedSlot, firstSent, reached, retries>>
    BY DEF Connect, pastVars
  <1>3. /\ held = 0 /\ consumer # "ended" /\ emitted \in Nat
        /\ retries \in 0..MaxRetries + 1 /\ ~(retries > MaxRetries)
    BY <1>1, <1>2, HeldByType, Slots DEF Base, SourceTypeOK, PipelineOK
  <1>4. position' \in 1..emitted + 1
    BY <1>2, <1>3 DEF Replay
  <1>5. ASSUME source # "ws" PROVE ConnectionOK' /\ NoMessageSkipped'
    <2>1. /\ emitted' = emitted /\ FromSlot' = FromSlot /\ storedSlot' = storedSlot /\ firstSent' = firstSent
          /\ InHand' = InHand /\ saved' = saved
      BY <1>2 DEF FromSlot, CursorSlot, InHand, consumerVars
    <2>2. Replays /\ position' \in Replay
      BY <1>1, <1>2, <1>5
    <2>3. /\ firstSent \in Nat /\ reached \in Nat /\ reached <= emitted
          /\ slot \in Nat /\ storedSlot \in Nat /\ FromSlot \in Nat
      BY <1>3, <2>2 DEF Replays, SlotsOK, Noted, FromSlot, CursorSlot
    <2>4. \A i \in 1..emitted : (SlotOf[i] < FromSlot => i < position') /\ (FromSlot # 0 /\ i < position' => SlotOf[i] < FromSlot)
      BY <1>1, <1>3, <2>2, <2>3, Slots DEF Replay
    <2>5. FromSlot = 0 => firstSent = 0 /\ position' = emitted + 1
      BY <1>3, <2>2, <2>3 DEF Replays, SlotsOK, FromSlot, Replay
    <2>6. firstSent = 0 => FromSlot = 0
      BY <2>2, <2>3 DEF Replays, SlotsOK, Noted, FromSlot, CursorSlot
    <2>7. ConnectionOK'
      BY <1>3, <2>1, <2>3, <2>4, <2>5, <2>6 DEF ConnectionOK
    <2>8. NoMessageSkipped'
      <3> SUFFICES ASSUME firstSent > 0, NEW i \in firstSent..emitted, i < position', Converts(i)
                   PROVE  i \in saved \cup InHand
        BY <2>1 DEF NoMessageSkipped, Converts
      <3>1. i \in 1..emitted /\ i < position' /\ FromSlot # 0
        BY <1>3, <1>4, <2>3, <2>5
      <3>2. SlotOf[i] < FromSlot
        BY <2>4, <3>1
      <3>3. FromSlot <= SlotOf[reached] /\ reached > 0
        BY <2>2, <2>3, <3>1 DEF Replays, SlotsOK, Noted, FromSlot, CursorSlot
      <3>4. i <= reached
        <4>1. i > reached => SlotOf[reached] <= SlotOf[i]
          BY <1>1, <2>3, <3>1, <3>3, Slots
        <4>2. SlotOf[i] \in Nat /\ SlotOf[reached] \in Nat
          BY <1>1, <2>3, <3>1, <3>3, Slots
        <4> QED
          BY <2>3, <3>1, <3>2, <3>3, <4>1, <4>2
      <3>5. i \in firstSent..reached
        BY <2>3, <3>4
      <3> QED
        BY <1>3, <2>2, <3>2, <3>5 DEF Replays, ResumeIsSafe
    <2> QED
      BY <2>7, <2>8
  <1> QED
    BY <1>2, <1>3, <1>4, <1>5, LinkStep

\* A message is delivered: its slot is the latest yet, and everything before it is
\* stored or on its way.
LEMMA DeliverStep ==
    ASSUME SourceInv, Deliver
    PROVE  SourceInv'
  <1>1. Base /\ Replays /\ source # "ws"
    BY SourceParts DEF Deliver
  <1>2. /\ conn = "open" /\ position <= emitted /\ position' = position + 1
        /\ slot' = IF SlotOf[position] > slot THEN SlotOf[position] ELSE slot
        /\ Converts(position) => held' = position /\ conn' = "send"
        /\ ~Converts(position) => held' = held /\ conn' = conn
        /\ firstSent' = IF firstSent = 0 THEN position ELSE firstSent
        /\ reached' = IF position > reached THEN position ELSE reached
        /\ emitted' = emitted /\ source' = source /\ retries' = retries /\ queue' = queue /\ saved' = saved
        /\ consumer' = consumer /\ unsaved' = unsaved /\ lastSlot' = lastSlot /\ storedSlot' = storedSlot
        /\ CursorSlot' = CursorSlot
    BY DEF Deliver, Delivered, consumerVars, CursorSlot
  <1>3. /\ held = 0 /\ consumer # "ended" /\ emitted \in Nat /\ MaxMessage \in Nat /\ emitted <= MaxMessage
        /\ position \in 1..emitted
    BY <1>1, <1>2, HeldByType, Slots DEF Base, SourceTypeOK, PipelineOK
  <1>4. /\ SlotOf[position] \in Nat /\ SlotOf[position] > 0
        /\ \A i \in 1..emitted : SlotOf[i] \in Nat /\ SlotOf[i] > 0
        /\ \A i, j \in 1..emitted : i <= j => SlotOf[i] <= SlotOf[j]
    BY <1>1, <1>3, Slots
  <1>5. /\ slot \in Nat /\ storedSlot \in Nat /\ lastSlot \in Nat /\ FromSlot \in Nat
        /\ firstSent \in Nat /\ reached \in Nat /\ firstSent <= reached /\ reached <= emitted
        /\ firstSent = 0 <=> reached = 0
    BY <1>1, <1>3 DEF Replays, SlotsOK, Noted, FromSlot, CursorSlot
  <1>6. FromSlot <= SlotOf[position] /\ (firstSent = 0 => storedSlot <= SlotOf[position])
    <2>1. ~(SlotOf[position] < FromSlot) /\ ~(firstSent = 0 /\ SlotOf[position] < storedSlot)
      BY <1>1, <1>2, <1>3 DEF Replays, ConnectionOK
    <2> QED
      BY <2>1, <1>4, <1>5
  <1>7. slot' = SlotOf[position] /\ FromSlot' = SlotOf[position] /\ lastSlot <= SlotOf[position] /\ slot <= SlotOf[position]
    <2>1. slot' = SlotOf[position] /\ slot <= SlotOf[position]
      BY <1>2, <1>4, <1>5, <1>6 DEF FromSlot
    <2>2. FromSlot' = SlotOf[position]
      BY <1>4, <2>1 DEF FromSlot
    <2>3. CASE slot > 0
      <3>1. lastSlot <= slot
        BY <1>1, <1>3, <2>3 DEF Replays, SlotsOK
      <3> QED
        BY <1>4, <1>5, <2>1, <2>2, <3>1
    <2>4. CASE slot = 0
      <3>1. lastSlot = storedSlot /\ (CursorSlot = 0 => firstSent = 0)
        BY <1>1, <1>3, <2>4 DEF Replays, SlotsOK
      <3>2. CursorSlot # 0 => FromSlot = storedSlot
        BY <2>4 DEF FromSlot, CursorSlot
      <3> QED
        BY <1>6, <2>1, <2>2, <3>1, <3>2
    <2> QED
      BY <1>5, <2>3, <2>4
  <1>8. InHand \subseteq InHand' \cup {0} /\ (Converts(position) => position \in InHand')
    BY <1>2, <1>3 DEF InHand
  <1>9. PipelineOK'
    <2>1. held' \in 0..emitted /\ position' \in 1..emitted + 1 /\ (consumer' = "ended" => conn' = "ended")
      BY <1>2, <1>3
    <2>2. (saved' \cup InHand') \cap Unreadable \subseteq {0}
      <3>1. InHand' \subseteq InHand \cup (IF Converts(position) THEN {position} ELSE {})
        BY <1>2 DEF InHand
      <3> QED
        BY <1>1, <1>2, <3>1 DEF Base, PipelineOK, Converts
    <2> QED
      BY <1>1, <1>2, <1>3, <2>1, <2>2 DEF Base, PipelineOK
  <1>10. SourceTypeOK'
    <2>1. position' \in 1..MaxMessage + 1 /\ held' \in 0..MaxMessage /\ (conn' = "send") = (held' # 0)
      BY <1>2, <1>3
    <2>2. conn' \in {"open", "send"} /\ ~(retries > MaxRetries)
      BY <1>1, <1>2 DEF Base, SourceTypeOK
    <2> QED
      BY <1>1, <1>2, <2>1, <2>2 DEF Base, SourceTypeOK
  <1>11. firstSent' > 0 /\ firstSent' <= reached' /\ reached' \in 1..emitted /\ SlotOf[position] <= SlotOf[reached']
         /\ firstSent' \in Nat
    BY <1>2, <1>3, <1>4, <1>5
  <1>12. SlotsOK'
    <2>1. Noted(slot', reached')
      BY <1>4, <1>7, <1>11 DEF Noted
    <2>2. Noted(storedSlot, reached')
      <3>1. CASE firstSent = 0
        BY <1>4, <1>5, <1>6, <1>11, <3>1 DEF Noted
      <3>2. CASE firstSent > 0
        <4>1. Noted(storedSlot, reached) /\ reached <= reached' /\ reached > 0
          BY <1>1, <1>2, <1>3, <1>5, <3>2 DEF Replays, SlotsOK
        <4> QED
          BY <1>4, <1>5, <1>11, <4>1 DEF Noted
      <3> QED
        BY <1>5, <3>1, <3>2
    <2>3. Noted(storedSlot, emitted) /\ Noted(lastSlot, emitted)
      BY <1>1 DEF Replays, SlotsOK
    <2>4. slot' > 0 /\ lastSlot' <= slot' /\ firstSent' \in 0..reached' /\ reached' \in 0..emitted
      <3>1. slot' > 0 /\ lastSlot' <= slot'
        BY <1>2, <1>4, <1>7
      <3>2. reached' \in 0..emitted
        BY <1>3, <1>11
      <3>3. firstSent' \in 0..reached'
        BY <1>3, <1>11
      <3> QED
        BY <3>1, <3>2, <3>3
    <2>5. /\ Noted(storedSlot, emitted)' /\ Noted(lastSlot, emitted)' /\ Noted(slot, reached)'
          /\ Noted(storedSlot, reached)'
      BY <1>2, <2>1, <2>2, <2>3
    <2>6. slot' # 0 /\ firstSent' > 0
      BY <1>4, <1>7, <1>11
    <2> QED
      BY <1>2, <2>4, <2>5, <2>6 DEF SlotsOK
  <1>13. InSlotOrder'
    <2>1. \A a \in 1..Len(queue) : queue[a] \in 1..emitted
      <3>1. queue \in Seq(1..emitted)
        BY <1>1 DEF Base, PipelineOK
      <3> QED
        BY <3>1, RangeType
    <2>2. \A a \in 1..Len(queue) : SlotOf[queue[a]] <= SlotOf[position]
      BY <1>1, <1>4, <1>5, <1>7, <2>1 DEF Replays, InSlotOrder
    <2>3. held' # 0 => held' = position
      BY <1>2, <1>3
    <2> QED
      BY <1>1, <1>2, <1>4, <1>7, <2>2, <2>3 DEF Replays, InSlotOrder
  <1>14. ConnectionOK'
    <2> SUFFICES ASSUME NEW i \in 1..emitted, SlotOf[i] < SlotOf[position]
                 PROVE  i < position'
      BY <1>2, <1>7, <1>11 DEF ConnectionOK
    <2> QED
      BY <1>2, <1>3, <1>4
  <1>15. NoMessageSkipped'
    <2> SUFFICES ASSUME NEW i \in firstSent'..emitted, i < position', Converts(i)
                 PROVE  i \in saved \cup InHand'
      BY <1>2 DEF NoMessageSkipped, Converts
    <2>1. CASE i = position
      BY <1>8, <2>1
    <2>2. CASE i # position
      <3>1. firstSent > 0 /\ i \in firstSent..emitted /\ i < position /\ i > 0
        BY <1>2, <1>3, <1>5, <2>2
      <3>2. i \in saved \cup InHand
        BY <1>1, <1>2, <3>1 DEF Replays, NoMessageSkipped
      <3> QED
        BY <1>8, <3>1, <3>2
    <2> QED
      BY <2>1, <2>2
  <1>16. ResumeIsSafe'
    <2> SUFFICES ASSUME NEW i \in firstSent'..reached', SlotOf[i] < SlotOf[position], Converts(i)
                 PROVE  i \in saved \cup InHand'
      BY <1>2, <1>7 DEF ResumeIsSafe, Converts
    <2>1. i \in 1..emitted /\ i \in firstSent'..emitted
      BY <1>3, <1>11
    <2>2. i < position
      BY <1>3, <1>4, <2>1
    <2> QED
      <3>1. source' # "ws" /\ conn' \in {"open", "send"} /\ i < position' /\ emitted' = emitted /\ saved' = saved
        BY <1>1, <1>2, <1>3, <2>1, <2>2
      <3> QED
        BY <1>11, <1>15, <2>1, <3>1 DEF NoMessageSkipped, Converts
  <1>17. CursorSlotIsStored'
    <2> SUFFICES ASSUME NEW i \in firstSent'..reached', SlotOf[i] < storedSlot, Converts(i)
                 PROVE  i \in saved
      BY <1>2 DEF CursorSlotIsStored, Converts
    <2>1. i \in 1..emitted
      BY <1>3, <1>11
    <2>2. CASE firstSent = 0
      BY <1>2, <1>3, <1>4, <1>5, <1>6, <2>1, <2>2
    <2>3. CASE firstSent > 0 /\ i <= reached
      BY <1>1, <1>2, <1>5, <2>1, <2>3 DEF Replays, CursorSlotIsStored
    <2>4. CASE firstSent > 0 /\ i > reached
      <3>1. Noted(storedSlot, reached) /\ SlotOf[reached] <= SlotOf[i] /\ SlotOf[reached] \in Nat /\ SlotOf[i] \in Nat
        BY <1>1, <1>3, <1>4, <1>5, <2>1, <2>4 DEF Replays, SlotsOK
      <3> QED
        BY <1>5, <2>4, <3>1 DEF Noted
    <2> QED
      BY <1>5, <2>1, <2>2, <2>3, <2>4
  <1> QED
    BY <1>9, <1>10, <1>12, <1>13, <1>14, <1>15, <1>16, <1>17 DEF SourceInv, SourceConsistent

\* A step that moves messages along, and loses none unless the task returns.
LEMMA StaySafe ==
    ASSUME Base, Replays, UNCHANGED <<source, emitted, position, slot, storedSlot, firstSent, reached>>,
           saved \subseteq saved', conn' \in {"open", "send"} => conn \in {"open", "send"} /\ consumer' # "ended",
           consumer' # "ended" => consumer # "ended" /\ saved \cup InHand \subseteq saved' \cup InHand' \cup {0}
    PROVE  ConnectionOK' /\ ResumeIsSafe' /\ NoMessageSkipped' /\ CursorSlotIsStored'
  <1>1. FromSlot' = FromSlot
    BY DEF FromSlot, CursorSlot
  <1>2. ConnectionOK'
    BY <1>1 DEF Replays, ConnectionOK
  <1>3. CursorSlotIsStored'
    BY DEF Replays, CursorSlotIsStored, Converts
  <1>4. firstSent \in Nat /\ reached \in Nat /\ emitted \in Nat
    BY Slots DEF Replays, SlotsOK
  <1>5. ResumeIsSafe'
    <2> SUFFICES ASSUME consumer' # "ended", firstSent > 0, NEW i \in firstSent..reached, SlotOf[i] < FromSlot, Converts(i)
                 PROVE  i \in saved' \cup InHand'
      BY <1>1 DEF ResumeIsSafe, Converts
    <2>1. i \in saved \cup InHand /\ i # 0
      BY <1>4 DEF Replays, ResumeIsSafe
    <2> QED
      BY <2>1
  <1>6. NoMessageSkipped'
    <2> SUFFICES ASSUME source # "ws", conn' \in {"open", "send"}, firstSent > 0, NEW i \in firstSent..emitted,
                        i < position, Converts(i)
                 PROVE  i \in saved' \cup InHand'
      BY DEF NoMessageSkipped, Converts
    <2>1. i \in saved \cup InHand /\ i # 0
      BY <1>4 DEF Replays, NoMessageSkipped
    <2> QED
      BY <2>1
  <1> QED
    BY <1>2, <1>3, <1>5, <1>6

\* The message on hand joins the channel, behind those of earlier slots.
LEMMA SendStep ==
    ASSUME SourceInv, Send
    PROVE  SourceInv'
  <1>1. Base /\ (source # "ws" => Replays)
    BY SourceParts
  <1>2. /\ conn = "send" /\ Len(queue) < ChannelSize /\ queue' = Append(queue, held) /\ held' = 0 /\ conn' = "open"
        /\ source' = source /\ emitted' = emitted /\ position' = position /\ slot' = slot /\ retries' = retries
        /\ consumer' = consumer /\ unsaved' = unsaved /\ lastSlot' = lastSlot /\ saved' = saved
        /\ storedSlot' = storedSlot /\ firstSent' = firstSent /\ reached' = reached /\ CursorSlot' = CursorSlot
    BY DEF Send, consumerVars, pastVars, CursorSlot
  <1>3. held \in 1..emitted /\ queue \in Seq(1..emitted) /\ consumer # "ended" /\ emitted \in Nat
    <2>1. held # 0 /\ held \in 0..emitted /\ queue \in Seq(1..emitted) /\ consumer # "ended"
      BY <1>1, <1>2 DEF Base, SourceTypeOK, PipelineOK
    <2> QED
      BY <1>1, <2>1, Slots
  <1>4. /\ queue' \in Seq(1..emitted) /\ Range(queue') = Range(queue) \cup {held} /\ Len(queue') = Len(queue) + 1
        /\ queue'[Len(queue) + 1] = held /\ \A a \in 1..Len(queue) : queue'[a] = queue[a]
    BY <1>2, <1>3, RangeAppend
  <1>5. InHand' = InHand \cup {0} /\ Len(queue) \in Nat
    BY <1>2, <1>3, <1>4 DEF InHand
  <1>6. PipelineOK'
    <2>1. held' \in 0..emitted /\ (consumer' = "ended" => FALSE)
      BY <1>2, <1>3
    <2>2. source # "ws" => (saved' \cup InHand') \cap Unreadable \subseteq {0}
      BY <1>1, <1>2, <1>5 DEF Base, PipelineOK
    <2> QED
      BY <1>1, <1>2, <1>4, <2>1, <2>2 DEF Base, PipelineOK
  <1>7. SourceTypeOK'
    <2>1. Range(queue') \subseteq 1..emitted
      BY <1>4, RangeType
    <2>2. Len(queue') <= ChannelSize /\ held' \in 0..MaxMessage
      BY <1>1, <1>2, <1>4, <1>5, Slots, SourceAssumption
    <2>3. ~(retries > MaxRetries)
      BY <1>1, <1>2 DEF Base, SourceTypeOK
    <2> QED
      BY <1>1, <1>2, <2>1, <2>2, <2>3 DEF Base, SourceTypeOK
  <1>8. ASSUME source # "ws" PROVE Replays'
    <2>1. Replays
      BY <1>1, <1>8
    <2>2. ConnectionOK' /\ ResumeIsSafe' /\ NoMessageSkipped' /\ CursorSlotIsStored'
      BY <1>1, <1>2, <1>3, <1>5, <2>1, StaySafe
    <2>3. SlotsOK'
      BY <1>2, <2>1 DEF Replays, SlotsOK, Noted
    <2>4. InSlotOrder'
      <3>1. \A a \in 1..Len(queue') : a \in 1..Len(queue) \/ (a = Len(queue) + 1 /\ queue'[a] = held)
        BY <1>4, <1>5
      <3>2. \A a \in 1..Len(queue') : lastSlot <= SlotOf[queue'[a]] /\ SlotOf[queue'[a]] <= slot
        <4>1. \A a \in 1..Len(queue) : lastSlot <= SlotOf[queue[a]] /\ SlotOf[queue[a]] <= slot
          BY <2>1 DEF Replays, InSlotOrder
        <4>2. lastSlot <= SlotOf[held] /\ SlotOf[held] <= slot
          BY <1>3, <2>1 DEF Replays, InSlotOrder
        <4> QED
          BY <1>4, <3>1, <4>1, <4>2
      <3>3. ASSUME NEW a \in 1..Len(queue'), NEW b \in a..Len(queue')
            PROVE  SlotOf[queue'[a]] <= SlotOf[queue'[b]]
        <4>1. CASE b \in 1..Len(queue)
          <5>1. a \in 1..Len(queue) /\ b \in a..Len(queue)
            BY <1>4, <1>5, <4>1
          <5> QED
            <6>1. SlotOf[queue[a]] <= SlotOf[queue[b]]
              BY <2>1, <5>1 DEF Replays, InSlotOrder
            <6> QED
              BY <1>4, <4>1, <5>1, <6>1
        <4>2. CASE b = Len(queue) + 1 /\ a \in 1..Len(queue)
          <5>1. SlotOf[queue[a]] <= SlotOf[held]
            BY <1>3, <2>1, <4>2 DEF Replays, InSlotOrder
          <5> QED
            BY <1>4, <4>2, <5>1
        <4>3. CASE b = Len(queue) + 1 /\ a = Len(queue) + 1
          <5>1. held \in 1..MaxMessage /\ SlotOf[held] \in Nat
            BY <1>1, <1>3, Slots
          <5> QED
            BY <1>4, <4>3, <5>1
        <4> QED
          BY <1>4, <1>5, <4>1, <4>2, <4>3
      <3> QED
        BY <1>2, <3>2, <3>3 DEF InSlotOrder
    <2> QED
      BY <2>2, <2>3, <2>4 DEF Replays
  <1> QED
    BY <1>2, <1>6, <1>7, <1>8 DEF SourceInv, SourceConsistent, Replays, NoMessageSkipped, CursorSlotIsStored

\* A WebSocket message joins the channel or is dropped.
LEMMA DeliverWsStep ==
    ASSUME SourceInv, DeliverWs
    PROVE  SourceInv'
  <1>1. Base
    BY SourceParts
  <1>2. /\ conn = "open" /\ source = "ws" /\ position <= emitted /\ position' = position + 1
        /\ queue' = IF Len(queue) < ChannelSize THEN Append(queue, position) ELSE queue
        /\ source' = source /\ emitted' = emitted /\ conn' = conn /\ held' = held /\ retries' = retries
        /\ consumer' = consumer /\ unsaved' = unsaved /\ saved' = saved
    BY DEF DeliverWs, Delivered, consumerVars
  <1>3. position \in 1..emitted /\ queue \in Seq(1..emitted) /\ emitted \in Nat /\ consumer # "ended"
    BY <1>1, <1>2, Slots DEF Base, PipelineOK
  <1>4. queue' \in Seq(1..emitted) /\ Len(queue') <= ChannelSize
    <2>1. CASE Len(queue) < ChannelSize
      <3>1. queue' \in Seq(1..emitted) /\ Len(queue') = Len(queue) + 1 /\ Len(queue) \in Nat
        BY <1>2, <1>3, <2>1, RangeAppend
      <3> QED
        BY <2>1, <3>1, SourceAssumption
    <2>2. CASE ~(Len(queue) < ChannelSize)
      BY <1>1, <1>2, <1>3, <2>2 DEF Base, SourceTypeOK
    <2> QED
      BY <2>1, <2>2
  <1>5. position' \in 1..emitted + 1 /\ position' \in 1..MaxMessage + 1
    BY <1>1, <1>2, <1>3, Slots
  <1>6. PipelineOK'
    BY <1>1, <1>2, <1>3, <1>4, <1>5 DEF Base, PipelineOK
  <1>7. Range(queue') \subseteq 1..emitted
    BY <1>4, RangeType
  <1>8. SourceTypeOK'
    BY <1>1, <1>2, <1>4, <1>5, <1>7 DEF Base, SourceTypeOK
  <1> QED
    BY <1>2, <1>6, <1>8 DEF SourceInv, SourceConsistent, NoMessageSkipped, CursorSlotIsStored

-----------------------------------------------------------------------------
(* The stream task *)

\* The first message of the channel joins the batch; the others are of no earlier slot.
LEMMA TakeMessageStep ==
    ASSUME SourceInv, TakeMessage
    PROVE  SourceInv'
  <1>1. Base /\ (source # "ws" => Replays)
    BY SourceParts
  <1>2. /\ consumer = "run" /\ queue # <<>> /\ queue' = Tail(queue) /\ unsaved' = Append(unsaved, Head(queue))
        /\ lastSlot' = SlotOf[Head(queue)] /\ consumer' \in {"flush", "run"}
        /\ source' = source /\ emitted' = emitted /\ conn' = conn /\ position' = position /\ slot' = slot
        /\ held' = held /\ retries' = retries /\ saved' = saved /\ storedSlot' = storedSlot
        /\ firstSent' = firstSent /\ reached' = reached
    BY DEF TakeMessage, linkVars, pastVars
  <1>3. queue \in Seq(1..emitted) /\ unsaved \in Seq(1..emitted) /\ emitted \in Nat
    BY <1>1, Slots DEF Base, PipelineOK
  <1>4. /\ Head(queue) \in 1..emitted /\ queue' \in Seq(1..emitted) /\ Range(queue) = {Head(queue)} \cup Range(queue')
        /\ Len(queue) >= 1 /\ Head(queue) = queue[1] /\ Len(queue') = Len(queue) - 1
        /\ \A a \in 1..Len(queue') : queue'[a] = queue[a + 1]
    BY <1>2, <1>3, RangeTail
  <1>5. unsaved' \in Seq(1..emitted) /\ Range(unsaved') = Range(unsaved) \cup {Head(queue)}
    BY <1>2, <1>3, <1>4, RangeAppend
  <1>6. InHand' = InHand /\ Len(queue) \in Nat
    BY <1>2, <1>3, <1>4, <1>5 DEF InHand
  <1>7. PipelineOK'
    BY <1>1, <1>2, <1>4, <1>5, <1>6 DEF Base, PipelineOK
  <1>8. SourceTypeOK'
    <2>1. Range(queue') \subseteq 1..emitted
      BY <1>4, RangeType
    <2>2. Len(queue') <= ChannelSize
      BY <1>1, <1>4, <1>6, SourceAssumption DEF Base, SourceTypeOK
    <2> QED
      BY <1>1, <1>2, <2>1, <2>2 DEF Base, SourceTypeOK
  <1>9. ASSUME source # "ws" PROVE Replays'
    <2>1. Replays /\ 1 \in 1..Len(queue)
      BY <1>1, <1>4, <1>6, <1>9
    <2>2. ConnectionOK' /\ ResumeIsSafe' /\ NoMessageSkipped' /\ CursorSlotIsStored'
      BY <1>1, <1>2, <1>6, <2>1, StaySafe
    <2>3. lastSlot' \in Nat /\ lastSlot' > 0 /\ lastSlot' <= SlotOf[emitted] /\ emitted > 0 /\ lastSlot' <= slot
      <3>1. lastSlot' \in Nat /\ lastSlot' > 0 /\ lastSlot' <= SlotOf[emitted] /\ emitted > 0
        <4>1. PICK h \in 1..emitted : h = Head(queue)
          BY <1>4
        <4>2. h \in 1..MaxMessage /\ emitted \in 1..MaxMessage /\ h <= emitted
          BY <1>1, <1>3, Slots
        <4>3. SlotOf[h] \in Nat /\ SlotOf[h] > 0 /\ SlotOf[h] <= SlotOf[emitted]
          BY <1>1, <4>2, Slots
        <4> QED
          BY <1>2, <4>1, <4>2, <4>3
      <3>2. lastSlot' <= slot
        BY <1>2, <1>4, <2>1 DEF Replays, InSlotOrder
      <3> QED
        BY <3>1, <3>2
    <2>4. SlotsOK'
      <3>1. Noted(lastSlot, emitted)'
        BY <1>2, <2>3 DEF Noted
      <3>2. slot # 0 /\ slot \in Nat
        BY <2>1, <2>3 DEF Replays, SlotsOK, Noted
      <3> QED
        BY <1>2, <2>1, <2>3, <3>1, <3>2 DEF Replays, SlotsOK, Noted
    <2>5. InSlotOrder'
      <3>1. \A a \in 1..Len(queue') : a + 1 \in 1..Len(queue) /\ a + 1 \in 1..Len(queue)
        BY <1>4, <1>6
      <3>2. \A a \in 1..Len(queue) : SlotOf[queue[1]] <= SlotOf[queue[a]]
        BY <2>1 DEF Replays, InSlotOrder
      <3>3. \A a \in 1..Len(queue') : lastSlot' <= SlotOf[queue'[a]] /\ SlotOf[queue'[a]] <= slot'
        BY <1>2, <1>4, <2>1, <3>1, <3>2 DEF Replays, InSlotOrder
      <3>4. held' # 0 => lastSlot' <= SlotOf[held'] /\ SlotOf[held'] <= slot'
        BY <1>2, <1>4, <2>1 DEF Replays, InSlotOrder
      <3>5. ASSUME NEW a \in 1..Len(queue'), NEW b \in a..Len(queue')
            PROVE  SlotOf[queue'[a]] <= SlotOf[queue'[b]]
        <4>1. b \in 1..Len(queue') /\ b + 1 \in (a + 1)..Len(queue)
          BY <1>4, <1>6
        <4> QED
          BY <1>4, <2>1, <3>1, <4>1 DEF Replays, InSlotOrder
      <3>6. \A a \in 1..Len(queue') : held' # 0 => SlotOf[queue'[a]] <= SlotOf[held']
        BY <1>2, <1>4, <2>1, <3>1 DEF Replays, InSlotOrder
      <3> QED
        BY <3>3, <3>4, <3>5, <3>6 DEF InSlotOrder
    <2> QED
      BY <2>2, <2>4, <2>5 DEF Replays
  <1> QED
    BY <1>2, <1>7, <1>8, <1>9 DEF SourceInv, SourceConsistent, Replays, NoMessageSkipped, CursorSlotIsStored

\* The stream task stores its batch or keeps it, and stays.
LEMMA KeepStep ==
    ASSUME SourceInv, UNCHANGED <<source, emitted, linkVars, queue, lastSlot, storedSlot, firstSent, reached>>,
           \/ saved' = saved \cup Range(unsaved) /\ unsaved' = <<>>
           \/ saved' = saved /\ unsaved' = unsaved /\ consumer' \notin {"cursor", "finalCursor"},
           consumer # "ended", consumer' \in {"run", "flush", "cursor", "final", "finalCursor"}
    PROVE  SourceInv'
  <1>1. Base /\ (source # "ws" => Replays)
    BY SourceParts
  <1>2. /\ source' = source /\ emitted' = emitted /\ conn' = conn /\ position' = position /\ slot' = slot
        /\ held' = held /\ retries' = retries /\ queue' = queue /\ storedSlot' = storedSlot /\ lastSlot' = lastSlot
        /\ firstSent' = firstSent /\ reached' = reached
    BY DEF linkVars
  <1>3. /\ unsaved' \in Seq(1..emitted) /\ saved' \subseteq 1..emitted /\ saved \subseteq saved'
        /\ saved' \cup InHand' = saved \cup InHand
    <2>1. unsaved \in Seq(1..emitted) /\ saved \subseteq 1..emitted /\ Range(unsaved) \subseteq 1..emitted
      BY <1>1, QueueRange DEF Base, PipelineOK, SourceTypeOK
    <2>2. CASE saved' = saved \cup Range(unsaved) /\ unsaved' = <<>>
      <3>1. unsaved' \in Seq(1..emitted) /\ Range(unsaved') = {}
        BY <2>2, RangeEmpty
      <3>2. Range(queue') = Range(queue) /\ held' = held
        BY <1>2
      <3>3. saved' \cup InHand' = saved \cup InHand
        BY <2>2, <3>1, <3>2 DEF InHand
      <3> QED
        BY <2>1, <2>2, <3>1, <3>3
    <2>3. CASE saved' = saved /\ unsaved' = unsaved
      <3>1. InHand' = InHand
        BY <1>2, <2>3 DEF InHand
      <3> QED
        BY <2>1, <2>3, <3>1
    <2> QED
      BY <2>2, <2>3
  <1>4. PipelineOK'
    BY <1>1, <1>2, <1>3 DEF Base, PipelineOK
  <1>5. SourceTypeOK'
    <2>1. source # "ws" => saved' \cap Unreadable = {}
      <3>1. 0 \notin saved'
        BY <1>3
      <3> QED
        BY <1>2, <1>3, <1>4, <3>1 DEF PipelineOK
    <2> QED
      BY <1>1, <1>2, <1>3, <2>1 DEF Base, SourceTypeOK
  <1>6. ASSUME source # "ws" PROVE Replays'
    <2>1. ConnectionOK' /\ ResumeIsSafe' /\ NoMessageSkipped' /\ CursorSlotIsStored'
      BY <1>1, <1>2, <1>3, <1>6, StaySafe
    <2>2. SlotsOK' /\ InSlotOrder'
      BY <1>1, <1>2, <1>6 DEF Replays, SlotsOK, Noted, InSlotOrder, CursorSlot
    <2> QED
      BY <2>1, <2>2 DEF Replays
  <1> QED
    BY <1>2, <1>4, <1>5, <1>6 DEF SourceInv, SourceConsistent, Replays, NoMessageSkipped, CursorSlotIsStored

\* The stored cursor may move to s: it is the slot of a message that was delivered, and
\* what was delivered before it is stored.
CursorMayBe(s) ==
    /\ Noted(s, emitted) /\ ((firstSent > 0 \/ source = "cursor") => Noted(s, reached))
    /\ firstSent > 0 => \A i \in firstSent..reached : Converts(i) /\ SlotOf[i] < s => i \in saved

\* The task returns: what it held is lost, and the cursor is at most where it was stored.
LEMMA ReturnStep ==
    ASSUME SourceInv, ReturnStream, UNCHANGED <<source, emitted, lastSlot, saved, firstSent, reached>>,
           source # "ws" => CursorMayBe(storedSlot')
    PROVE  SourceInv'
  <1>1. Base /\ (source # "ws" => Replays)
    BY SourceParts
  <1>2. /\ consumer' = "ended" /\ conn' = "ended" /\ held' = 0 /\ queue' = <<>> /\ unsaved' = <<>>
        /\ position' = position /\ slot' = slot /\ retries' = retries
    BY DEF ReturnStream
  <1>3. InHand' = {0} /\ emitted \in Nat /\ Len(<<>>) = 0 /\ Range(<<>>) = {}
    BY <1>1, <1>2, RangeEmpty, Slots DEF InHand
  <1>4. PipelineOK'
    <2>1. <<>> \in Seq(1..emitted) /\ 0 \in 0..emitted
      BY <1>3
    <2> QED
      BY <1>1, <1>2, <1>3, <2>1 DEF Base, PipelineOK
  <1>5. SourceTypeOK'
    <2>1. 0 \in 0..MaxMessage /\ Len(queue') <= ChannelSize /\ Range(queue') \subseteq 1..emitted
      BY <1>2, <1>3, SourceAssumption
    <2> QED
      BY <1>1, <1>2, <2>1 DEF Base, SourceTypeOK
  <1>6. ASSUME source # "ws" PROVE Replays'
    <2>1. SlotsOK'
      BY <1>1, <1>2, <1>6 DEF Replays, SlotsOK, CursorMayBe, Noted
    <2>2. InSlotOrder' /\ ConnectionOK' /\ ResumeIsSafe' /\ NoMessageSkipped'
      BY <1>2, <1>3 DEF InSlotOrder, ConnectionOK, ResumeIsSafe, NoMessageSkipped
    <2>3. CursorSlotIsStored'
      BY <1>6 DEF CursorMayBe, CursorSlotIsStored, Converts
    <2> QED
      BY <2>1, <2>2, <2>3 DEF Replays
  <1> QED
    BY <1>4, <1>5, <1>6 DEF SourceInv, SourceConsistent, Replays, NoMessageSkipped, CursorSlotIsStored

LEMMA CursorStays == ASSUME Replays, source # "ws" PROVE CursorMayBe(storedSlot)
  BY DEF Replays, SlotsOK, CursorMayBe, CursorSlotIsStored

\* After a flush the slot of the last message taken is such a cursor: a message of an
\* earlier slot that was delivered is neither in the channel nor on hand.
LEMMA CursorMoves ==
    ASSUME Base, Replays, source # "ws", consumer \in {"cursor", "finalCursor"}
    PROVE  CursorMayBe(lastSlot) /\ (slot = 0 => lastSlot = storedSlot)
  <1>1. unsaved = <<>> /\ consumer # "ended" /\ emitted \in Nat
    BY Slots DEF Base, PipelineOK
  <1>2. CASE slot = 0
    <2>1. lastSlot = storedSlot
      BY <1>1, <1>2 DEF Replays, SlotsOK
    <2> QED
      BY <2>1, CursorStays
  <1>3. CASE slot # 0
    <2>1. slot > 0 /\ slot \in Nat /\ lastSlot \in Nat /\ lastSlot <= slot /\ FromSlot = slot
      BY <1>1, <1>3 DEF Replays, SlotsOK, Noted, FromSlot
    <2>2. firstSent \in Nat /\ reached \in 1..emitted /\ slot <= SlotOf[reached] /\ firstSent > 0
      BY <1>1, <2>1 DEF Replays, SlotsOK, Noted
    <2>3. Noted(lastSlot, reached) /\ Noted(lastSlot, emitted)
      <3>1. SlotOf[reached] \in Nat
        BY <1>1, <2>2, Slots
      <3>2. Noted(lastSlot, reached)
        BY <2>1, <2>2, <3>1 DEF Noted
      <3> QED
        BY <3>2 DEF Replays, SlotsOK
    <2>4. ASSUME NEW i \in firstSent..reached, Converts(i), SlotOf[i] < lastSlot PROVE i \in saved
      <3>1. i \in 1..emitted /\ SlotOf[i] \in Nat /\ i # 0
        BY <1>1, <2>2, <2>4, Slots
      <3>2. SlotOf[i] < FromSlot
        BY <2>1, <2>4, <3>1
      <3>3. i \in saved \cup InHand
        BY <1>1, <2>2, <2>4, <3>2 DEF Replays, ResumeIsSafe
      <3>4. i \notin Range(unsaved)
        BY <1>1, RangeEmpty
      <3>5. i # held
        BY <2>1, <2>4, <3>1 DEF Replays, InSlotOrder
      <3>6. i \notin Range(queue)
        <4> SUFFICES ASSUME i \in Range(queue) PROVE FALSE
          OBVIOUS
        <4>1. PICK a \in 1..Len(queue) : queue[a] = i
          BY RangeType DEF Base, PipelineOK
        <4> QED
          BY <2>1, <2>4, <3>1, <4>1 DEF Replays, InSlotOrder
      <3> QED
        BY <3>3, <3>4, <3>5, <3>6 DEF InHand
    <2> QED
      BY <1>3, <2>3, <2>4 DEF CursorMayBe
  <1> QED
    BY <1>2, <1>3

\* The cursor is stored, or its statement fails, and the task goes on or returns.
LEMMA StoreCursorStep ==
    ASSUME SourceInv, StoreCursor
    PROVE  SourceInv'
  <1>1. Base /\ (source # "ws" => Replays)
    BY SourceParts
  <1>2. /\ consumer \in {"cursor", "finalCursor"} /\ storedSlot' \in {lastSlot, storedSlot}
        /\ source' = source /\ emitted' = emitted /\ lastSlot' = lastSlot /\ saved' = saved
        /\ firstSent' = firstSent /\ reached' = reached
    BY DEF StoreCursor, pastVars
  <1>3. source # "ws" => CursorMayBe(storedSlot') /\ (slot = 0 => storedSlot' = storedSlot)
    BY <1>1, <1>2, CursorMoves, CursorStays
  <1>4. CASE ReturnStream
    BY <1>2, <1>3, <1>4, ReturnStep
  <1>5. CASE consumer = "cursor" /\ consumer' = "run" /\ UNCHANGED <<linkVars, queue, unsaved>>
    <2>1. /\ conn' = conn /\ position' = position /\ slot' = slot /\ held' = held /\ retries' = retries
          /\ queue' = queue /\ unsaved' = unsaved /\ InHand' = InHand
      BY <1>5 DEF linkVars, InHand
    <2>2. Base'
      BY <1>1, <1>2, <1>5, <2>1 DEF Base, SourceTypeOK, PipelineOK
    <2>3. ASSUME source # "ws" PROVE Replays'
      <3>1. Replays /\ CursorMayBe(storedSlot') /\ (slot = 0 => storedSlot' = storedSlot)
        BY <1>1, <1>3, <2>3
      <3>2. FromSlot' = FromSlot /\ slot \in Nat /\ (slot = 0 => CursorSlot' = CursorSlot)
        BY <1>2, <2>1, <3>1 DEF Replays, SlotsOK, Noted, FromSlot, CursorSlot
      <3>3. SlotsOK'
        BY <1>2, <1>5, <2>1, <3>1, <3>2 DEF Replays, SlotsOK, CursorMayBe, Noted
      <3>4. InSlotOrder' /\ ResumeIsSafe' /\ NoMessageSkipped'
        BY <1>2, <1>5, <2>1, <3>1, <3>2 DEF Replays, InSlotOrder, ResumeIsSafe, NoMessageSkipped
      <3>5. CursorSlotIsStored'
        BY <1>2, <3>1 DEF CursorMayBe, CursorSlotIsStored, Converts
      <3>6. firstSent = 0 => storedSlot' = storedSlot
        BY <3>1, <3>2 DEF Replays, SlotsOK, Noted
      <3>7. ConnectionOK'
        BY <1>2, <2>1, <3>1, <3>2, <3>6 DEF Replays, ConnectionOK
      <3> QED
        BY <3>3, <3>4, <3>5, <3>7 DEF Replays
    <2> QED
      BY <1>2, <2>2, <2>3 DEF SourceInv, SourceConsistent, Base, Replays, NoMessageSkipped, CursorSlotIsStored
  <1> QED
    BY <1>4, <1>5 DEF StoreCursor

\* The ends of a task that leave the cursor where it is.
LEMMA ReturnsStep ==
    ASSUME SourceInv, ReturnStream, UNCHANGED <<source, emitted, lastSlot, saved, storedSlot, pastVars>>
    PROVE  SourceInv'
  <1>1. source # "ws" => CursorMayBe(storedSlot')
    BY SourceParts, CursorStays
  <1> QED
    BY <1>1, ReturnStep DEF pastVars

\* A flush, a failed one, and the last one of a task.
LEMMA FlushBatchStep ==
    ASSUME SourceInv, FlushBatch
    PROVE  SourceInv'
  <1>1. CASE consumer = "final" /\ ReturnStream /\ UNCHANGED saved
    BY <1>1, ReturnsStep DEF FlushBatch
  <1>2. CASE ~ReturnStream
    <2>1. /\ UNCHANGED <<source, emitted, linkVars, queue, lastSlot, storedSlot, firstSent, reached>>
          /\ \/ saved' = saved \cup Range(unsaved) /\ unsaved' = <<>>
             \/ saved' = saved /\ unsaved' = unsaved /\ consumer' \notin {"cursor", "finalCursor"}
          /\ consumer # "ended" /\ consumer' \in {"run", "flush", "cursor", "final", "finalCursor"}
      BY <1>2 DEF FlushBatch, pastVars
    <2> QED
      BY <2>1, KeepStep
  <1>3. CASE ReturnStream /\ saved' = saved
    BY <1>3, ReturnsStep DEF FlushBatch
  <1>4. CASE ReturnStream /\ saved' # saved
    <2>1. consumer' # "ended"
      BY <1>4 DEF FlushBatch
    <2> QED
      BY <1>4, <2>1 DEF ReturnStream
  <1> QED
    BY <1>1, <1>2, <1>3, <1>4

\* The task leaves with an empty batch, or flushes it first; or it is lost.
LEMMA LeaveStep ==
    ASSUME SourceInv, SourceClosed \/ CancelTask \/ LoseStream
    PROVE  SourceInv'
  <1>1. UNCHANGED <<source, emitted, lastSlot, saved, storedSlot, pastVars>>
    BY DEF SourceClosed, CancelTask, LoseStream
  <1>2. CASE ReturnStream
    BY <1>1, <1>2, ReturnsStep
  <1>3. CASE consumer = "run" /\ consumer' = "final" /\ UNCHANGED <<linkVars, queue, unsaved>>
    BY <1>1, <1>3, KeepStep DEF pastVars
  <1> QED
    BY <1>2, <1>3 DEF SourceClosed, CancelTask, LoseStream, LeaveStream

\* A new task starts at the cursor, before which everything is stored, or counts anew.
LEMMA NextTaskStep ==
    ASSUME SourceInv, NextTask
    PROVE  SourceInv'
  <1>1. Base /\ (source # "ws" => Replays)
    BY SourceParts
  <1>2. /\ consumer = "ended" /\ consumer' = "run" /\ conn' = "connect" /\ slot' = 0 /\ retries' = 0
        /\ lastSlot' = storedSlot /\ source' = source /\ emitted' = emitted /\ position' = position
        /\ held' = held /\ queue' = queue /\ unsaved' = unsaved /\ saved' = saved /\ storedSlot' = storedSlot
        /\ IF source = "cursor" /\ storedSlot > 0 THEN firstSent' = firstSent /\ reached' = reached
           ELSE firstSent' = 0 /\ reached' = 0
    BY DEF NextTask
  <1>3. queue = <<>> /\ unsaved = <<>> /\ held = 0 /\ InHand' = InHand /\ Len(<<>>) = 0
    BY <1>1, <1>2, HeldByType DEF Base, PipelineOK, InHand
  <1>4. PipelineOK'
    BY <1>1, <1>2, <1>3 DEF Base, PipelineOK
  <1>5. SourceTypeOK'
    <2>1. 0 \in 0..MaxRetries + 1 /\ ~(0 > MaxRetries)
      BY SourceAssumption
    <2> QED
      BY <1>1, <1>2, <1>3, <2>1 DEF Base, SourceTypeOK
  <1>6. ASSUME source # "ws" PROVE Replays'
    <2>1. Replays /\ emitted \in Nat /\ storedSlot \in Nat
      BY <1>1, <1>6, Slots DEF Replays, SlotsOK, Noted
    <2>2. SlotsOK'
      <3>1. Noted(0, reached') /\ Noted(storedSlot, emitted)
        BY <2>1 DEF Noted, Replays, SlotsOK
      <3>2. CASE source = "cursor" /\ storedSlot > 0
        BY <1>2, <2>1, <3>1, <3>2 DEF Replays, SlotsOK, Noted, CursorSlot
      <3>3. CASE ~(source = "cursor" /\ storedSlot > 0)
        BY <1>2, <2>1, <3>1, <3>3 DEF Replays, SlotsOK, Noted, CursorSlot
      <3> QED
        BY <3>2, <3>3
    <2>3. InSlotOrder' /\ ConnectionOK' /\ NoMessageSkipped'
      BY <1>2, <1>3 DEF InSlotOrder, ConnectionOK, NoMessageSkipped
    <2>4. CursorSlotIsStored'
      BY <1>2, <2>1 DEF Replays, CursorSlotIsStored, Converts
    <2>5. ResumeIsSafe'
      <3>1. FromSlot' = IF source = "cursor" THEN storedSlot ELSE 0
        BY <1>2 DEF FromSlot, CursorSlot
      <3>2. CASE source = "cursor" /\ storedSlot > 0
        BY <1>2, <1>6, <2>1, <3>1, <3>2 DEF Replays, CursorSlotIsStored, ResumeIsSafe, Converts
      <3>3. CASE ~(source = "cursor" /\ storedSlot > 0)
        BY <1>2, <3>3 DEF ResumeIsSafe
      <3> QED
        BY <3>2, <3>3
    <2> QED
      BY <2>2, <2>3, <2>4, <2>5 DEF Replays
  <1> QED
    BY <1>2, <1>4, <1>5, <1>6 DEF SourceInv, SourceConsistent, Replays, NoMessageSkipped, CursorSlotIsStored

-----------------------------------------------------------------------------
(* The theorem *)

\* SourceInv is inductive.
LEMMA SourceInvStep == SourceInv /\ [SourceNext]_sourceVars => SourceInv'
  <1> SUFFICES ASSUME SourceInv, [SourceNext]_sourceVars PROVE SourceInv'
    OBVIOUS
  <1>1. CASE UNCHANGED sourceVars
    <2>1. /\ source' = source /\ emitted' = emitted /\ conn' = conn /\ position' = position /\ slot' = slot
          /\ held' = held /\ retries' = retries /\ queue' = queue /\ consumer' = consumer /\ unsaved' = unsaved
          /\ lastSlot' = lastSlot /\ saved' = saved /\ storedSlot' = storedSlot /\ firstSent' = firstSent
          /\ reached' = reached
      BY <1>1 DEF sourceVars, linkVars, consumerVars, pastVars
    <2>2. InHand' = InHand /\ FromSlot' = FromSlot /\ CursorSlot' = CursorSlot
      BY <2>1 DEF InHand, FromSlot, CursorSlot
    <2>3. SourceTypeOK' /\ PipelineOK'
      BY <2>1, <2>2 DEF SourceInv, SourceConsistent, SourceTypeOK, PipelineOK
    <2>4. NoMessageSkipped' /\ CursorSlotIsStored'
      BY <2>1, <2>2 DEF SourceInv, SourceConsistent, NoMessageSkipped, CursorSlotIsStored
    <2>5. source # "ws" => SlotsOK' /\ InSlotOrder' /\ ConnectionOK' /\ ResumeIsSafe'
      BY <2>1, <2>2 DEF SourceInv, SlotsOK, Noted, InSlotOrder, ConnectionOK, ResumeIsSafe
    <2> QED
      BY <2>1, <2>3, <2>4, <2>5 DEF SourceInv, SourceConsistent
  <1> QED
    BY <1>1, EmitStep, ConnectStep, DeliverStep, SendStep, DeliverWsStep, BreakStep, TakeMessageStep, FlushBatchStep,
       StoreCursorStep, LeaveStep, NextTaskStep DEF SourceNext, ConnStep, ConsumerStep

\* A stream is resumed without loss: over reconnections, replays, failed flushes, lost
\* leases and new tasks, every readable gRPC message between the first and the last
\* delivered is stored or on its way, and the stored cursor has nothing unsaved before it.
THEOREM SourceResumes == SourceSpec => []SourceConsistent
  <1>1. SourceInv => SourceConsistent
    BY DEF SourceInv
  <1> QED
    BY <1>1, SourceInvInit, SourceInvStep, PTL DEF SourceSpec
=============================================================================
