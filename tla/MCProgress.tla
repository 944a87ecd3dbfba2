----------------------------- MODULE MCProgress -----------------------------
(* A small instance for TLC of what must eventually happen: a stopped stream
   ends, and one whose connection is gone, a started export returns, a created
   materialization run finishes.  The four share no variable, so each is explored
   on its own while the others rest in an initial state. *)
EXTENDS StreamSubscriptions, StreamSource, ExportStream, TLC

CONSTANTS
    w1, p1, p2,   \* of the streams
    r1, Workers, NoWorker, Runs, IngestionRun, BadScope, EmptyRuns, RunPermits

VARIABLES
    part,         \* the part that runs
    status, runOwner, runFresh, lease, written, watermark, workerLoop, tasks, callbacks, runFaults

runVars == <<status, runOwner, runFresh, lease, written, watermark, workerLoop, tasks, callbacks,
             runFaults>>
progressVars == <<part, vars, sourceVars, streamVars, runVars>>

Mat == INSTANCE MaterializationRuns WITH
           owner <- runOwner, fresh <- runFresh, loop <- workerLoop, faults <- runFaults,
           Permits <- RunPermits

MCHolder == [p \in Permits |-> w1]
MCIngestionRun == [r \in Runs |-> IF r = r1 THEN 1 ELSE 2]

\* Two messages share a slot.
MCSlotOf == [i \in 1 .. MaxMessage |-> IF i <= 2 THEN i ELSE i - 1]

MCRowOf == [r \in 1..7 |-> CASE r = 1 -> [at |-> 1, net |-> "n1", addr |-> "a", pool |-> "p", matches |-> {"w"}]
                             [] r = 2 -> [at |-> 2, net |-> "n1", addr |-> "a", pool |-> "p", matches |-> {"w", "l"}]
                             [] r = 3 -> [at |-> 2, net |-> "n2", addr |-> "a", pool |-> "p", matches |-> {"l"}]
                             [] r = 4 -> [at |-> 2, net |-> "n1", addr |-> "a", pool |-> "p", matches |-> {"w"}]
                             [] r = 5 -> [at |-> 3, net |-> "n1", addr |-> "b", pool |-> "x", matches |-> {"w"}]
                             [] OTHER -> [at |-> 3, net |-> "n1", addr |-> "a", pool |-> "p", matches |-> {"w"}]]
MCTargetOf == [t \in {"w", "q", "l"} |->
    CASE t = "w" -> [kind |-> "wallet", net |-> "n1", addr |-> "a", spec |-> [n \in {"n1", "n2"} |-> {}]]
      [] t = "q" -> [kind |-> "protocol", net |-> "n1", addr |-> "none", spec |-> [n \in {"n1", "n2"} |-> IF n = "n1" THEN {"a"} ELSE {"b"}]]
      [] t = "l" -> [kind |-> "pool", net |-> "n1", addr |-> "p", spec |-> [n \in {"n1", "n2"} |-> {}]]]
MCRequests ==
    [dataset : {"silver"}, target : {"w", "any"}, net : {"net"}, since : {0}]
    \cup [dataset : {"hl"}, target : {"w", "l"}, net : {"n2", "net"}, since : {0}]
    \cup [dataset : {"balance_history"}, target : {"w"}, net : {"n1"}, since : {2}]
    \cup [dataset : {"protocol_events"}, target : {"q"}, net : {"n2", "net"}, since : {0}]
    \cup [dataset : {"pool_snapshots"}, target : {"l"}, net : {"net"}, since : {0}]

ProgressInit ==
    /\ part \in {"streams", "source", "export", "runs"}
    /\ Init /\ SourceInit /\ StreamInit /\ Mat!Init
    /\ part # "source" => source = "grpc"

ProgressNext ==
    \/ part = "streams" /\ Next /\ UNCHANGED <<part, sourceVars, streamVars, runVars>>
    \/ part = "source" /\ SourceNext /\ UNCHANGED <<part, vars, streamVars, runVars>>
    \/ part = "export" /\ StreamNext /\ UNCHANGED <<part, vars, sourceVars, runVars>>
    \/ part = "runs" /\ Mat!Next /\ UNCHANGED <<part, vars, sourceVars, streamVars>>

\* At rest no part has a fair step that is enabled.
ProgressSpec ==
    /\ ProgressInit /\ [][ProgressNext]_progressVars
    /\ Fairness /\ SourceFairness /\ StreamFairness /\ Mat!Fairness

\* A materialization run that was created is completed or failed in the end, over
\* crashes, lost leases and failed statements, as long as a worker stays up.
CreatedRunFinishes == Mat!CreatedRunFinishes

\* No stream runs on for nothing: one that is stopped ends in every process, and
\* one whose connection has given up ends too, so that it can be reported.
StreamsEnd == StopTakesEffect /\ SourceEndIsNoticed
=============================================================================
