----------------------------- MODULE FencedQueue -----------------------------
(***************************************************************************)
(* What a durable job queue promises, whatever its tables look like.       *)
(* A job is submitted, leased any number of times (each lease opens a new  *)
(* epoch and ends the one before), and finishes once.  Its effects carry   *)
(* the epoch they were made in: only the current epoch may make one, and a *)
(* job is completed only by an epoch that made its own.                    *)
(***************************************************************************)
EXTENDS Integers

CONSTANT Jobs

VARIABLES
    phase,      \* what the queue knows of each job
    epoch,      \* how often the job has been leased
    effects     \* the pairs <<job, epoch>> whose effect is durable

vars == <<phase, epoch, effects>>

Init ==
    /\ phase = [j \in Jobs |-> "absent"]
    /\ epoch = [j \in Jobs |-> 0]
    /\ effects = {}

Submit(j) ==
    /\ phase[j] = "absent"
    /\ phase' = [phase EXCEPT ![j] = "queued"]
    /\ UNCHANGED <<epoch, effects>>

\* A lease taken from a queued job, or from a holder presumed dead.
Lease(j) ==
    /\ phase[j] \in {"queued", "leased"}
    /\ phase' = [phase EXCEPT ![j] = "leased"]
    /\ epoch' = [epoch EXCEPT ![j] = @ + 1]
    /\ UNCHANGED effects

\* The durable effect of the current epoch.
Effect(j) ==
    /\ phase[j] = "leased"
    /\ effects' = effects \cup {<<j, epoch[j]>>}
    /\ UNCHANGED <<phase, epoch>>

Complete(j) ==
    /\ phase[j] = "leased"
    /\ <<j, epoch[j]>> \in effects
    /\ phase' = [phase EXCEPT ![j] = "completed"]
    /\ UNCHANGED <<epoch, effects>>

Fail(j) ==
    /\ phase[j] = "leased"
    /\ phase' = [phase EXCEPT ![j] = "failed"]
    /\ UNCHANGED <<epoch, effects>>

Next == \E j \in Jobs : Submit(j) \/ Lease(j) \/ Effect(j) \/ Complete(j) \/ Fail(j)

Spec == Init /\ [][Next]_vars
=============================================================================
