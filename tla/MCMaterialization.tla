-------------------------- MODULE MCMaterialization --------------------------
(* A small instance of materialization for TLC: the queue of runs and its
   workers, and the tables that the tasks of one wallet write.  A task of the
   second stands for a claimed run of the first, and takes in every claim, crash
   and retry; they share no variable, so each is explored on its own while the
   other rests in its initial state. *)
EXTENDS MaterializationRuns, GoldMaterialization, TLC

CONSTANTS r1, r2, r3

VARIABLE part  \* the part that runs

matVars == <<part, vars, goldVars>>

\* r1 is the run of the older ingestion run.
MCIngestionRun == [r \in Runs |-> IF r = r1 THEN 1 ELSE 2]

\* Inputs 2 and 3 share a timestamp; the run of input 4 is rejected.
MCRunInputs == (r1 :> {1, 3} @@ r2 :> {2} @@ r3 :> {4})
MCTimeOf == [i \in Inputs |-> <<1, 2, 2, 3>>[i]]
MCDeltaOf == [i \in Inputs |-> <<5, -2, 1, 3>>[i]]

-----------------------------------------------------------------------------
MatInit == part \in {"runs", "gold"} /\ Init /\ GoldInit

MatNext ==
    \/ part = "runs" /\ Next /\ UNCHANGED <<part, goldVars>>
    \/ part = "gold" /\ GoldNext /\ UNCHANGED <<part, vars>>

MatSpec == MatInit /\ [][MatNext]_matVars

MCSymmetry == Permutations(Workers) \cup Permutations(GoldTasks)
=============================================================================
