--------------------------- MODULE MCIngestionJobs ---------------------------
(* Small instances of IngestionJobs for TLC. *)
EXTENDS IngestionJobs, TLC

\* Every job ingests the same target, so that their checkpoints race.
MCJobTarget == [j \in Jobs |-> CHOOSE t \in Targets : TRUE]

MCSymmetry == Permutations(Workers)
=============================================================================
