------------------------ MODULE MCStreamSubscriptions ------------------------
(* Small instances of StreamSubscriptions for TLC. *)
EXTENDS StreamSubscriptions, TLC

CONSTANTS w1, w2, p1, p2, p3

\* The first process has two permits.
MCHolder == [p \in Permits |-> IF p = p3 THEN w2 ELSE w1]

\* Permits of one process are alike.
MCSymmetry == Permutations({p1, p2})
=============================================================================
