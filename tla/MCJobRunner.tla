----------------------------- MODULE MCJobRunner -----------------------------
(* Instances of JobRunner for TLC. *)
EXTENDS JobRunner

CONSTANTS j1, r1, r2, w1, w2

\* Both runs belong to the one job, so a deletion removes them together.
OneJob == [r \in {r1, r2} |-> j1]
OneRun == [r \in {r1} |-> j1]
=============================================================================
