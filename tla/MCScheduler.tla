----------------------------- MODULE MCScheduler -----------------------------
(* Instances of Scheduler for TLC. *)
EXTENDS Scheduler, TLC

CONSTANTS c1, c2, h1, h2

\* Requests that never overlap: the next begins when the last one has ended.
OneAtATime == \A g, h \in Requests : Active(g) /\ Active(h) => g = h
=============================================================================
