---------------------------- MODULE MCScheduler ----------------------------
(* Small instances of Scheduler for TLC. *)
EXTENDS Scheduler, TLC

CONSTANTS c1, c2, g1, timeout, exception

\* One collector alone.
OwnGroup == c1 :> g1
ThresholdTwo == c1 :> 2
ThresholdOne == c1 :> 1

\* Tick tasks and requests are interchangeable.
Symmetry == Permutations(Tick) \cup Permutations(Operator)
=============================================================================
