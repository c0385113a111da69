------------------------------ MODULE MCTasks ------------------------------
(***************************************************************************)
(* Instances of Tasks for TLC: one request, two pushes (one in the run for *)
(* liveness) and one request for an update compete with the two crons for  *)
(* a channel of one place.                                                 *)
(***************************************************************************)
EXTENDS Tasks, TLC

CONSTANTS push1, push2, m1, m2, r1, r2

\* Pushes, builds and releases are told apart by their identity alone; this is
\* for the invariants only.
Symmetry ==
    Permutations({push1, push2}) \cup Permutations({m1, m2})
        \cup Permutations({r1, r2})
=============================================================================
