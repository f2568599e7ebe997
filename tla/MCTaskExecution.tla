-------------------------- MODULE MCTaskExecution ---------------------------
(* TaskExecution with one run and two executions.                            *)
EXTENDS TaskExecution, TLC

CONSTANTS w1, w2

Symmetry == Permutations({w1, w2})
=============================================================================
