------------------------ MODULE MCGenerationEffects -------------------------
(* GenerationEffects with two pages, a consumer in each or both in one, and  *)
(* two accounts.                                                             *)
EXTENDS GenerationEffects, TLC

CONSTANTS p1, p2, r1, r2, a1, a2

\* With the records of the agent, a trouble or an account switch, not both: the agent
\* knows no accounts, and the records of the browser are checked with both.
Bounded == authority = "agent" => troubles + switches <= 1

Symmetry == Permutations({p1, p2}) \cup Permutations({r1, r2})
=============================================================================
