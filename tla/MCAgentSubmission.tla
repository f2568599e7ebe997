-------------------------- MODULE MCAgentSubmission -------------------------
(* AgentSubmission with two runtimes that share one slot of the provider.    *)
EXTENDS AgentSubmission, TLC

CONSTANTS r1, r2, k1, k2

\* Two troubles if one of them is a change of the account, else one.
Bounded == troubles = MaxTroubles => session > 0

Symmetry == Permutations({r1, r2}) \cup Permutations({k1, k2})
=============================================================================
