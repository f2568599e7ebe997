------------------------ MODULE MCCreditTransactions ------------------------
(* CreditTransactions with two orders of one user and two sessions.  Codes   *)
(* and grants are single statements: MCCreditLedger has them.                *)
EXTENDS CreditTransactions, TLC

CONSTANTS u1, o1, o2, s1, s2

\* SQLite: everything but price changes, to keep the run small (the theorem of
\* CreditTransactions_proofs has any).  PostgreSQL: only restores, whose last
\* update repeats the status it read.
SafeOverlap(i) == IF i = "snapshot" THEN {"settle", "refund", "restore"} ELSE {"restore"}
\* A refund and a settlement, the pair of the recorded race.
RacingOverlap(i) == {"settle", "refund"}

MCValue  == [s \in {} |-> 0]
Symmetry == Permutations({o1, o2}) \cup Permutations({s1, s2})
=============================================================================
