--------------------------- MODULE MCJournalFile ----------------------------
(* JournalFile with two runtimes that share a journal of two operations.     *)
EXTENDS JournalFile, TLC

CONSTANTS p1, p2, k1, k2

\* On POSIX two turns are checked, since the theorem has any number.  On Windows
\* three with a crash and a failed operation, and without them a fourth: an owner,
\* the one that takes over, the one whose directory is removed, and the one that
\* follows.
Bounded ==
    /\ turns = 3 => platform = "windows"
    /\ turns = 4 => platform = "windows" /\ crashes + faults = 0

Symmetry == Permutations({p1, p2}) \cup Permutations({k1, k2})
=============================================================================
