-------------------------- MODULE MCTaskLifecycle ---------------------------
(* TaskLifecycle with two workers that are model values. *)
EXTENDS TaskLifecycle, TLC

CONSTANTS w1, w2

\* A command that still works on what it read of the task.
Late == cancel.pc # "idle" \/ canceller[1].pc # "idle" \/ reconciler.pc # "idle"

\* Once a task was retried, a command or a second execution may be under way beside
\* the execution of the new run, not both: its first run's or its own.
OneAtATime ==
    task.run = MaxRuns =>
        /\ retry.pc = "idle"
        /\ ~Late \/ \E w \in Workers : ~Working(w)

Symmetry == Permutations({w1, w2})
=============================================================================
