--------------------------- MODULE AtomicJournal ----------------------------
(***************************************************************************)
(* What the task journal of the canvas agent promises to the runtimes that *)
(* share it: an update takes effect at once, whole, at most once, and only *)
(* as the next stage of one record; an update that was acknowledged has    *)
(* taken effect.  JournalFile shows how dreamina-cli-state.ts does it with *)
(* a lock directory, temporary files and renames.                          *)
(***************************************************************************)
EXTENDS Naturals

CONSTANTS
  Keys,    \* operations (idempotency keys) the journal has records for
  Turns    \* the updates, each by one owner of the lock

VARIABLES
  journal,   \* the record of each key
  applied,   \* updates that took effect
  acked      \* updates whose caller was told so

vars == <<journal, applied, acked>>

Stages == {"absent", "pending", "accepted", "ended"}

Absent == [stage |-> "absent", turn |-> 0]
Record == [stage : Stages, turn : Turns \cup {0}]
Empty  == [k \in Keys |-> Absent]

\* A submission that is only pending may be renewed or removed again; one that
\* the provider accepted stays, and an end is final (stateRank, isTerminal).
NextStages ==
  [s \in Stages |->
     CASE s = "absent"   -> {"pending"}
       [] s = "pending"  -> {"pending", "accepted", "ended", "absent"}
       [] s = "accepted" -> {"accepted", "ended"}
       [] s = "ended"    -> {}]

Written(s, n) == IF s = "absent" THEN Absent ELSE [stage |-> s, turn |-> n]

\* The journals one update n can make of j.
Updates(j, n) ==
  {[j EXCEPT ![ks[1]] = Written(ks[2], n)] :
     ks \in {ks \in Keys \X Stages : ks[2] \in NextStages[j[ks[1]].stage]}}

Init == journal = Empty /\ applied = {} /\ acked = {}

Apply(n) ==
  /\ n \notin applied
  /\ journal' \in Updates(journal, n)
  /\ applied' = applied \cup {n}
  /\ UNCHANGED acked

Acknowledge(n) ==
  /\ n \in applied
  /\ acked' = acked \cup {n}
  /\ UNCHANGED <<journal, applied>>

Next == \E n \in Turns : Apply(n) \/ Acknowledge(n)

Spec == Init /\ [][Next]_vars
=============================================================================
