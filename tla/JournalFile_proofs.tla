------------------------ MODULE JournalFile_proofs -------------------------
(***************************************************************************)
(* Proofs about JournalFile for every number of keys, turns, crashes and   *)
(* failed file operations.  Types and turns hold for any runtimes on any   *)
(* platform.  That the files are a journal holds of two runtimes on POSIX, *)
(* of one anywhere, and of any number that neither die nor sleep.          *)
(***************************************************************************)
EXTENDS JournalFile, TLAPS

-----------------------------------------------------------------------------
(***************************************************************************)
(* Types, and the turns: each belongs to one process, which keeps it until *)
(* it is done, and is applied at most once.                                *)
(***************************************************************************)
Early   == {"idle", "mkdir", "lease", "clear_retry", "clear_fail", "takeover", "inspect"}
Before  == {"lease", "recover", "restore", "drop_backup", "scan", "scavenge", "read", "assign",
            "write", "check", "replace", "set_aside", "install"}

\* What a process relies on that was true some steps before.
ProcInv(p) ==
  /\ pc[p] \in Holding \cup {"lease", "clear_retry", "clear_fail", "verify"} => turn[p] \in 1..turns
  /\ pc[p] \in {"drop_old", "confirm"} => turn[p] \in applied
  /\ pc[p] \in Before => turn[p] \notin applied
  /\ moved[p] # NoDir => pc[p] \in {"inspect", "verify"}
  /\ pc[p] \in Early => payload[p] = NoFile
  /\ pc[p] \in {"assign", "write", "check", "replace"} => payload[p] # NoFile
  /\ pc[p] \in {"check", "replace"} => temps[turn[p]] \in {payload[p], NoFile}

TurnInv ==
  /\ applied \subseteq 1..turns
  /\ \A p \in Procs : turn[p] <= turns
  /\ \A p, q \in Procs : turn[p] # 0 /\ turn[p] = turn[q] => p = q

JournalInv == JournalTypeOK /\ TurnInv /\ \A p \in Procs : ProcInv(p)

LEMMA Constants == MaxTurns \in Nat /\ MaxCrashes \in Nat /\ MaxFaults \in Nat
  BY JournalConstants

\* An update of a journal is a journal.
LEMMA UpdatesAreFiles ==
  ASSUME NEW j \in File, NEW n \in 1..MaxTurns
  PROVE  Journal!Updates(j, n) \subseteq File
<1>1. ASSUME NEW k \in Keys, NEW s \in Journal!Stages
      PROVE  [j EXCEPT ![k] = Journal!Written(s, n)] \in File
  <2>1. Journal!Written(s, n) \in Journal!Record
    BY DEF Journal!Written, Journal!Absent, Journal!Record, Journal!Stages
  <2> QED BY <2>1 DEF File
<1>2. SUFFICES ASSUME NEW ks \in Keys \X Journal!Stages
               PROVE  [j EXCEPT ![ks[1]] = Journal!Written(ks[2], n)] \in File
  BY DEF Journal!Updates
<1> QED BY <1>1

LEMMA EmptyIsFile == Journal!Empty \in File
<1>1. Journal!Absent \in Journal!Record
  BY DEF Journal!Absent, Journal!Record, Journal!Stages
<1> QED BY <1>1 DEF Journal!Empty, File

LEMMA ReadTypes ==
  ASSUME JournalInv, NEW p \in Procs, Read(p)
  PROVE  payload' \in [Procs -> File \cup {NoFile}]
<1>1. turn[p] \in 1..MaxTurns
  <2>1. pc[p] \in Holding
    BY DEF Read, At, Holding, Steps
  <2>2. turn[p] \in 1..turns
    BY <2>1 DEF JournalInv, ProcInv
  <2>3. turns \in 0..MaxTurns
    BY DEF JournalInv, JournalTypeOK, Turn
  <2> QED BY <2>2, <2>3, Constants
<1> DEFINE base == IF primary = NoFile THEN Journal!Empty ELSE primary
<1>2. base \in File
  BY EmptyIsFile DEF JournalInv, JournalTypeOK
<1>3. Journal!Updates(base, turn[p]) \subseteq File
  BY <1>1, <1>2, UpdatesAreFiles
<1>4. payload \in [Procs -> File \cup {NoFile}]
  BY DEF JournalInv, JournalTypeOK
<1>5. UNCHANGED payload \/ \E new \in File : payload' = [payload EXCEPT ![p] = new]
  BY <1>3 DEF Read
<1> QED BY <1>4, <1>5

\* What the helpers of the actions do.
LEMMA GotoSteps ==
  ASSUME NEW p \in Procs, NEW s \in Steps, Goto(p, s), pc \in [Procs -> Steps]
  PROVE  /\ pc' \in [Procs -> Steps] /\ pc'[p] = s
         /\ \A q \in Procs \ {p} : pc'[q] = pc[q]
  BY DEF Goto

LEMMA FinishSteps ==
  ASSUME NEW p \in Procs, Finish(p), JournalTypeOK
  PROVE  /\ pc' \in [Procs -> Steps] /\ turn' \in [Procs -> Turn] /\ seen' \in [Procs -> Turn]
         /\ stopped' \in [Procs -> BOOLEAN] /\ payload' \in [Procs -> File \cup {NoFile}]
         /\ todo' \in [Procs -> SUBSET (1..MaxTurns)]
         /\ pc'[p] = "idle" /\ turn'[p] = 0 /\ payload'[p] = NoFile
         /\ \A q \in Procs \ {p} : /\ pc'[q] = pc[q] /\ turn'[q] = turn[q]
                                   /\ payload'[q] = payload[q] /\ todo'[q] = todo[q]
<1>1. "idle" \in Steps /\ 0 \in Turn
  BY Constants DEF Steps, Turn
<1> QED BY <1>1 DEF Finish, Goto, JournalTypeOK

LEMMA AbandonSteps ==
  ASSUME NEW p \in Procs, Abandon(p), JournalTypeOK
  PROVE  /\ pc' \in [Procs -> Steps] /\ temps' \in [1..MaxTurns -> File \cup {NoFile}]
         /\ pc'[p] = "release" /\ \A q \in Procs \ {p} : pc'[q] = pc[q]
         /\ \A n \in 1..MaxTurns : n # turn[p] => temps'[n] = temps[n]
         /\ turn[p] \in 1..MaxTurns => temps'[turn[p]] = NoFile
<1>1. "release" \in Steps
  BY DEF Steps
<1>2. pc' \in [Procs -> Steps] /\ pc'[p] = "release" /\ \A q \in Procs \ {p} : pc'[q] = pc[q]
  BY <1>1 DEF Abandon, Goto, JournalTypeOK
<1>3. temps \in [1..MaxTurns -> File \cup {NoFile}]
  BY DEF JournalTypeOK
<1>4. CASE turn[p] = 0
  BY <1>2, <1>3, <1>4, Constants DEF Abandon
<1>5. CASE turn[p] # 0
  BY <1>2, <1>3, <1>5 DEF Abandon
<1> QED BY <1>4, <1>5

LEMMA StepNames ==
  /\ {"idle", "mkdir", "lease", "clear_retry", "clear_fail", "takeover", "inspect"} \subseteq Steps
  /\ {"recover", "restore", "drop_backup", "scan", "scavenge", "read", "assign"} \subseteq Steps
  /\ {"write", "check", "replace", "set_aside", "install", "drop_old", "put_back"} \subseteq Steps
  /\ {"confirm", "release", "unlink", "verify"} \subseteq Steps
  BY DEF Steps

LEMMA CountTypes ==
  ASSUME JournalTypeOK, Fault \/ NoFault
  PROVE  faults' \in 0..MaxFaults
  BY Constants DEF Fault, NoFault, JournalTypeOK

LEMMA LockingTypes ==
  ASSUME JournalInv, NEW p \in Procs, Locking(p) \/ Heartbeat(p) \/ Crash(p) \/ LockAges
  PROVE  JournalTypeOK'
<1>t. JournalTypeOK
  BY DEF JournalInv
<1>d. \A d \in Dir : [d EXCEPT !.stale = TRUE] \in Dir /\ [d EXCEPT !.stale = FALSE] \in Dir
  BY DEF Dir
<1>n. \A n \in Turn : [nonce |-> n, stale |-> FALSE] \in Dir
  BY DEF Dir
<1>f. ASSUME Finish(p)
      PROVE  /\ pc' \in [Procs -> Steps] /\ turn' \in [Procs -> Turn] /\ seen' \in [Procs -> Turn]
             /\ stopped' \in [Procs -> BOOLEAN] /\ payload' \in [Procs -> File \cup {NoFile}]
             /\ todo' \in [Procs -> SUBSET (1..MaxTurns)]
  BY <1>f, <1>t, FinishSteps
<1>g. ASSUME NEW s \in Steps, Goto(p, s) PROVE pc' \in [Procs -> Steps]
  BY <1>t, <1>g, GotoSteps DEF JournalTypeOK
<1>l. lock \in Dir \cup {NoDir} /\ moved \in [Procs -> Dir \cup {NoDir}]
      /\ turn \in [Procs -> Turn] /\ seen \in [Procs -> Turn] /\ turns \in 0..MaxTurns
  BY <1>t DEF JournalTypeOK, Turn
<1> USE <1>t DEF count, files, local, hist
<1>1. CASE Start(p)
  BY <1>1, <1>g, StepNames DEF Start, JournalTypeOK
<1>2. CASE MakeLock(p)
  <2>1. pc' \in [Procs -> Steps]
    BY <1>2, <1>g, StepNames DEF MakeLock
  <2>2. lock' \in Dir
    BY <1>2, <1>n, Constants DEF MakeLock, Turn
  <2>3. turns' \in Turn /\ turn' \in [Procs -> Turn]
    BY <1>2, <1>l, Constants DEF MakeLock, Turn
  <2> QED BY <1>2, <2>1, <2>2, <2>3 DEF MakeLock, JournalTypeOK
<1>3. CASE Observe(p)
  <2>1. CASE lock.stale
    <3>1. pc' \in [Procs -> Steps]
      BY <1>3, <2>1, <1>g, StepNames DEF Observe
    <3>2. lock.nonce \in Turn
      BY <1>3, <1>l DEF Observe, Dir
    <3>3. seen' \in [Procs -> Turn]
      BY <1>3, <1>l, <2>1, <3>2 DEF Observe
    <3> QED BY <1>3, <2>1, <3>1, <3>3 DEF Observe, JournalTypeOK
  <2>2. CASE ~lock.stale
    BY <1>3, <2>2, <1>f DEF Observe, JournalTypeOK
  <2> QED BY <2>1, <2>2
<1>4. CASE WriteLease(p)
  <2>1. pc' \in [Procs -> Steps]
    BY <1>4, <1>g, StepNames DEF WriteLease
  <2>2. lock' \in Dir \cup {NoDir}
    BY <1>4, <1>n, <1>l DEF WriteLease
  <2>3. faults' \in 0..MaxFaults
    BY <1>4, CountTypes DEF WriteLease
  <2> QED BY <1>4, <2>1, <2>2, <2>3 DEF WriteLease, JournalTypeOK
<1>5. CASE ClearLock(p)
  <2>1. CASE At(p, "clear_retry")
    <3>1. pc' \in [Procs -> Steps]
      BY <1>5, <2>1, <1>g, StepNames DEF ClearLock
    <3>2. turn' \in [Procs -> Turn]
      BY <1>5, <1>l, <2>1, Constants DEF ClearLock, Turn
    <3> QED BY <1>5, <2>1, <3>1, <3>2 DEF ClearLock, JournalTypeOK
  <2>2. CASE ~At(p, "clear_retry")
    BY <1>5, <2>2, <1>f DEF ClearLock, JournalTypeOK
  <2> QED BY <2>1, <2>2
<1>6. CASE RenameAway(p)
  <2>1. pc' \in [Procs -> Steps]
    BY <1>6, <1>g, StepNames DEF RenameAway
  <2>2. moved' \in [Procs -> Dir \cup {NoDir}]
    BY <1>6, <1>l DEF RenameAway
  <2> QED BY <1>6, <2>1, <2>2 DEF RenameAway, JournalTypeOK
<1>7. CASE InspectMoved(p)
  <2>1. moved' \in [Procs -> Dir \cup {NoDir}] /\ lock' \in Dir \cup {NoDir}
    BY <1>7, <1>l DEF InspectMoved
  <2>2. CASE UNCHANGED <<turn, stopped, seen, payload, todo>> /\ Goto(p, "mkdir")
    <3>1. pc' \in [Procs -> Steps]
      BY <2>2, <1>g, StepNames
    <3> QED BY <1>7, <2>1, <2>2, <3>1 DEF InspectMoved, JournalTypeOK
  <2>3. CASE Finish(p)
    BY <1>7, <2>1, <2>3, <1>f DEF InspectMoved, JournalTypeOK
  <2> QED BY <1>7, <2>2, <2>3 DEF InspectMoved
<1>8. CASE Release(p)
  <2>1. CASE Goto(p, "unlink") /\ UNCHANGED <<turn, stopped, seen, payload, todo>>
    <3>1. pc' \in [Procs -> Steps]
      BY <2>1, <1>g, StepNames
    <3> QED BY <1>8, <2>1, <3>1 DEF Release, JournalTypeOK
  <2>2. CASE Finish(p)
    BY <1>8, <2>2, <1>f DEF Release, JournalTypeOK
  <2> QED BY <1>8, <2>1, <2>2 DEF Release
<1>9. CASE Unlink(p)
  <2>1. CASE lock = NoDir
    BY <1>9, <2>1, <1>f DEF Unlink, JournalTypeOK
  <2>2. CASE lock # NoDir
    <3>1. pc' \in [Procs -> Steps]
      BY <1>9, <2>2, <1>g, StepNames DEF Unlink
    <3>2. moved' \in [Procs -> Dir \cup {NoDir}]
      BY <1>9, <1>l, <2>2 DEF Unlink
    <3> QED BY <1>9, <2>2, <3>1, <3>2 DEF Unlink, JournalTypeOK
  <2> QED BY <2>1, <2>2
<1>10. CASE VerifyReleased(p)
  <2>1. moved' \in [Procs -> Dir \cup {NoDir}] /\ lock' \in Dir \cup {NoDir}
    BY <1>10, <1>l DEF VerifyReleased
  <2> QED BY <1>10, <2>1, <1>f DEF VerifyReleased, JournalTypeOK
<1>11. CASE Heartbeat(p)
  <2>1. lock' \in Dir \cup {NoDir} /\ stopped' \in [Procs -> BOOLEAN]
    BY <1>11, <1>d, <1>l DEF Heartbeat, Owned, JournalTypeOK
  <2> QED BY <1>11, <2>1 DEF Heartbeat, JournalTypeOK
<1>12. CASE Crash(p)
  <2>1. moved' \in [Procs -> Dir \cup {NoDir}] /\ crashes' \in 0..MaxCrashes
    BY <1>12, <1>l, Constants DEF Crash, JournalTypeOK
  <2> QED BY <1>12, <2>1, <1>f DEF Crash, JournalTypeOK
<1>13. CASE LockAges
  BY <1>13, <1>d DEF LockAges, JournalTypeOK
<1> QED
  BY <1>1, <1>2, <1>3, <1>4, <1>5, <1>6, <1>7, <1>8, <1>9, <1>10, <1>11, <1>12, <1>13 DEF Locking

LEMMA UpdatingTypes ==
  ASSUME JournalInv, NEW p \in Procs, Updating(p)
  PROVE  JournalTypeOK'
<1>t. JournalTypeOK /\ ProcInv(p)
  BY DEF JournalInv
<1>g. ASSUME NEW s \in Steps, Goto(p, s) PROVE pc' \in [Procs -> Steps]
  BY <1>t, <1>g, GotoSteps DEF JournalTypeOK
<1>a. ASSUME Abandon(p)
      PROVE  pc' \in [Procs -> Steps] /\ temps' \in [1..MaxTurns -> File \cup {NoFile}]
  BY <1>t, <1>a, AbandonSteps
<1>f. Fault \/ NoFault => faults' \in 0..MaxFaults
  BY <1>t, CountTypes
<1>n. ASSUME pc[p] \in {"replace", "install", "confirm"}
      PROVE  turn[p] \in 1..MaxTurns
  <2>1. pc[p] = "confirm" => turn[p] \in applied
    BY <1>t DEF ProcInv
  <2>2. turn[p] \in 1..turns
    BY <1>t, <1>n DEF ProcInv, Holding, Steps
  <2> QED BY <1>t, <2>2, Constants DEF JournalTypeOK, Turn
<1>i. ASSUME NEW s \in Steps, Install(p, s), turn[p] \in 1..MaxTurns
      PROVE  /\ pc' \in [Procs -> Steps] /\ temps' \in [1..MaxTurns -> File \cup {NoFile}]
             /\ primary' \in File \cup {NoFile} /\ applied' \subseteq 1..MaxTurns
             /\ applied \subseteq applied'
  BY <1>t, <1>g, <1>i DEF Install, JournalTypeOK
<1> USE <1>t DEF count, files, local, hist
<1>1. CASE Recover(p)
  BY <1>1, <1>g, <1>a, StepNames DEF Recover, JournalTypeOK
<1>2. CASE RestoreBackup(p)
  BY <1>2, <1>g, <1>a, <1>f, StepNames DEF RestoreBackup, JournalTypeOK
<1>3. CASE DropBackup(p)
  BY <1>3, <1>g, <1>a, <1>f, StepNames DEF DropBackup, JournalTypeOK
<1>4. CASE ScanTemporaries(p)
  BY <1>4, <1>g, StepNames DEF ScanTemporaries, JournalTypeOK
<1>5. CASE Scavenge(p)
  BY <1>5, <1>g, <1>a, <1>f, StepNames DEF Scavenge, JournalTypeOK
<1>6. CASE Read(p)
  BY <1>6, <1>g, <1>a, StepNames, ReadTypes DEF Read, JournalTypeOK
<1>7. CASE AssignVersions(p)
  BY <1>7, <1>g, <1>a, StepNames DEF AssignVersions, JournalTypeOK
<1>8. CASE WriteTemporary(p)
  BY <1>8, <1>g, <1>a, <1>f, StepNames DEF WriteTemporary, JournalTypeOK
<1>9. CASE CheckOwned(p)
  BY <1>9, <1>g, <1>a, StepNames DEF CheckOwned, JournalTypeOK
<1>10. CASE Replace(p)
  BY <1>10, <1>g, <1>a, <1>i, <1>n, StepNames DEF Replace, At, JournalTypeOK
<1>11. CASE SetAside(p)
  BY <1>11, <1>g, <1>f, StepNames DEF SetAside, JournalTypeOK
<1>12. CASE InstallBesideBackup(p)
  BY <1>12, <1>g, <1>i, <1>n, <1>f, StepNames DEF InstallBesideBackup, At, JournalTypeOK
<1>13. CASE DropOld(p)
  BY <1>13, <1>g, <1>f, StepNames DEF DropOld, JournalTypeOK
<1>14. CASE PutBack(p)
  BY <1>14, <1>a, <1>f DEF PutBack, JournalTypeOK
<1>15. CASE Confirm(p)
  <2>1. turn[p] \in applied
    BY <1>15 DEF Confirm, At, ProcInv
  <2> QED BY <1>15, <1>g, <2>1, StepNames DEF Confirm, JournalTypeOK
<1> QED
  BY <1>1, <1>2, <1>3, <1>4, <1>5, <1>6, <1>7, <1>8, <1>9, <1>10, <1>11, <1>12, <1>13, <1>14,
     <1>15 DEF Updating

-----------------------------------------------------------------------------
\* A step of p moves no other process, and of what they share it changes its
\* own turn's file and mark, removes temporaries or begins the next turn.
Alone(p) ==
  \A q \in Procs \ {p} : /\ pc'[q] = pc[q] /\ turn'[q] = turn[q] /\ payload'[q] = payload[q]
                         /\ moved'[q] = moved[q] /\ todo'[q] = todo[q]

TurnStep(p) ==
  \/ turns' = turns /\ turn'[p] \in {turn[p], 0}
  \/ turns' = turns + 1 /\ turn'[p] = turns + 1

Effects(p) ==
  /\ TurnStep(p)
  /\ \/ applied' = applied
     \/ pc[p] \in {"replace", "install"} /\ applied' = applied \cup {turn[p]}
  /\ \A n \in 1..MaxTurns : n # turn[p] => temps'[n] \in {temps[n], NoFile}

LEMMA GotoAlone ==
  ASSUME JournalTypeOK, NEW p \in Procs, NEW s \in Steps, Goto(p, s)
  PROVE  pc'[p] = s /\ \A q \in Procs \ {p} : pc'[q] = pc[q]
  BY GotoSteps DEF JournalTypeOK

LEMMA LockingShape ==
  ASSUME JournalTypeOK, NEW p \in Procs, Locking(p) \/ Heartbeat(p) \/ Crash(p)
  PROVE  Alone(p) /\ Effects(p)
<1>g. ASSUME NEW s \in Steps, Goto(p, s)
      PROVE  pc'[p] = s /\ \A q \in Procs \ {p} : pc'[q] = pc[q]
  BY <1>g, GotoAlone
<1>f. ASSUME Finish(p)
      PROVE  /\ turn'[p] = 0
             /\ \A q \in Procs \ {p} : /\ pc'[q] = pc[q] /\ turn'[q] = turn[q]
                                       /\ payload'[q] = payload[q] /\ todo'[q] = todo[q]
  BY <1>f, FinishSteps
<1>t. moved \in [Procs -> Dir \cup {NoDir}] /\ turn \in [Procs -> Turn]
  BY DEF JournalTypeOK
<1> USE DEF Alone, Effects, TurnStep, count, files, local, hist
<1>1. CASE Start(p)
  BY <1>1, <1>g, StepNames, <1>f, <1>t DEF Start
<1>2. CASE MakeLock(p)
  BY <1>2, <1>g, StepNames, <1>f, <1>t DEF MakeLock
<1>3. CASE Observe(p)
  BY <1>3, <1>g, StepNames, <1>f, <1>t DEF Observe
<1>4. CASE WriteLease(p)
  BY <1>4, <1>g, StepNames, <1>f, <1>t DEF WriteLease
<1>5. CASE ClearLock(p)
  BY <1>5, <1>g, StepNames, <1>f, <1>t DEF ClearLock
<1>6. CASE RenameAway(p)
  BY <1>6, <1>g, StepNames, <1>f, <1>t DEF RenameAway
<1>7. CASE InspectMoved(p)
  BY <1>7, <1>g, StepNames, <1>f, <1>t DEF InspectMoved
<1>8. CASE Release(p)
  BY <1>8, <1>g, StepNames, <1>f, <1>t DEF Release
<1>9. CASE Unlink(p)
  BY <1>9, <1>g, StepNames, <1>f, <1>t DEF Unlink
<1>10. CASE VerifyReleased(p)
  BY <1>10, <1>g, StepNames, <1>f, <1>t DEF VerifyReleased
<1>11. CASE Heartbeat(p)
  BY <1>11, <1>g, StepNames, <1>f, <1>t DEF Heartbeat
<1>12. CASE Crash(p)
  BY <1>12, <1>g, StepNames, <1>f, <1>t DEF Crash
<1> QED
  BY <1>1, <1>2, <1>3, <1>4, <1>5, <1>6, <1>7, <1>8, <1>9, <1>10, <1>11, <1>12 DEF Locking

LEMMA UpdatingShape ==
  ASSUME JournalTypeOK, NEW p \in Procs, Updating(p)
  PROVE  Alone(p) /\ Effects(p) /\ turn' = turn
<1>g. ASSUME NEW s \in Steps, Goto(p, s)
      PROVE  pc'[p] = s /\ \A q \in Procs \ {p} : pc'[q] = pc[q]
  BY <1>g, GotoAlone
<1>a. ASSUME Abandon(p)
      PROVE  /\ \A q \in Procs \ {p} : pc'[q] = pc[q]
             /\ \A n \in 1..MaxTurns : n # turn[p] => temps'[n] = temps[n]
  <2> HIDE DEF Abandon
  <2>1. \A q \in Procs \ {p} : pc'[q] = pc[q]
    BY <1>a, AbandonSteps
  <2>2. ASSUME NEW n \in 1..MaxTurns, n # turn[p] PROVE temps'[n] = temps[n]
    BY <1>a, <2>2, AbandonSteps
  <2> QED BY <2>1, <2>2
<1>t. /\ temps \in [1..MaxTurns -> File \cup {NoFile}] /\ todo \in [Procs -> SUBSET (1..MaxTurns)]
      /\ payload \in [Procs -> File \cup {NoFile}]
  BY DEF JournalTypeOK
<1> USE DEF Alone, Effects, TurnStep, count, files, local, hist
<1>1. CASE Recover(p)
  BY <1>1, <1>g, StepNames, <1>a, <1>t DEF Recover
<1>2. CASE RestoreBackup(p)
  BY <1>2, <1>g, StepNames, <1>a, <1>t DEF RestoreBackup
<1>3. CASE DropBackup(p)
  BY <1>3, <1>g, StepNames, <1>a, <1>t DEF DropBackup
<1>4. CASE ScanTemporaries(p)
  BY <1>4, <1>g, StepNames, <1>a, <1>t DEF ScanTemporaries
<1>5. CASE Scavenge(p)
  BY <1>5, <1>g, StepNames, <1>a, <1>t DEF Scavenge
<1>6. CASE Read(p)
  BY <1>6, <1>g, StepNames, <1>a, <1>t DEF Read
<1>7. CASE AssignVersions(p)
  BY <1>7, <1>g, StepNames, <1>a, <1>t DEF AssignVersions
<1>8. CASE WriteTemporary(p)
  BY <1>8, <1>g, StepNames, <1>a, <1>t DEF WriteTemporary
<1>9. CASE CheckOwned(p)
  BY <1>9, <1>g, StepNames, <1>a, <1>t DEF CheckOwned
<1>10. CASE Replace(p)
  BY <1>10, <1>g, StepNames, <1>a, <1>t DEF Replace, Install, At
<1>11. CASE SetAside(p)
  BY <1>11, <1>g, StepNames, <1>a, <1>t DEF SetAside
<1>12. CASE InstallBesideBackup(p)
  BY <1>12, <1>g, StepNames, <1>a, <1>t DEF InstallBesideBackup, Install, At
<1>13. CASE DropOld(p)
  BY <1>13, <1>g, StepNames, <1>a, <1>t DEF DropOld
<1>14. CASE PutBack(p)
  BY <1>14, <1>g, StepNames, <1>a, <1>t DEF PutBack
<1>15. CASE Confirm(p)
  BY <1>15, <1>g, StepNames, <1>a, <1>t DEF Confirm
<1> QED
  BY <1>1, <1>2, <1>3, <1>4, <1>5, <1>6, <1>7, <1>8, <1>9, <1>10, <1>11, <1>12, <1>13, <1>14, <1>15 DEF Updating

\* So what another process relies on stands.
LEMMA OthersStand ==
  ASSUME JournalInv, NEW p \in Procs, Alone(p), Effects(p)
  PROVE  TurnInv' /\ \A q \in Procs \ {p} : ProcInv(q)'
<1>t. turns \in Nat /\ turn \in [Procs -> Nat] /\ temps \in [1..MaxTurns -> File \cup {NoFile}] /\ turns <= MaxTurns
  BY Constants DEF JournalInv, JournalTypeOK, Turn
<1>i. TurnInv /\ \A q \in Procs : ProcInv(q)
  BY DEF JournalInv
<1>1. turns' \in Nat /\ turns <= turns'
  BY <1>t DEF Effects, TurnStep
<1>2. \A q \in Procs \ {p} : pc[q] \in Before => turn[q] # turn[p]
  BY <1>i, <1>t DEF TurnInv, ProcInv, Before, Holding, Steps
<1>3. applied' \subseteq 1..turns'
  <2>1. pc[p] \in {"replace", "install"} => turn[p] \in 1..turns
    BY <1>i DEF ProcInv, Holding, Steps
  <2>2. ASSUME NEW n \in applied' PROVE n \in 1..turns
    BY <1>i, <2>1, <2>2 DEF Effects, TurnInv
  <2>3. ASSUME NEW n \in 1..turns PROVE n \in 1..turns'
    BY <1>1, <1>t
  <2> QED BY <2>2, <2>3
<1>4. TurnInv'
  <2>1. \A q \in Procs : turn'[q] <= turns'
    BY <1>1, <1>t, <1>i DEF Alone, Effects, TurnStep, TurnInv
  <2>2. ASSUME NEW q \in Procs, NEW r \in Procs, turn'[q] # 0, turn'[q] = turn'[r], q # r PROVE FALSE
    BY <1>t, <1>i, <2>2 DEF Alone, Effects, TurnStep, TurnInv
  <2> QED BY <1>3, <2>1, <2>2 DEF TurnInv
<1>5. ASSUME NEW q \in Procs \ {p} PROVE ProcInv(q)'
  <2>s. /\ pc'[q] = pc[q] /\ turn'[q] = turn[q] /\ payload'[q] = payload[q] /\ moved'[q] = moved[q]
    BY DEF Alone
  <2>1. pc[q] \in Holding \cup {"lease", "clear_retry", "clear_fail", "verify"} => turn[q] \in 1..turns'
    BY <1>1, <1>i, <1>t DEF ProcInv
  <2>2. pc[q] \in {"drop_old", "confirm"} => turn[q] \in applied'
    BY <1>i DEF ProcInv, Effects
  <2>3. pc[q] \in Before => turn[q] \notin applied'
    BY <1>i, <1>2 DEF ProcInv, Effects
  <2>4. pc[q] \in {"check", "replace"} => temps'[turn[q]] \in {payload[q], NoFile}
    <3>1. pc[q] \in {"check", "replace"} => turn[q] # turn[p] /\ turn[q] \in 1..turns
      BY <1>2, <1>i DEF Before, ProcInv, Holding, Steps
    <3>2. pc[q] \in {"check", "replace"} => turn[q] \in 1..MaxTurns
      BY <3>1, <1>t, Constants
    <3> QED BY <3>1, <3>2, <1>i DEF Effects, ProcInv
  <2> QED BY <2>s, <2>1, <2>2, <2>3, <2>4, <1>i DEF ProcInv
<1> QED BY <1>4, <1>5

\* What p relies on next: it has gone from one step to another and kept its turn
\* and its plan, or has begun a turn, or has forgotten everything.
LEMMA LockingOwn ==
  ASSUME JournalInv, NEW p \in Procs, Locking(p) \/ Heartbeat(p) \/ Crash(p)
  PROVE  ProcInv(p)'
<1>t. /\ moved \in [Procs -> Dir \cup {NoDir}] /\ turn \in [Procs -> Nat] /\ turns \in Nat
      /\ applied \subseteq 1..turns /\ ProcInv(p) /\ JournalTypeOK
  BY Constants DEF JournalInv, JournalTypeOK, Turn, TurnInv
<1>g. ASSUME NEW s \in Steps, Goto(p, s)
      PROVE  pc'[p] = s
  BY <1>g, <1>t, GotoAlone
<1>f. ASSUME Finish(p)
      PROVE  pc'[p] = "idle" /\ turn'[p] = 0 /\ payload'[p] = NoFile
  BY <1>f, <1>t, FinishSteps
<1>e. ASSUME pc'[p] = "idle", payload'[p] = NoFile, moved'[p] = NoDir
      PROVE  ProcInv(p)'
  BY <1>e DEF ProcInv, Early, Before, Holding, Steps
<1> USE DEF count, files, local, hist, At
<1>1. CASE Start(p)
  BY <1>1, <1>g, <1>f, <1>t, <1>e, StepNames DEF Start, ProcInv, Early, Before, Holding, Steps
<1>2. CASE MakeLock(p)
  BY <1>2, <1>g, <1>f, <1>t, <1>e, StepNames DEF MakeLock, ProcInv, Early, Before, Holding, Steps
<1>3. CASE Observe(p)
  BY <1>3, <1>g, <1>f, <1>t, <1>e, StepNames DEF Observe, ProcInv, Early, Before, Holding, Steps
<1>4. CASE WriteLease(p)
  BY <1>4, <1>g, <1>f, <1>t, <1>e, StepNames DEF WriteLease, ProcInv, Early, Before, Holding, Steps
<1>5. CASE ClearLock(p)
  BY <1>5, <1>g, <1>f, <1>t, <1>e, StepNames DEF ClearLock, ProcInv, Early, Before, Holding, Steps
<1>6. CASE RenameAway(p)
  BY <1>6, <1>g, <1>f, <1>t, <1>e, StepNames DEF RenameAway, ProcInv, Early, Before, Holding, Steps
<1>7. CASE InspectMoved(p)
  BY <1>7, <1>g, <1>f, <1>t, <1>e, StepNames DEF InspectMoved, ProcInv, Early, Before, Holding, Steps
<1>8. CASE Release(p)
  BY <1>8, <1>g, <1>f, <1>t, <1>e, StepNames DEF Release, ProcInv, Early, Before, Holding, Steps
<1>9. CASE Unlink(p)
  BY <1>9, <1>g, <1>f, <1>t, <1>e, StepNames DEF Unlink, ProcInv, Early, Before, Holding, Steps
<1>10. CASE VerifyReleased(p)
  BY <1>10, <1>g, <1>f, <1>t, <1>e, StepNames DEF VerifyReleased, ProcInv, Early, Before, Holding, Steps
<1>11. CASE Heartbeat(p)
  BY <1>11, <1>g, <1>f, <1>t, <1>e, StepNames DEF Heartbeat, ProcInv, Early, Before, Holding, Steps
<1>12. CASE Crash(p)
  BY <1>12, <1>g, <1>f, <1>t, <1>e, StepNames DEF Crash, ProcInv, Early, Before, Holding, Steps
<1> QED
  BY <1>1, <1>2, <1>3, <1>4, <1>5, <1>6, <1>7, <1>8, <1>9, <1>10, <1>11, <1>12 DEF Locking

LEMMA UpdatingOwn ==
  ASSUME JournalInv, NEW p \in Procs, Updating(p)
  PROVE  ProcInv(p)'
<1>t. /\ turn \in [Procs -> Nat] /\ turns \in Nat /\ payload \in [Procs -> File \cup {NoFile}]
      /\ temps \in [1..MaxTurns -> File \cup {NoFile}]
      /\ applied \subseteq 1..turns /\ ProcInv(p) /\ JournalTypeOK
  BY Constants DEF JournalInv, JournalTypeOK, Turn, TurnInv
<1>g. ASSUME NEW s \in Steps, Goto(p, s)
      PROVE  pc'[p] = s
  BY <1>g, <1>t, GotoAlone
<1>a. ASSUME Abandon(p)
      PROVE  pc'[p] = "release"
  BY <1>a, <1>t, AbandonSteps
<1> USE DEF count, files, local, hist, At
<1>1. CASE Recover(p)
  BY <1>1, <1>g, <1>a, <1>t, StepNames DEF Recover, ProcInv, Early, Before, Holding, Steps
<1>2. CASE RestoreBackup(p)
  BY <1>2, <1>g, <1>a, <1>t, StepNames DEF RestoreBackup, ProcInv, Early, Before, Holding, Steps
<1>3. CASE DropBackup(p)
  BY <1>3, <1>g, <1>a, <1>t, StepNames DEF DropBackup, ProcInv, Early, Before, Holding, Steps
<1>4. CASE ScanTemporaries(p)
  BY <1>4, <1>g, <1>a, <1>t, StepNames DEF ScanTemporaries, ProcInv, Early, Before, Holding, Steps
<1>5. CASE Scavenge(p)
  BY <1>5, <1>g, <1>a, <1>t, StepNames DEF Scavenge, ProcInv, Early, Before, Holding, Steps
<1>6. CASE Read(p)
  BY <1>6, <1>g, <1>a, <1>t, StepNames DEF Read, ProcInv, Early, Before, Holding, Steps
<1>7. CASE AssignVersions(p)
  BY <1>7, <1>g, <1>a, <1>t, StepNames DEF AssignVersions, ProcInv, Early, Before, Holding, Steps
<1>8. CASE WriteTemporary(p)
  <2>1. turn[p] \in 1..turns /\ turns <= MaxTurns
    BY <1>8, <1>t, Constants DEF WriteTemporary, ProcInv, Holding, Steps, JournalTypeOK, Turn
  <2>2. turn[p] \in 1..MaxTurns
    BY <2>1, <1>t, Constants
  <2> QED BY <1>8, <2>2, <1>g, <1>a, <1>t, StepNames DEF WriteTemporary, ProcInv, Early, Before, Holding, Steps
<1>9. CASE CheckOwned(p)
  BY <1>9, <1>g, <1>a, <1>t, StepNames DEF CheckOwned, ProcInv, Early, Before, Holding, Steps
<1>10. CASE Replace(p)
  BY <1>10, <1>g, <1>a, <1>t, StepNames DEF Replace, Install, ProcInv, Early, Before, Holding, Steps
<1>11. CASE SetAside(p)
  BY <1>11, <1>g, <1>a, <1>t, StepNames DEF SetAside, ProcInv, Early, Before, Holding, Steps
<1>12. CASE InstallBesideBackup(p)
  BY <1>12, <1>g, <1>a, <1>t, StepNames DEF InstallBesideBackup, Install, ProcInv, Early, Before, Holding, Steps
<1>13. CASE DropOld(p)
  BY <1>13, <1>g, <1>a, <1>t, StepNames DEF DropOld, ProcInv, Early, Before, Holding, Steps
<1>14. CASE PutBack(p)
  BY <1>14, <1>g, <1>a, <1>t, StepNames DEF PutBack, ProcInv, Early, Before, Holding, Steps
<1>15. CASE Confirm(p)
  BY <1>15, <1>g, <1>a, <1>t, StepNames DEF Confirm, ProcInv, Early, Before, Holding, Steps
<1> QED
  BY <1>1, <1>2, <1>3, <1>4, <1>5, <1>6, <1>7, <1>8, <1>9, <1>10, <1>11, <1>12, <1>13, <1>14, <1>15 DEF Updating

LEMMA JournalInit == Init => JournalInv
<1> SUFFICES ASSUME Init PROVE JournalInv
  OBVIOUS
<1>1. JournalTypeOK
  BY Constants, StepNames DEF Init, JournalTypeOK, Turn
<1>2. TurnInv
  BY DEF Init, TurnInv
<1>3. ASSUME NEW p \in Procs PROVE ProcInv(p)
  BY DEF Init, ProcInv, Early, Before, Holding, Steps
<1> QED BY <1>1, <1>2, <1>3 DEF JournalInv

LEMMA JournalStep == JournalInv /\ [Next]_vars => JournalInv'
<1> SUFFICES ASSUME JournalInv, [Next]_vars PROVE JournalInv'
  OBVIOUS
<1>1. CASE UNCHANGED vars
  BY <1>1 DEF vars, files, local, count, hist, JournalInv, JournalTypeOK, TurnInv, ProcInv
<1>2. ASSUME NEW p \in Procs, Locking(p) \/ Heartbeat(p) \/ Crash(p)
      PROVE  JournalInv'
  <2>1. JournalTypeOK /\ JournalTypeOK'
    BY <1>2, LockingTypes DEF JournalInv
  <2>2. TurnInv' /\ \A q \in Procs \ {p} : ProcInv(q)'
    BY <1>2, <2>1, LockingShape, OthersStand
  <2>3. ProcInv(p)'
    BY <1>2, LockingOwn
  <2> QED BY <2>1, <2>2, <2>3 DEF JournalInv
<1>3. ASSUME NEW p \in Procs, Updating(p)
      PROVE  JournalInv'
  <2>1. JournalTypeOK /\ JournalTypeOK'
    BY <1>3, UpdatingTypes DEF JournalInv
  <2>2. TurnInv' /\ \A q \in Procs \ {p} : ProcInv(q)'
    BY <1>3, <2>1, UpdatingShape, OthersStand
  <2>3. ProcInv(p)'
    BY <1>3, UpdatingOwn
  <2> QED BY <2>1, <2>2, <2>3 DEF JournalInv
<1>4. CASE LockAges
  <2>1. JournalTypeOK'
    <3>1. JournalTypeOK /\ \A d \in Dir : [d EXCEPT !.stale = TRUE] \in Dir
      BY DEF JournalInv, Dir
    <3> QED BY <1>4, <3>1 DEF LockAges, JournalTypeOK, files, local, count, hist
  <2>2. UNCHANGED <<pc, turn, moved, payload, temps, turns, applied>>
    BY <1>4 DEF LockAges, files, local, count, hist
  <2> QED BY <2>1, <2>2 DEF JournalInv, TurnInv, ProcInv
<1> QED BY <1>1, <1>2, <1>3, <1>4 DEF Next

LEMMA JournalKept == JournalFileSpec => []JournalInv
  BY JournalInit, JournalStep, PTL DEF JournalFileSpec

(* The runtimes' file system, lock directory and bookkeeping have their     *)
(* types, and no caller is told of an update that has not taken effect.     *)
THEOREM JournalTyped == JournalFileSpec => []JournalTypeOK
  BY JournalKept, PTL DEF JournalInv

(* An update is installed at most once, by the turn that made it and before *)
(* anybody is told so: every other write of the journal moves the backup.   *)
(* It holds for any number of runtimes on any platform, however they sleep. *)
InstallsOnce ==
  \/ applied' = applied /\ primary' \in {primary, backup, NoFile}
  \/ \E n \in (1..MaxTurns) \ applied : applied' = applied \cup {n} /\ primary' = temps[n]

THEOREM InstalledOnce == JournalFileSpec => [][InstallsOnce]_vars
<1>1. ASSUME JournalInv, [Next]_vars PROVE [InstallsOnce]_vars
  <2>1. ASSUME NEW p \in Procs, NEW s, Install(p, s), pc[p] \in {"replace", "install"}
        PROVE  InstallsOnce
    <3>1. turn[p] \in 1..turns /\ turn[p] \notin applied /\ turns \in 0..MaxTurns
      BY <1>1, <2>1 DEF JournalInv, ProcInv, Before, Holding, Steps, JournalTypeOK, Turn
    <3>2. turn[p] \in (1..MaxTurns) \ applied
      BY <3>1, Constants
    <3> QED BY <2>1, <3>2 DEF Install, InstallsOnce
  <2>2. ASSUME NEW p \in Procs, Locking(p) \/ Heartbeat(p) \/ Crash(p) \/ LockAges
        PROVE  UNCHANGED <<applied, primary>>
    BY <2>2 DEF Locking, Start, MakeLock, Observe, WriteLease, ClearLock, RenameAway, InspectMoved,
                Release, Unlink, VerifyReleased, Heartbeat, Crash, LockAges, files, hist
  <2>3. ASSUME NEW p \in Procs, Updating(p)
        PROVE  InstallsOnce
    <3>1. CASE Replace(p) \/ InstallBesideBackup(p)
      BY <2>1, <3>1 DEF Replace, InstallBesideBackup, At, InstallsOnce, hist
    <3>2. CASE RestoreBackup(p) \/ SetAside(p) \/ PutBack(p)
      BY <3>2 DEF RestoreBackup, SetAside, PutBack, InstallsOnce, hist
    <3>3. CASE ~(Replace(p) \/ InstallBesideBackup(p) \/ RestoreBackup(p) \/ SetAside(p) \/ PutBack(p))
      BY <2>3, <3>3 DEF Updating, Recover, DropBackup, ScanTemporaries, Scavenge, Read, AssignVersions,
                        WriteTemporary, CheckOwned, DropOld, Confirm, InstallsOnce, files, hist
    <3> QED BY <3>1, <3>2, <3>3
  <2>4. LockAges => UNCHANGED <<applied, primary>>
    BY DEF LockAges, files, hist
  <2> QED BY <1>1, <2>2, <2>3, <2>4 DEF Next, InstallsOnce
<1> QED BY <1>1, JournalKept, PTL DEF JournalFileSpec

-----------------------------------------------------------------------------
(***************************************************************************)
(* Two runtimes on POSIX, which may sleep for as long as they like.  What  *)
(* keeps them apart is not the lock alone, since the sleeper believes to   *)
(* own it: whoever takes over removes the temporary file of the other      *)
(* before it reads, and without it the other's rename fails.               *)
(***************************************************************************)
TwoRuntimes == \A p, q, r \in Procs : p = q \/ q = r \/ p = r

\* On POSIX a rename replaces the file that is there: no backup is made.
Apart == {"restore", "drop_backup", "set_aside", "install", "drop_old", "put_back"}

PosixInv ==
  /\ platform = "posix" /\ backup = NoFile
  /\ \A p \in Procs : pc[p] \notin Apart

\* The lease of turn n is there, be it in a directory that was renamed away.
OnDisk(n) ==
  \/ lock # NoDir /\ lock.nonce = n
  \/ \E q \in Procs : moved[q] # NoDir /\ moved[q].nonce = n

Token(p) == pc[p] \in Holding /\ OnDisk(turn[p])

\* p will replace the journal, unless its temporary file is removed before.
Armed(p) == pc[p] = "replace" /\ temps[turn[p]] # NoFile

\* p has removed the temporaries of others before it reads, or read.
Planned    == {"recover", "scan", "scavenge", "assign", "write", "check"}
HasPlan(p) == pc[p] \in Planned \cup {"replace"} /\ payload[p] # NoFile
Cleared(p) == pc[p] = "read" \/ HasPlan(p)

OrderInv ==
  \A p, q \in Procs : p # q =>
    /\ ~(Token(p) /\ Cleared(p) /\ Armed(q))
    /\ Token(p) /\ pc[p] = "scavenge" /\ Armed(q) => turn[q] \in todo[p]
    /\ ~(Armed(p) /\ Armed(q))

\* What is written continues what is there.
PlanInv ==
  \A p \in Procs :
    /\ Token(p) /\ pc[p] \in Planned /\ payload[p] # NoFile =>
         payload[p] \in Journal!Updates(Content, turn[p])
    /\ Armed(p) => temps[turn[p]] \in Journal!Updates(Content, turn[p])

FileInv == JournalInv /\ PosixInv /\ OrderInv /\ PlanInv

\* With a third runtime a lock could be renamed away from p and held by q.
LEMMA Exclusive ==
  ASSUME TwoRuntimes, JournalInv, NEW p \in Procs, NEW q \in Procs, Token(p), Token(q)
  PROVE  p = q
<1> SUFFICES ASSUME p # q PROVE FALSE
  OBVIOUS
<1>1. ASSUME NEW r \in Procs PROVE moved[r] = NoDir
  <2>1. pc[r] \in Holding
    BY DEF TwoRuntimes, Token
  <2>2. pc[r] \notin {"inspect", "verify"}
    BY <2>1 DEF Holding, Steps
  <2> QED BY <2>2 DEF JournalInv, ProcInv
<1>2. turn[p] = turn[q]
  BY <1>1 DEF Token, OnDisk
<1>3. turn[p] \in 1..turns /\ turns \in Nat
  BY Constants DEF JournalInv, ProcInv, Token, JournalTypeOK, Turn
<1>4. turn[p] # 0
  BY <1>3
<1> QED BY <1>2, <1>4 DEF JournalInv, TurnInv

LEMMA OwnerHasToken ==
  ASSUME NEW p \in Procs, Owned(p), pc[p] \in Holding
  PROVE  Token(p)
  BY DEF Owned, Token, OnDisk

\* What the steps of the lock do to the process that takes them.
GetsLease(p) ==
  /\ WriteLease(p) /\ pc'[p] = "recover" /\ payload'[p] = NoFile /\ turn'[p] = turn[p]
  /\ lock' # NoDir /\ lock'.nonce = turn[p]

LEMMA LockingHolds ==
  ASSUME JournalInv, NEW p \in Procs, Locking(p) \/ Heartbeat(p) \/ Crash(p)
  PROVE  /\ UNCHANGED <<platform, primary, backup, temps, applied, acked>>
         /\ \/ pc'[p] \notin Holding
            \/ GetsLease(p)
            \/ /\ pc[p] \in Holding /\ pc'[p] \in {pc[p], "unlink"} /\ turn'[p] = turn[p]
               /\ payload'[p] = payload[p] /\ todo'[p] = todo[p]
<1>t. ProcInv(p) /\ JournalTypeOK
  BY DEF JournalInv
<1>g. ASSUME NEW s \in Steps, Goto(p, s)
      PROVE  pc'[p] = s
  BY <1>g, <1>t, GotoAlone
<1>f. ASSUME Finish(p)
      PROVE  pc'[p] = "idle"
  BY <1>f, <1>t, FinishSteps
<1>l. \A d \in Turn : [nonce |-> d, stale |-> FALSE] # NoDir
  <2>1. \A d \in Turn : [nonce |-> d, stale |-> FALSE] \in Dir
    BY DEF Dir
  <2> QED BY <2>1, Missing
<1>n. turn[p] \in Turn
  BY <1>t DEF JournalTypeOK
<1> USE DEF count, files, local, hist, At
<1>1. CASE Start(p)
  BY <1>1, <1>g, <1>f, <1>t, StepNames DEF Start, Holding, Steps
<1>2. CASE MakeLock(p)
  BY <1>2, <1>g, <1>f, <1>t, StepNames DEF MakeLock, Holding, Steps
<1>3. CASE Observe(p)
  BY <1>3, <1>g, <1>f, <1>t, StepNames DEF Observe, Holding, Steps
<1>4. CASE WriteLease(p)
  BY <1>4, <1>g, <1>f, <1>t, <1>l, <1>n, StepNames DEF WriteLease, GetsLease, ProcInv, Early, Holding, Steps
<1>5. CASE ClearLock(p)
  BY <1>5, <1>g, <1>f, <1>t, StepNames DEF ClearLock, Holding, Steps
<1>6. CASE RenameAway(p)
  BY <1>6, <1>g, <1>f, <1>t, StepNames DEF RenameAway, Holding, Steps
<1>7. CASE InspectMoved(p)
  BY <1>7, <1>g, <1>f, <1>t, StepNames DEF InspectMoved, Holding, Steps
<1>8. CASE Release(p)
  BY <1>8, <1>g, <1>f, <1>t, StepNames DEF Release, Holding, Steps
<1>9. CASE Unlink(p)
  BY <1>9, <1>g, <1>f, <1>t, StepNames DEF Unlink, Holding, Steps
<1>10. CASE VerifyReleased(p)
  BY <1>10, <1>g, <1>f, <1>t, StepNames DEF VerifyReleased, Holding, Steps
<1>11. CASE Heartbeat(p)
  BY <1>11, <1>g, <1>f, <1>t, StepNames DEF Heartbeat, Holding, Steps
<1>12. CASE Crash(p)
  BY <1>12, <1>g, <1>f, <1>t, StepNames DEF Crash, Holding, Steps
<1> QED
  BY <1>1, <1>2, <1>3, <1>4, <1>5, <1>6, <1>7, <1>8, <1>9, <1>10, <1>11, <1>12 DEF Locking

LEMMA LockingOnPosix ==
  ASSUME JournalInv, PosixInv, NEW p \in Procs, Locking(p) \/ Heartbeat(p) \/ Crash(p)
  PROVE  /\ UNCHANGED <<platform, primary, backup, temps, applied, acked>>
         /\ pc'[p] \notin Apart
         /\ \/ pc'[p] \notin Holding
            \/ GetsLease(p)
            \/ /\ pc[p] \in Holding /\ pc'[p] \in {pc[p], "unlink"} /\ turn'[p] = turn[p]
               /\ payload'[p] = payload[p] /\ todo'[p] = todo[p]
  BY LockingHolds DEF PosixInv, GetsLease, Apart, Holding, Steps

LEMMA LeasesOnDisk ==
  ASSUME JournalInv, NEW p \in Procs, Locking(p) \/ Heartbeat(p) \/ Crash(p),
         NEW n \in Nat \ {0}, OnDisk(n)'
  PROVE  OnDisk(n) \/ (WriteLease(p) /\ n = turn[p])
<1>t. moved \in [Procs -> Dir \cup {NoDir}] /\ lock \in Dir \cup {NoDir}
  BY DEF JournalInv, JournalTypeOK
<1>d. \A d \in Dir : [d EXCEPT !.stale = FALSE].nonce = d.nonce
  BY DEF Dir
<1> USE DEF OnDisk
<1>1. CASE Start(p)
  BY <1>1, <1>t, <1>d DEF Start
<1>2. CASE MakeLock(p)
  BY <1>2, <1>t, <1>d DEF MakeLock
<1>3. CASE Observe(p)
  BY <1>3, <1>t, <1>d DEF Observe
<1>4. CASE WriteLease(p)
  BY <1>4, <1>t, <1>d DEF WriteLease
<1>5. CASE ClearLock(p)
  BY <1>5, <1>t, <1>d DEF ClearLock
<1>6. CASE RenameAway(p)
  BY <1>6, <1>t, <1>d DEF RenameAway
<1>7. CASE InspectMoved(p)
  BY <1>7, <1>t, <1>d DEF InspectMoved
<1>8. CASE Release(p)
  BY <1>8, <1>t, <1>d DEF Release
<1>9. CASE Unlink(p)
  BY <1>9, <1>t, <1>d DEF Unlink
<1>10. CASE VerifyReleased(p)
  BY <1>10, <1>t, <1>d DEF VerifyReleased
<1>11. CASE Heartbeat(p)
  BY <1>11, <1>t, <1>d DEF Heartbeat, Owned
<1>12. CASE Crash(p)
  BY <1>12, <1>t, <1>d DEF Crash
<1> QED
  BY <1>1, <1>2, <1>3, <1>4, <1>5, <1>6, <1>7, <1>8, <1>9, <1>10, <1>11, <1>12 DEF Locking

LEMMA UpdatingHolds ==
  ASSUME JournalInv, NEW p \in Procs, Updating(p)
  PROVE  pc[p] \in Holding /\ pc'[p] \in Holding /\ UNCHANGED <<platform, lock, moved>>
<1>t. JournalTypeOK
  BY DEF JournalInv
<1>g. ASSUME NEW s \in Steps, Goto(p, s)
      PROVE  pc'[p] = s
  BY <1>g, <1>t, GotoAlone
<1>a. ASSUME Abandon(p)
      PROVE  pc'[p] = "release"
  BY <1>a, <1>t, AbandonSteps
<1> USE DEF At, Holding, Steps
<1>1. CASE Recover(p)
  BY <1>1, <1>g, <1>a, StepNames DEF Recover
<1>2. CASE RestoreBackup(p)
  BY <1>2, <1>g, <1>a, StepNames DEF RestoreBackup
<1>3. CASE DropBackup(p)
  BY <1>3, <1>g, <1>a, StepNames DEF DropBackup
<1>4. CASE ScanTemporaries(p)
  BY <1>4, <1>g, <1>a, StepNames DEF ScanTemporaries
<1>5. CASE Scavenge(p)
  BY <1>5, <1>g, <1>a, StepNames DEF Scavenge
<1>6. CASE Read(p)
  BY <1>6, <1>g, <1>a, StepNames DEF Read
<1>7. CASE AssignVersions(p)
  BY <1>7, <1>g, <1>a, StepNames DEF AssignVersions
<1>8. CASE WriteTemporary(p)
  BY <1>8, <1>g, <1>a, StepNames DEF WriteTemporary
<1>9. CASE CheckOwned(p)
  BY <1>9, <1>g, <1>a, StepNames DEF CheckOwned
<1>10. CASE Replace(p)
  BY <1>10, <1>g, <1>a, StepNames DEF Replace, Install
<1>11. CASE SetAside(p)
  BY <1>11, <1>g, <1>a, StepNames DEF SetAside
<1>12. CASE InstallBesideBackup(p)
  BY <1>12, <1>g, <1>a, StepNames DEF InstallBesideBackup, Install
<1>13. CASE DropOld(p)
  BY <1>13, <1>g, <1>a, StepNames DEF DropOld
<1>14. CASE PutBack(p)
  BY <1>14, <1>g, <1>a, StepNames DEF PutBack
<1>15. CASE Confirm(p)
  BY <1>15, <1>g, <1>a, StepNames DEF Confirm
<1> QED
  BY <1>1, <1>2, <1>3, <1>4, <1>5, <1>6, <1>7, <1>8, <1>9, <1>10, <1>11, <1>12, <1>13, <1>14, <1>15 DEF Updating

\* What the steps of an update do.
Base == IF primary = NoFile THEN Journal!Empty ELSE primary

Replaces(p) ==
  /\ Armed(p) /\ pc'[p] = "confirm"
  /\ primary' = temps[turn[p]] /\ applied' = applied \cup {turn[p]} /\ acked' = acked

Confirms(p) ==
  /\ pc[p] = "confirm"
  /\ primary' = primary /\ applied' = applied /\ acked' = acked \cup {turn[p]}

LEMMA UpdatingOnPosix ==
  ASSUME JournalInv, PosixInv, NEW p \in Procs, Updating(p)
  PROVE  /\ pc[p] \in Holding /\ pc'[p] \notin Apart
         /\ UNCHANGED <<platform, backup, lock, moved>>
         /\ pc'[p] = "replace" => pc[p] = "check" /\ Owned(p) /\ temps' = temps /\ primary' = primary
         /\ \/ UNCHANGED <<primary, applied, acked>>
            \/ Replaces(p)
            \/ Confirms(p)
<1>t. ProcInv(p) /\ JournalTypeOK /\ pc[p] \notin Apart /\ platform = "posix" /\ backup = NoFile
  BY DEF JournalInv, PosixInv
<1>g. ASSUME NEW s \in Steps, Goto(p, s)
      PROVE  pc'[p] = s
  BY <1>g, <1>t, GotoAlone
<1>a. ASSUME Abandon(p)
      PROVE  pc'[p] = "release"
  BY <1>a, <1>t, AbandonSteps
<1> USE DEF count, files, local, hist, At
<1>1. CASE Recover(p)
  BY <1>1, <1>g, <1>a, <1>t, StepNames DEF Recover, Apart, Holding, Steps
<1>2. CASE RestoreBackup(p)
  BY <1>2, <1>g, <1>a, <1>t, StepNames DEF RestoreBackup, Apart, Holding, Steps
<1>3. CASE DropBackup(p)
  BY <1>3, <1>g, <1>a, <1>t, StepNames DEF DropBackup, Apart, Holding, Steps
<1>4. CASE ScanTemporaries(p)
  BY <1>4, <1>g, <1>a, <1>t, StepNames DEF ScanTemporaries, Apart, Holding, Steps
<1>5. CASE Scavenge(p)
  BY <1>5, <1>g, <1>a, <1>t, StepNames DEF Scavenge, Apart, Holding, Steps
<1>6. CASE Read(p)
  BY <1>6, <1>g, <1>a, <1>t, StepNames DEF Read, Apart, Holding, Steps
<1>7. CASE AssignVersions(p)
  BY <1>7, <1>g, <1>a, <1>t, StepNames DEF AssignVersions, Apart, Holding, Steps
<1>8. CASE WriteTemporary(p)
  BY <1>8, <1>g, <1>a, <1>t, StepNames DEF WriteTemporary, Apart, Holding, Steps
<1>9. CASE CheckOwned(p)
  BY <1>9, <1>g, <1>a, <1>t, StepNames DEF CheckOwned, Apart, Holding, Steps
<1>10. CASE Replace(p)
  BY <1>10, <1>g, <1>a, <1>t, StepNames DEF Replace, Install, Replaces, Armed, Apart, Holding, Steps
<1>11. CASE SetAside(p)
  BY <1>11, <1>g, <1>a, <1>t, StepNames DEF SetAside, Apart, Holding, Steps
<1>12. CASE InstallBesideBackup(p)
  BY <1>12, <1>g, <1>a, <1>t, StepNames DEF InstallBesideBackup, Apart, Holding, Steps
<1>13. CASE DropOld(p)
  BY <1>13, <1>g, <1>a, <1>t, StepNames DEF DropOld, Apart, Holding, Steps
<1>14. CASE PutBack(p)
  BY <1>14, <1>g, <1>a, <1>t, StepNames DEF PutBack, Apart, Holding, Steps
<1>15. CASE Confirm(p)
  BY <1>15, <1>g, <1>a, <1>t, StepNames DEF Confirm, Confirms, Apart, Holding, Steps
<1> QED
  BY <1>1, <1>2, <1>3, <1>4, <1>5, <1>6, <1>7, <1>8, <1>9, <1>10, <1>11, <1>12, <1>13, <1>14, <1>15 DEF Updating

LEMMA PlansOnPosix ==
  ASSUME JournalInv, PosixInv, NEW p \in Procs, Updating(p)
  PROVE  /\ Cleared(p)' => Cleared(p) \/ (pc[p] = "scavenge" /\ todo[p] = {})
         /\ pc'[p] = "scavenge" =>
              \/ pc[p] = "scavenge" /\ \A n \in todo[p] \ todo'[p] : temps'[n] = NoFile
              \/ \A n \in 1..MaxTurns : temps[n] # NoFile => n \in todo'[p]
         /\ pc'[p] \in Planned /\ payload'[p] # NoFile =>
              \/ pc[p] \in Planned /\ payload'[p] = payload[p]
              \/ pc[p] = "read" /\ payload'[p] \in Journal!Updates(Base, turn[p]) /\ primary' = primary
<1>t. /\ ProcInv(p) /\ JournalTypeOK /\ pc[p] \notin Apart /\ platform = "posix" /\ backup = NoFile
      /\ payload \in [Procs -> File \cup {NoFile}] /\ todo \in [Procs -> SUBSET (1..MaxTurns)]
      /\ temps \in [1..MaxTurns -> File \cup {NoFile}]
  BY DEF JournalInv, PosixInv, JournalTypeOK
<1>g. ASSUME NEW s \in Steps, Goto(p, s)
      PROVE  pc'[p] = s
  BY <1>g, <1>t, GotoAlone
<1>a. ASSUME Abandon(p)
      PROVE  pc'[p] = "release"
  BY <1>a, <1>t, AbandonSteps
<1> USE DEF count, files, local, hist, At
<1>1. CASE Recover(p)
  BY <1>1, <1>g, <1>a, <1>t, StepNames DEF Recover, Apart, Cleared, HasPlan, Planned, ProcInv
<1>2. CASE RestoreBackup(p)
  BY <1>2, <1>g, <1>a, <1>t, StepNames DEF RestoreBackup, Apart, Cleared, HasPlan, Planned, ProcInv
<1>3. CASE DropBackup(p)
  BY <1>3, <1>g, <1>a, <1>t, StepNames DEF DropBackup, Apart, Cleared, HasPlan, Planned, ProcInv
<1>4. CASE ScanTemporaries(p)
  BY <1>4, <1>g, <1>a, <1>t, StepNames DEF ScanTemporaries, Apart, Cleared, HasPlan, Planned, ProcInv
<1>5. CASE Scavenge(p)
  BY <1>5, <1>g, <1>a, <1>t, StepNames DEF Scavenge, Apart, Cleared, HasPlan, Planned, ProcInv
<1>6. CASE Read(p)
  BY <1>6, <1>g, <1>a, <1>t, StepNames DEF Read, Base, Apart, Cleared, HasPlan, Planned, ProcInv
<1>7. CASE AssignVersions(p)
  BY <1>7, <1>g, <1>a, <1>t, StepNames DEF AssignVersions, Apart, Cleared, HasPlan, Planned, ProcInv
<1>8. CASE WriteTemporary(p)
  BY <1>8, <1>g, <1>a, <1>t, StepNames DEF WriteTemporary, Apart, Cleared, HasPlan, Planned, ProcInv
<1>9. CASE CheckOwned(p)
  BY <1>9, <1>g, <1>a, <1>t, StepNames DEF CheckOwned, Apart, Cleared, HasPlan, Planned, ProcInv
<1>10. CASE Replace(p)
  BY <1>10, <1>g, <1>a, <1>t, StepNames DEF Replace, Install, Apart, Cleared, HasPlan, Planned, ProcInv
<1>11. CASE SetAside(p)
  BY <1>11, <1>g, <1>a, <1>t, StepNames DEF SetAside, Apart, Cleared, HasPlan, Planned, ProcInv
<1>12. CASE InstallBesideBackup(p)
  BY <1>12, <1>g, <1>a, <1>t, StepNames DEF InstallBesideBackup, Install, Apart, Cleared, HasPlan, Planned, ProcInv
<1>13. CASE DropOld(p)
  BY <1>13, <1>g, <1>a, <1>t, StepNames DEF DropOld, Apart, Cleared, HasPlan, Planned, ProcInv
<1>14. CASE PutBack(p)
  BY <1>14, <1>g, <1>a, <1>t, StepNames DEF PutBack, Apart, Cleared, HasPlan, Planned, ProcInv
<1>15. CASE Confirm(p)
  BY <1>15, <1>g, <1>a, <1>t, StepNames DEF Confirm, Apart, Cleared, HasPlan, Planned, ProcInv
<1> QED
  BY <1>1, <1>2, <1>3, <1>4, <1>5, <1>6, <1>7, <1>8, <1>9, <1>10, <1>11, <1>12, <1>13, <1>14, <1>15 DEF Updating

\* A step that moves no process and no file: a lock ages, or nothing happens.
Still ==
  /\ UNCHANGED <<platform, files, pc, turn, payload, todo, moved, applied, acked>>
  /\ \A n : OnDisk(n)' => OnDisk(n)

LEMMA StillOrStep ==
  ASSUME JournalInv, [Next]_vars
  PROVE  \/ Still
         \/ \E p \in Procs : Locking(p) \/ Heartbeat(p) \/ Crash(p) \/ Updating(p)
<1>1. CASE UNCHANGED vars
  BY <1>1 DEF vars, Still, OnDisk, files, local, hist
<1>2. CASE LockAges
  <2>1. lock' # NoDir => lock # NoDir /\ lock'.nonce = lock.nonce
    BY <1>2 DEF LockAges, JournalInv, JournalTypeOK, Dir
  <2> QED BY <1>2, <2>1 DEF LockAges, Still, OnDisk, files, local, hist
<1> QED BY <1>1, <1>2 DEF Next

\* Who holds the token held it before, or has just written its lease.
LEMMA TokenStep ==
  ASSUME JournalInv, PosixInv, NEW r \in Procs,
         Locking(r) \/ Heartbeat(r) \/ Crash(r) \/ Updating(r),
         NEW p \in Procs, Token(p)'
  PROVE  \/ Token(p) /\ turn'[p] = turn[p]
         \/ p = r /\ pc'[p] = "recover" /\ payload'[p] = NoFile
<1>s. pc'[p] \in Holding /\ Alone(r)
  BY LockingShape, UpdatingShape DEF Token, JournalInv
<1>d. PICK n : n = turn'[p] /\ OnDisk(n)'
  BY DEF Token, OnDisk
<1>n. \A q \in Procs : pc[q] \in Holding \cup {"lease"} => turn[q] \in Nat \ {0}
  BY Constants DEF JournalInv, ProcInv, JournalTypeOK, Turn
<1>1. CASE Updating(r)
  <2>1. OnDisk(n)
    BY <1>1, <1>d, UpdatingOnPosix DEF OnDisk
  <2>2. pc[p] \in Holding /\ turn'[p] = turn[p]
    BY <1>1, <1>s, UpdatingOnPosix, UpdatingShape DEF Alone, JournalInv
  <2> QED BY <1>d, <2>1, <2>2 DEF Token
<1>2. CASE Locking(r) \/ Heartbeat(r) \/ Crash(r)
  <2>1. CASE p = r /\ GetsLease(p)
    BY <2>1 DEF GetsLease
  <2>2. CASE ~(p = r /\ GetsLease(p))
    <3>1. pc[p] \in Holding /\ turn'[p] = turn[p]
      BY <1>2, <1>s, <2>2, LockingOnPosix DEF Alone
    <3>2. turn[p] \in Nat \ {0} /\ n = turn[p]
      BY <1>n, <1>d, <3>1
    <3>3. OnDisk(n) \/ (WriteLease(r) /\ n = turn[r])
      BY <1>2, <1>d, <3>2, LeasesOnDisk
    <3>4. WriteLease(r) => turn[p] # turn[r]
      <4>1. WriteLease(r) => pc[r] = "lease"
        BY DEF WriteLease, At
      <4>2. WriteLease(r) => p # r
        BY <3>1, <4>1 DEF Holding, Steps
      <4> QED BY <3>2, <4>2 DEF JournalInv, TurnInv
    <3> QED BY <3>1, <3>2, <3>3, <3>4 DEF Token
  <2> QED BY <2>1, <2>2
<1> QED BY <1>1, <1>2

\* Who is armed was, or has just seen that it owns the lock.
LEMMA ArmedStep ==
  ASSUME JournalInv, PosixInv, NEW r \in Procs,
         Locking(r) \/ Heartbeat(r) \/ Crash(r) \/ Updating(r),
         NEW p \in Procs, Armed(p)'
  PROVE  /\ turn'[p] = turn[p] /\ temps'[turn[p]] = temps[turn[p]] /\ turn[p] \in 1..MaxTurns
         /\ \/ Armed(p)
            \/ p = r /\ pc[p] = "check" /\ Token(p) /\ primary' = primary
<1>s. Alone(r) /\ Effects(r) /\ pc'[p] = "replace" /\ temps'[turn'[p]] # NoFile
  BY LockingShape, UpdatingShape DEF Armed, JournalInv
<1>h. "replace" \in Holding /\ "check" \in Holding /\ "replace" # "unlink" /\ "replace" # "recover"
  BY DEF Holding, Steps
<1>n. \A q \in Procs : pc[q] \in Holding => turn[q] \in 1..MaxTurns
  <2>1. turns \in 0..MaxTurns
    BY DEF JournalInv, JournalTypeOK, Turn
  <2> QED BY <2>1, Constants DEF JournalInv, ProcInv
<1>1. CASE p = r /\ Updating(r)
  <2>1. pc[p] = "check" /\ Owned(p) /\ temps' = temps /\ primary' = primary
    BY <1>1, <1>s, UpdatingOnPosix
  <2>2. turn' = turn
    BY <1>1, UpdatingShape DEF JournalInv
  <2> QED BY <1>1, <1>h, <1>n, <2>1, <2>2, OwnerHasToken
<1>2. CASE p = r /\ (Locking(r) \/ Heartbeat(r) \/ Crash(r))
  <2>1. ~GetsLease(p)
    BY <1>s, <1>h DEF GetsLease
  <2>2. pc[p] = "replace" /\ turn'[p] = turn[p] /\ temps' = temps
    BY <1>2, <1>s, <1>h, <2>1, LockingOnPosix
  <2> QED BY <1>s, <1>h, <1>n, <2>2 DEF Armed
<1>3. CASE p # r
  <2>1. pc[p] = "replace" /\ turn'[p] = turn[p]
    BY <1>3, <1>s DEF Alone
  <2>2. turn[p] \in 1..MaxTurns /\ turn[p] # 0
    BY <1>h, <1>n, <2>1, Constants
  <2>3. turn[p] # turn[r]
    BY <1>3, <2>2 DEF JournalInv, TurnInv
  <2>4. temps'[turn[p]] \in {temps[turn[p]], NoFile}
    BY <1>s, <2>2, <2>3 DEF Effects
  <2> QED BY <1>s, <2>1, <2>2, <2>4 DEF Armed
<1> QED BY <1>1, <1>2, <1>3

LEMMA PosixKept ==
  ASSUME JournalInv, PosixInv, NEW r \in Procs,
         Locking(r) \/ Heartbeat(r) \/ Crash(r) \/ Updating(r)
  PROVE  PosixInv'
<1>1. platform' = platform /\ backup' = backup /\ pc'[r] \notin Apart
  BY LockingOnPosix, UpdatingOnPosix
<1>2. Alone(r)
  BY LockingShape, UpdatingShape DEF JournalInv
<1> QED BY <1>1, <1>2 DEF PosixInv, Alone

LEMMA OrderKept ==
  ASSUME TwoRuntimes, FileInv, JournalInv', NEW r \in Procs,
         Locking(r) \/ Heartbeat(r) \/ Crash(r) \/ Updating(r)
  PROVE  OrderInv'
<1>i. JournalInv /\ PosixInv /\ OrderInv
  BY DEF FileInv
<1>s. Alone(r)
  BY <1>i, LockingShape, UpdatingShape DEF JournalInv
<1>1. ASSUME NEW p \in Procs, NEW q \in Procs, p # q, Token(p), Armed(q)'
      PROVE  Armed(q) /\ turn'[q] = turn[q] /\ temps'[turn[q]] # NoFile /\ turn[q] \in 1..MaxTurns
  <2>1. ~Token(q)
    BY <1>i, <1>1, Exclusive
  <2> QED BY <1>i, <1>1, <2>1, ArmedStep DEF Armed
<1>2. ASSUME NEW p \in Procs, NEW q \in Procs, p # q, Token(p)', Cleared(p)', Armed(q)'
      PROVE  FALSE
  <2>1. Token(p)
    BY <1>i, <1>2, TokenStep DEF Cleared, HasPlan
  <2>2. Armed(q)
    BY <1>1, <1>2, <2>1
  <2>3. ~Cleared(p) /\ (pc[p] = "scavenge" => turn[q] \in todo[p])
    BY <1>i, <1>2, <2>1, <2>2 DEF OrderInv
  <2>4. CASE p = r /\ Updating(r)
    BY <1>i, <1>2, <2>3, <2>4, PlansOnPosix
  <2>5. CASE p # r
    BY <1>s, <1>2, <2>3, <2>5 DEF Alone, Cleared, HasPlan
  <2>6. CASE p = r /\ (Locking(r) \/ Heartbeat(r) \/ Crash(r))
    <3>1. pc'[p] \in Holding
      BY <1>2 DEF Token
    <3>2. ~GetsLease(p)
      BY <1>2 DEF GetsLease, Cleared, HasPlan
    <3>3. pc'[p] \in {pc[p], "unlink"} /\ payload'[p] = payload[p]
      BY <1>i, <2>6, <3>1, <3>2, LockingOnPosix
    <3> QED BY <1>2, <2>3, <3>3 DEF Cleared, HasPlan, Planned
  <2> QED BY <2>4, <2>5, <2>6
<1>3. ASSUME NEW p \in Procs, NEW q \in Procs, p # q, Token(p)', pc'[p] = "scavenge", Armed(q)'
      PROVE  turn'[q] \in todo'[p]
  <2>1. Token(p)
    BY <1>i, <1>3, TokenStep
  <2>2. Armed(q) /\ turn'[q] = turn[q] /\ temps'[turn[q]] # NoFile /\ turn[q] \in 1..MaxTurns
    BY <1>1, <1>3, <2>1
  <2>3. temps[turn[q]] # NoFile
    BY <2>2 DEF Armed
  <2>4. pc[p] = "scavenge" => turn[q] \in todo[p]
    BY <1>i, <1>3, <2>1, <2>2 DEF OrderInv
  <2>5. CASE p = r /\ Updating(r)
    BY <1>i, <1>3, <2>2, <2>3, <2>4, <2>5, PlansOnPosix
  <2>6. CASE p # r
    BY <1>s, <1>3, <2>2, <2>4, <2>6 DEF Alone
  <2>7. CASE p = r /\ (Locking(r) \/ Heartbeat(r) \/ Crash(r))
    <3>1. pc'[p] \in Holding /\ ~GetsLease(p)
      BY <1>3 DEF Token, GetsLease
    <3>2. pc'[p] \in {pc[p], "unlink"} /\ todo'[p] = todo[p]
      BY <1>i, <2>7, <3>1, LockingOnPosix
    <3> QED BY <1>3, <2>2, <2>4, <3>2
  <2> QED BY <2>5, <2>6, <2>7
<1>4. ASSUME NEW p \in Procs, NEW q \in Procs, p # q, Armed(p)', Armed(q)'
      PROVE  FALSE
  <2>1. ASSUME NEW a \in Procs, NEW b \in Procs, a # b, Armed(a)', Armed(b)', ~Armed(a) PROVE FALSE
    <3>1. pc[a] = "check" /\ Token(a)
      BY <1>i, <2>1, ArmedStep
    <3>2. Cleared(a)
      BY <1>i, <3>1 DEF Cleared, HasPlan, Planned, JournalInv, ProcInv
    <3>3. Armed(b)
      BY <1>1, <2>1, <3>1
    <3> QED BY <1>i, <2>1, <3>1, <3>2, <3>3 DEF OrderInv
  <2>2. Armed(p) /\ Armed(q)
    BY <1>4, <2>1
  <2> QED BY <1>i, <1>4, <2>2 DEF OrderInv
<1> QED BY <1>2, <1>3, <1>4 DEF OrderInv

LEMMA PlanKept ==
  ASSUME TwoRuntimes, FileInv, JournalInv', NEW r \in Procs,
         Locking(r) \/ Heartbeat(r) \/ Crash(r) \/ Updating(r)
  PROVE  PlanInv'
<1>i. JournalInv /\ PosixInv /\ OrderInv /\ PlanInv
  BY DEF FileInv
<1>s. Alone(r)
  BY <1>i, LockingShape, UpdatingShape DEF JournalInv
<1>c. Content' = Content \/ (Armed(r) /\ pc'[r] = "confirm")
  <2>1. backup = NoFile /\ backup' = NoFile
    BY <1>i, LockingOnPosix, UpdatingOnPosix DEF PosixInv
  <2>2. primary' = primary \/ (Armed(r) /\ pc'[r] = "confirm")
    BY <1>i, LockingOnPosix, UpdatingOnPosix DEF Replaces, Confirms
  <2> QED BY <2>1, <2>2 DEF Content
<1>b. Base = Content
  BY <1>i DEF Base, Content, PosixInv, Journal!Empty, Journal!Absent
<1>1. ASSUME NEW p \in Procs, Token(p)', pc'[p] \in Planned, payload'[p] # NoFile
      PROVE  payload'[p] \in Journal!Updates(Content, turn[p])'
  <2>1. Token(p) /\ turn'[p] = turn[p]
    BY <1>i, <1>1, TokenStep
  <2>2. ASSUME pc[p] \in Planned, payload'[p] = payload[p]
        PROVE  payload'[p] \in Journal!Updates(Content, turn[p])'
    <3>1. payload[p] \in Journal!Updates(Content, turn[p]) /\ Cleared(p)
      BY <1>i, <1>1, <2>1, <2>2 DEF PlanInv, Cleared, HasPlan
    <3>2. p # r => ~Armed(r)
      BY <1>i, <2>1, <3>1 DEF OrderInv
    <3>3. p = r => ~Armed(r)
      BY <2>2 DEF Armed, Planned
    <3>4. Content' = Content
      BY <1>c, <3>2, <3>3
    <3> QED BY <2>1, <2>2, <3>1, <3>4 DEF Journal!Updates
  <2>3. CASE p = r /\ Updating(r)
    <3>1. CASE pc[p] \in Planned /\ payload'[p] = payload[p]
      BY <2>2, <3>1
    <3>2. CASE pc[p] = "read" /\ payload'[p] \in Journal!Updates(Base, turn[p]) /\ primary' = primary
      <4>1. Content' = Content
        BY <1>c, <2>3, <3>2 DEF Armed
      <4> QED BY <1>b, <2>1, <3>2, <4>1 DEF Journal!Updates
    <3> QED BY <1>i, <1>1, <2>3, <3>1, <3>2, PlansOnPosix
  <2>4. CASE p # r
    BY <1>s, <1>1, <2>2, <2>4 DEF Alone
  <2>5. CASE p = r /\ (Locking(r) \/ Heartbeat(r) \/ Crash(r))
    <3>1. pc'[p] \in Holding /\ ~GetsLease(p)
      BY <1>1 DEF Token, GetsLease
    <3>2. pc'[p] \in {pc[p], "unlink"} /\ payload'[p] = payload[p]
      BY <1>i, <2>5, <3>1, LockingOnPosix
    <3>3. pc[p] \in Planned
      BY <1>1, <3>2 DEF Planned
    <3> QED BY <2>2, <3>2, <3>3
  <2> QED BY <2>3, <2>4, <2>5
<1>2. ASSUME NEW p \in Procs, Armed(p)'
      PROVE  (temps[turn[p]] \in Journal!Updates(Content, turn[p]))'
  <2>1. turn'[p] = turn[p] /\ temps'[turn[p]] = temps[turn[p]] /\ temps[turn[p]] # NoFile
    BY <1>i, <1>2, ArmedStep DEF Armed
  <2>2. temps[turn[p]] \in Journal!Updates(Content, turn[p]) /\ Content' = Content
    <3>1. CASE Armed(p)
      <4>1. p # r => ~Armed(r)
        BY <1>i, <3>1 DEF OrderInv
      <4>2. p = r => pc'[r] # "confirm"
        BY <1>2 DEF Armed
      <4> QED BY <1>i, <1>c, <3>1, <4>1, <4>2 DEF PlanInv
    <3>2. CASE p = r /\ pc[p] = "check" /\ Token(p)
      <4>1. payload[p] # NoFile /\ temps[turn[p]] \in {payload[p], NoFile}
        BY <1>i, <3>2 DEF JournalInv, ProcInv
      <4>2. payload[p] \in Journal!Updates(Content, turn[p])
        BY <1>i, <3>2, <4>1 DEF PlanInv, Planned
      <4>3. ~Armed(r)
        BY <3>2 DEF Armed
      <4> QED BY <1>c, <2>1, <4>1, <4>2, <4>3
    <3> QED BY <1>i, <1>2, <3>1, <3>2, ArmedStep
  <2> QED BY <2>1, <2>2 DEF Journal!Updates
<1> QED BY <1>1, <1>2 DEF PlanInv

LEMMA FileInit == Init /\ platform = "posix" => FileInv
<1> SUFFICES ASSUME Init, platform = "posix" PROVE FileInv
  OBVIOUS
<1>1. \A p \in Procs : pc[p] = "idle"
  BY DEF Init
<1>2. PosixInv
  BY <1>1 DEF Init, PosixInv, Apart
<1>3. OrderInv /\ PlanInv
  BY <1>1 DEF OrderInv, PlanInv, Token, Armed, Holding, Planned
<1> QED BY <1>2, <1>3, JournalInit DEF FileInv

LEMMA FileStep == TwoRuntimes /\ FileInv /\ [Next]_vars => FileInv'
<1> SUFFICES ASSUME TwoRuntimes, FileInv, [Next]_vars PROVE FileInv'
  OBVIOUS
<1>j. JournalInv /\ JournalInv'
  BY JournalStep DEF FileInv
<1>1. CASE Still
  <2>1. Content' = Content
    BY <1>1 DEF Still, files, Content
  <2>2. \A p \in Procs : /\ Token(p)' => Token(p)
                         /\ Armed(p)' => Armed(p)
                         /\ Cleared(p)' => Cleared(p)
    BY <1>1 DEF Still, files, Token, Armed, Cleared, HasPlan
  <2>3. OrderInv'
    BY <1>1, <2>2 DEF FileInv, OrderInv, Still
  <2>4. PlanInv'
    BY <1>1, <2>1, <2>2 DEF FileInv, PlanInv, Still, files, Journal!Updates
  <2> QED BY <1>1, <1>j, <2>3, <2>4 DEF FileInv, PosixInv, Still, files
<1>2. ASSUME NEW r \in Procs, Locking(r) \/ Heartbeat(r) \/ Crash(r) \/ Updating(r)
      PROVE  FileInv'
  BY <1>j, <1>2, PosixKept, OrderKept, PlanKept DEF FileInv
<1> QED BY <1>j, <1>1, <1>2, StillOrStep

\* A replacement applies an update, a confirmation acknowledges one, and
\* nothing else is seen of the journal.
LEMMA FileStepIsUpdate == FileInv /\ FileInv' /\ [Next]_vars => [Journal!Next]_(Journal!vars)
<1> SUFFICES ASSUME FileInv, FileInv', [Next]_vars PROVE [Journal!Next]_(Journal!vars)
  OBVIOUS
<1>i. JournalInv /\ PosixInv /\ PlanInv /\ backup = NoFile /\ backup' = NoFile
  BY DEF FileInv, PosixInv
<1>n. \A p \in Procs : pc[p] \in Holding => turn[p] \in 1..MaxTurns
  <2>1. turns \in 0..MaxTurns
    BY <1>i DEF JournalInv, JournalTypeOK, Turn
  <2> QED BY <1>i, <2>1, Constants DEF JournalInv, ProcInv
<1>1. CASE UNCHANGED <<primary, applied, acked>>
  BY <1>i, <1>1 DEF Journal!vars, Content
<1>2. ASSUME NEW p \in Procs, Replaces(p)
      PROVE  Journal!Next
  <2>1. pc[p] = "replace" /\ turn[p] \in 1..MaxTurns /\ turn[p] \notin applied
    BY <1>i, <1>2, <1>n DEF Replaces, Armed, JournalInv, ProcInv, Before, Holding, Steps
  <2>2. Content' = temps[turn[p]]
    BY <1>2 DEF Replaces, Armed, Content
  <2>3. temps[turn[p]] \in Journal!Updates(Content, turn[p])
    BY <1>i, <1>2 DEF Replaces, PlanInv
  <2>4. Journal!Apply(turn[p])
    BY <1>2, <2>1, <2>2, <2>3 DEF Replaces, Journal!Apply
  <2> QED BY <2>1, <2>4 DEF Journal!Next
<1>3. ASSUME NEW p \in Procs, Confirms(p)
      PROVE  Journal!Next
  <2>1. turn[p] \in 1..MaxTurns /\ turn[p] \in applied
    BY <1>i, <1>3, <1>n DEF Confirms, JournalInv, ProcInv, Holding, Steps
  <2>2. Content' = Content
    BY <1>i, <1>3 DEF Confirms, Content
  <2>3. Journal!Acknowledge(turn[p])
    BY <1>3, <2>1, <2>2 DEF Confirms, Journal!Acknowledge
  <2> QED BY <2>1, <2>3 DEF Journal!Next
<1>4. CASE Still
  BY <1>1, <1>4 DEF Still, files
<1>5. ASSUME NEW p \in Procs, Locking(p) \/ Heartbeat(p) \/ Crash(p) \/ Updating(p)
      PROVE  UNCHANGED <<primary, applied, acked>> \/ Replaces(p) \/ Confirms(p)
  BY <1>i, <1>5, LockingOnPosix, UpdatingOnPosix
<1> QED BY <1>i, <1>1, <1>2, <1>3, <1>4, <1>5, StillOrStep

(* On POSIX two runtimes, a desktop and a web session, implement the        *)
(* journal: whatever sleeps, crashes, failed file operations and take-overs *)
(* come between the renames, for any number of turns and operations.  With  *)
(* a third runtime, or with two that die on Windows, they do not.           *)
THEOREM FilesAreTheJournal ==
  ASSUME TwoRuntimes
  PROVE  JournalFileSpec /\ platform = "posix" => JournalSpec
<1>1. Init /\ platform = "posix" => Journal!Init
  BY DEF Init, Journal!Init, Content, Journal!Empty, Journal!Absent
<1> QED
  BY <1>1, FileInit, FileStep, FileStepIsUpdate, PTL DEF JournalFileSpec, JournalSpec, Journal!Spec

-----------------------------------------------------------------------------
(***************************************************************************)
(* Where the lock keeps the runtimes apart: one runtime, which may die and *)
(* come back anywhere, or any number of them that neither die nor sleep.   *)
(* There a journal that is set aside while it is replaced is safe, too.    *)
(***************************************************************************)
OneRuntime == \A p, q \in Procs : p = q

Excluded == \A p, q \in Procs : pc[p] \in Holding /\ pc[q] \in Holding => p = q

\* The owner has dealt with the backup that it found.
Recovered == {"scan", "scavenge", "read", "assign", "write", "check", "replace", "set_aside"}
Planning  == (Recovered \ {"read"}) \cup {"recover", "restore", "drop_backup", "install"}

\* What the owner relies on of the two files, and what it is about to write.
PairOf(p) ==
  /\ pc[p] \in Recovered => backup = NoFile
  /\ pc[p] \in {"restore", "install"} => primary = NoFile /\ backup # NoFile
  /\ pc[p] \in {"drop_backup", "drop_old"} => primary # NoFile
  /\ pc[p] \in {"set_aside", "install"} =>
       payload[p] # NoFile /\ temps[turn[p]] \in {payload[p], NoFile}
  /\ pc[p] \in Planning /\ payload[p] # NoFile =>
       payload[p] \in Journal!Updates(Content, turn[p])

\* A journal beside a backup is the next one.
TwoFiles ==
  backup # NoFile /\ primary # NoFile =>
    \E n \in 1..MaxTurns : primary \in Journal!Updates(backup, n)

PairInv == TwoFiles /\ \A p \in Procs : PairOf(p)

Applies(p) ==
  /\ pc[p] \in {"replace", "install"} /\ Content' \in Journal!Updates(Content, turn[p])
  /\ applied' = applied \cup {turn[p]} /\ acked' = acked

Acknowledges(p) ==
  /\ pc[p] = "confirm"
  /\ Content' = Content /\ applied' = applied /\ acked' = acked \cup {turn[p]}

Unseen == Content' = Content /\ applied' = applied /\ acked' = acked

LEMMA UpdatingPair ==
  ASSUME JournalInv, PairInv, NEW p \in Procs, Updating(p)
  PROVE  /\ PairOf(p)' /\ TwoFiles'
         /\ Unseen \/ Applies(p) \/ Acknowledges(p)
<1>t. /\ ProcInv(p) /\ JournalTypeOK /\ PairOf(p) /\ TwoFiles
      /\ payload \in [Procs -> File \cup {NoFile}] /\ temps \in [1..MaxTurns -> File \cup {NoFile}]
  BY DEF JournalInv, PairInv, JournalTypeOK
<1>g. ASSUME NEW s \in Steps, Goto(p, s)
      PROVE  pc'[p] = s
  BY <1>g, <1>t, GotoAlone
<1>a. ASSUME Abandon(p)
      PROVE  pc'[p] = "release"
  BY <1>a, <1>t, AbandonSteps
<1>n. pc[p] \in Holding => turn[p] \in 1..MaxTurns
  <2>1. turns \in 0..MaxTurns
    BY <1>t DEF JournalTypeOK, Turn
  <2> QED BY <2>1, <1>t, Constants DEF ProcInv
<1>r. ASSUME pc'[p] = "release", UNCHANGED <<primary, backup, applied, acked>>
      PROVE  PairOf(p)' /\ TwoFiles' /\ Unseen
  BY <1>r, <1>t DEF PairOf, TwoFiles, Unseen, Content, Recovered, Planning, Journal!Updates
<1>m. ASSUME NEW s \in {"scan", "scavenge", "assign", "write", "check", "replace", "set_aside",
                         "restore", "drop_backup"},
             pc'[p] = s, UNCHANGED <<primary, backup, applied, acked, payload, turn>>,
             pc[p] \in Planning, s \in Recovered => backup = NoFile,
             s = "restore" => primary = NoFile /\ backup # NoFile,
             s = "drop_backup" => primary # NoFile,
             s = "set_aside" => pc[p] = "replace" /\ temps' = temps
      PROVE  PairOf(p)' /\ TwoFiles' /\ Unseen
  <2>1. payload'[p] # NoFile => payload'[p] \in Journal!Updates(Content, turn[p])'
    BY <1>m, <1>t DEF PairOf, Content, Journal!Updates
  <2>2. TwoFiles' /\ Unseen
    BY <1>m, <1>t DEF TwoFiles, Unseen, Content, Journal!Updates
  <2>3. s = "set_aside" => payload[p] # NoFile /\ temps[turn[p]] \in {payload[p], NoFile}
    BY <1>m, <1>t DEF ProcInv
  <2> QED BY <1>m, <2>1, <2>2, <2>3 DEF PairOf, Recovered, Planning
<1> USE DEF count, files, local, hist, At
<1>1. CASE Recover(p)
  <2>1. pc[p] = "recover" /\ UNCHANGED <<primary, backup, applied, acked, payload, turn>>
    BY <1>1 DEF Recover
  <2>2. \/ pc'[p] = "release"
        \/ pc'[p] = "scan" /\ backup = NoFile
        \/ pc'[p] = "restore" /\ backup # NoFile /\ primary = NoFile
        \/ pc'[p] = "drop_backup" /\ primary # NoFile
    BY <1>1, <1>g, <1>a, StepNames DEF Recover
  <2> QED BY <2>1, <2>2, <1>r, <1>m DEF Planning, Recovered
<1>2. CASE RestoreBackup(p)
  <2>1. CASE Abandon(p) /\ UNCHANGED <<primary, backup>>
    BY <1>2, <2>1, <1>a, <1>r DEF RestoreBackup
  <2>2. CASE primary' = backup /\ backup' = NoFile /\ Goto(p, "scan") /\ backup # NoFile
    <3>1. pc'[p] = "scan" /\ primary = NoFile /\ pc[p] = "restore"
      BY <1>2, <2>2, <1>g, <1>t, StepNames DEF RestoreBackup, PairOf
    <3>2. Unseen
      BY <1>2, <2>2, <3>1 DEF RestoreBackup, Unseen, Content
    <3>3. payload'[p] # NoFile => payload'[p] \in Journal!Updates(Content, turn[p])'
      BY <1>2, <3>1, <3>2, <1>t DEF RestoreBackup, PairOf, Planning, Unseen, Journal!Updates
    <3> QED BY <2>2, <3>1, <3>2, <3>3 DEF PairOf, TwoFiles, Recovered, Planning
  <2> QED BY <1>2, <2>1, <2>2 DEF RestoreBackup
<1>3. CASE DropBackup(p)
  <2>1. CASE Abandon(p) /\ UNCHANGED backup
    BY <1>3, <2>1, <1>a, <1>r DEF DropBackup
  <2>2. CASE backup' = NoFile /\ Goto(p, "scan")
    <3>1. pc'[p] = "scan" /\ primary # NoFile /\ pc[p] = "drop_backup"
      BY <1>3, <2>2, <1>g, <1>t, StepNames DEF DropBackup, PairOf
    <3>2. Unseen
      BY <1>3, <2>2, <3>1 DEF DropBackup, Unseen, Content
    <3>3. payload'[p] # NoFile => payload'[p] \in Journal!Updates(Content, turn[p])'
      BY <1>3, <3>1, <3>2, <1>t DEF DropBackup, PairOf, Planning, Unseen, Journal!Updates
    <3> QED BY <2>2, <3>1, <3>2, <3>3 DEF PairOf, TwoFiles, Recovered, Planning
  <2> QED BY <1>3, <2>1, <2>2 DEF DropBackup
<1>4. CASE ScanTemporaries(p)
  <2>1. pc[p] = "scan" /\ pc'[p] = "scavenge"
        /\ UNCHANGED <<primary, backup, applied, acked, payload, turn>>
    BY <1>4, <1>g, StepNames DEF ScanTemporaries
  <2> QED BY <2>1, <1>m, <1>t DEF Planning, Recovered, PairOf
<1>5. CASE Scavenge(p)
  <2>1. pc[p] = "scavenge" /\ UNCHANGED <<primary, backup, applied, acked, payload, turn>>
    BY <1>5 DEF Scavenge
  <2>2. backup = NoFile
    BY <2>1, <1>t DEF PairOf, Recovered
  <2>3. \/ pc'[p] \in {"release", "assign", "scavenge"}
        \/ pc'[p] = "read" /\ payload[p] = NoFile
    BY <1>5, <2>1, <1>g, <1>a, StepNames DEF Scavenge
  <2>4. pc'[p] = "read" => PairOf(p)' /\ TwoFiles' /\ Unseen
    BY <2>1, <2>2 DEF PairOf, TwoFiles, Unseen, Content, Recovered, Planning
  <2> QED BY <2>1, <2>2, <2>3, <2>4, <1>m, <1>r DEF Planning, Recovered
<1>6. CASE Read(p)
  <2>1. CASE Abandon(p)
    BY <1>6, <2>1, <1>a, <1>r DEF Read
  <2>2. ASSUME NEW new, new \in Journal!Updates(Base, turn[p]), payload' = [payload EXCEPT ![p] = new],
               Goto(p, "recover")
        PROVE  PairOf(p)' /\ TwoFiles' /\ Unseen
    <3>1. pc'[p] = "recover" /\ pc[p] = "read" /\ backup = NoFile /\ backup' = NoFile /\ primary' = primary
      BY <1>6, <2>2, <1>g, <1>t, StepNames DEF Read, PairOf, Recovered
    <3>2. Unseen
      BY <1>6, <3>1 DEF Read, Unseen, Content
    <3>3. Base = Content
      BY <3>1 DEF Base, Content, Journal!Empty, Journal!Absent
    <3>4. payload'[p] = new /\ turn'[p] = turn[p]
      BY <1>6, <2>2, <1>t DEF Read
    <3>5. payload'[p] \in Journal!Updates(Content, turn[p])'
      BY <2>2, <3>2, <3>3, <3>4 DEF Unseen, Journal!Updates
    <3> QED BY <3>1, <3>2, <3>5 DEF PairOf, TwoFiles, Recovered, Planning
  <2> QED BY <1>6, <2>1, <2>2 DEF Read, Base
<1>7. CASE AssignVersions(p)
  <2>1. pc[p] = "assign" /\ UNCHANGED <<primary, backup, applied, acked, payload, turn>>
        /\ pc'[p] \in {"write", "release"}
    BY <1>7, <1>g, <1>a, StepNames DEF AssignVersions
  <2> QED BY <2>1, <1>m, <1>r, <1>t DEF Planning, Recovered, PairOf
<1>8. CASE WriteTemporary(p)
  <2>1. pc[p] = "write" /\ UNCHANGED <<primary, backup, applied, acked, payload, turn>>
        /\ pc'[p] \in {"check", "release"}
    BY <1>8, <1>g, <1>a, StepNames DEF WriteTemporary
  <2> QED BY <2>1, <1>m, <1>r, <1>t DEF Planning, Recovered, PairOf
<1>9. CASE CheckOwned(p)
  <2>1. pc[p] = "check" /\ UNCHANGED <<primary, backup, applied, acked, payload, turn>>
        /\ pc'[p] \in {"replace", "release"}
    BY <1>9, <1>g, <1>a, StepNames DEF CheckOwned
  <2> QED BY <2>1, <1>m, <1>r, <1>t DEF Planning, Recovered, PairOf
<1>10. CASE Replace(p)
  <2>1. CASE Install(p, "confirm")
    <3>1. pc[p] = "replace" /\ pc'[p] = "confirm" /\ backup = NoFile /\ backup' = NoFile /\ acked' = acked
          /\ primary' = temps[turn[p]] /\ applied' = applied \cup {turn[p]} /\ temps[turn[p]] # NoFile
      BY <1>10, <2>1, <1>g, <1>t, StepNames DEF Replace, Install, PairOf, Recovered
    <3>2. temps[turn[p]] = payload[p] /\ payload[p] \in Journal!Updates(Content, turn[p])
      BY <3>1, <1>t DEF ProcInv, PairOf, Planning, Recovered
    <3>3. Content' = temps[turn[p]]
      BY <3>1 DEF Content
    <3>4. Applies(p)
      BY <3>1, <3>2, <3>3 DEF Applies
    <3> QED BY <3>1, <3>4 DEF PairOf, TwoFiles, Recovered, Planning
  <2>2. CASE Abandon(p) /\ UNCHANGED <<primary, applied>>
    BY <1>10, <2>2, <1>a, <1>r DEF Replace
  <2>3. CASE Goto(p, "set_aside") /\ UNCHANGED <<temps, primary, applied>>
    <3>1. pc[p] = "replace" /\ UNCHANGED <<primary, backup, applied, acked, payload, turn>>
          /\ pc'[p] = "set_aside"
      BY <1>10, <2>3, <1>g, StepNames DEF Replace
    <3> QED BY <2>3, <3>1, <1>m, <1>t DEF Planning, Recovered, PairOf
  <2> QED BY <1>10, <2>1, <2>2, <2>3 DEF Replace
<1>11. CASE SetAside(p)
  <2>s. /\ pc[p] = "set_aside" /\ backup = NoFile /\ payload' = payload /\ turn' = turn /\ temps' = temps
        /\ UNCHANGED <<applied, acked>>
    BY <1>11, <1>t DEF SetAside, PairOf, Recovered
  <2>1. CASE primary # NoFile /\ backup' = primary /\ primary' = NoFile /\ Goto(p, "install")
    <3>1. pc'[p] = "install" /\ Unseen
      BY <2>s, <2>1, <1>g, StepNames DEF Unseen, Content
    <3>2. payload[p] # NoFile /\ temps[turn[p]] \in {payload[p], NoFile}
          /\ payload[p] \in Journal!Updates(Content, turn[p])
      BY <2>s, <1>t DEF PairOf, Planning, Recovered
    <3>3. payload'[p] \in Journal!Updates(Content, turn[p])'
      BY <2>s, <3>1, <3>2 DEF Unseen, Journal!Updates
    <3> QED BY <2>s, <2>1, <3>1, <3>2, <3>3 DEF PairOf, TwoFiles, Recovered, Planning
  <2>2. CASE UNCHANGED <<primary, backup>> /\ Goto(p, "put_back")
    <3>1. pc'[p] = "put_back" /\ Unseen
      BY <2>s, <2>2, <1>g, StepNames DEF Unseen, Content
    <3> QED BY <2>s, <2>2, <3>1 DEF PairOf, TwoFiles, Recovered, Planning
  <2> QED BY <1>11, <2>1, <2>2 DEF SetAside
<1>12. CASE InstallBesideBackup(p)
  <2>s. pc[p] = "install" /\ primary = NoFile /\ backup # NoFile /\ backup' = backup /\ acked' = acked
    BY <1>12, <1>t DEF InstallBesideBackup, PairOf
  <2>1. CASE Install(p, "drop_old")
    <3>1. pc'[p] = "drop_old" /\ primary' = temps[turn[p]] /\ applied' = applied \cup {turn[p]}
          /\ temps[turn[p]] # NoFile
      BY <2>1, <1>g, StepNames DEF Install
    <3>2. temps[turn[p]] = payload[p] /\ payload[p] \in Journal!Updates(Content, turn[p])
      BY <2>s, <3>1, <1>t DEF PairOf, Planning, Recovered
    <3>3. Content' = temps[turn[p]] /\ Content = backup
      BY <2>s, <3>1 DEF Content
    <3>4. Applies(p)
      BY <2>s, <3>1, <3>2, <3>3 DEF Applies
    <3>5. turn[p] \in 1..MaxTurns
      BY <2>s, <1>n DEF Holding, Steps
    <3>6. primary' \in Journal!Updates(backup, turn[p])
      BY <3>1, <3>2, <3>3
    <3>7. TwoFiles'
      BY <2>s, <3>5, <3>6 DEF TwoFiles, Journal!Updates
    <3> QED BY <3>1, <3>4, <3>7 DEF PairOf, Recovered, Planning
  <2>2. CASE UNCHANGED <<primary, temps, applied>> /\ Goto(p, "put_back")
    <3>1. pc'[p] = "put_back" /\ Unseen
      BY <2>s, <2>2, <1>g, StepNames DEF Unseen, Content
    <3> QED BY <2>s, <2>2, <3>1 DEF PairOf, TwoFiles, Recovered, Planning
  <2> QED BY <1>12, <2>1, <2>2 DEF InstallBesideBackup
<1>13. CASE DropOld(p)
  <2>s. pc[p] = "drop_old" /\ primary # NoFile /\ UNCHANGED <<primary, applied, acked>>
    BY <1>13, <1>t DEF DropOld, PairOf
  <2>1. CASE backup' = NoFile /\ Goto(p, "confirm")
    <3>1. pc'[p] = "confirm" /\ Unseen
      BY <2>s, <2>1, <1>g, StepNames DEF Unseen, Content
    <3> QED BY <2>s, <2>1, <3>1 DEF PairOf, TwoFiles, Recovered, Planning
  <2>2. CASE UNCHANGED backup /\ Goto(p, "put_back")
    <3>1. pc'[p] = "put_back" /\ Unseen
      BY <2>s, <2>2, <1>g, StepNames DEF Unseen, Content
    <3>2. TwoFiles'
      BY <2>s, <2>2, <1>t DEF TwoFiles, Journal!Updates
    <3> QED BY <3>1, <3>2 DEF PairOf, Recovered, Planning
  <2> QED BY <1>13, <2>1, <2>2 DEF DropOld
<1>14. CASE PutBack(p)
  <2>s. pc'[p] = "release" /\ UNCHANGED <<applied, acked>>
    BY <1>14, <1>a DEF PutBack
  <2>1. CASE primary = NoFile /\ primary' = backup /\ backup' = NoFile
    <3>1. Unseen
      BY <2>s, <2>1 DEF Unseen, Content
    <3> QED BY <2>s, <2>1, <3>1 DEF PairOf, TwoFiles, Recovered, Planning
  <2>2. CASE UNCHANGED <<primary, backup>>
    BY <2>s, <2>2, <1>r
  <2> QED BY <1>14, <2>1, <2>2 DEF PutBack
<1>15. CASE Confirm(p)
  <2>1. pc[p] = "confirm" /\ pc'[p] = "release" /\ UNCHANGED <<primary, backup, applied>>
        /\ acked' \in {acked, acked \cup {turn[p]}}
    BY <1>15, <1>g, StepNames DEF Confirm
  <2>2. PairOf(p)' /\ TwoFiles' /\ Content' = Content
    BY <2>1, <1>t DEF PairOf, TwoFiles, Content, Recovered, Planning, Journal!Updates
  <2> QED BY <2>1, <2>2 DEF Unseen, Acknowledges
<1> QED
  BY <1>1, <1>2, <1>3, <1>4, <1>5, <1>6, <1>7, <1>8, <1>9, <1>10, <1>11, <1>12, <1>13, <1>14, <1>15 DEF Updating

\* Other steps leave the files alone, and who comes to hold the lock has no plan.
LEMMA LockingPair ==
  ASSUME JournalInv, PairInv, NEW p \in Procs, Locking(p) \/ Heartbeat(p) \/ Crash(p)
  PROVE  PairInv' /\ Unseen
<1>t. ProcInv(p) /\ JournalTypeOK
  BY DEF JournalInv
<1>f. UNCHANGED <<primary, backup, temps, applied, acked>>
  BY DEF Locking, Start, MakeLock, Observe, WriteLease, ClearLock, RenameAway, InspectMoved, Release,
         Unlink, VerifyReleased, Heartbeat, Crash, files, hist
<1>u. Content' = Content
  BY <1>f DEF Content
<1>1. ASSUME NEW q \in Procs, pc'[q] = pc[q], turn'[q] = turn[q], payload'[q] = payload[q]
      PROVE  PairOf(q)'
  <2>1. PairOf(q)
    BY DEF PairInv
  <2> QED BY <1>1, <1>f, <1>u, <2>1 DEF PairOf, Journal!Updates
<1>2. PairOf(p)'
  <2>1. pc'[p] \in Planning \cup Recovered \cup {"drop_old"} =>
          \/ pc'[p] = pc[p] /\ turn'[p] = turn[p] /\ payload'[p] = payload[p]
          \/ pc'[p] = "recover" /\ payload'[p] = NoFile
    BY <1>t, LockingHolds DEF Planning, Recovered, Holding, Steps, GetsLease
  <2> QED BY <1>1, <2>1 DEF PairOf, Planning, Recovered
<1>3. Alone(p)
  BY <1>t, LockingShape
<1> QED BY <1>1, <1>2, <1>3, <1>f, <1>u DEF PairInv, TwoFiles, Unseen, Alone, Journal!Updates

LEMMA PairStep ==
  ASSUME JournalInv, PairInv, Excluded, [Next]_vars
  PROVE  PairInv'
<1>1. CASE Still
  <2>1. Content' = Content
    BY <1>1 DEF Still, files, Content
  <2> QED BY <1>1, <2>1 DEF Still, files, PairInv, PairOf, TwoFiles, Journal!Updates
<1>2. ASSUME NEW p \in Procs, Updating(p)
      PROVE  PairInv'
  <2>1. PairOf(p)' /\ TwoFiles'
    BY <1>2, UpdatingPair
  <2>2. ASSUME NEW q \in Procs \ {p} PROVE PairOf(q)'
    <3>1. pc'[q] = pc[q] /\ pc[p] \in Holding
      BY <1>2, UpdatingShape, UpdatingHolds DEF Alone, JournalInv
    <3>2. pc[q] \notin Holding
      BY <3>1 DEF Excluded
    <3> QED BY <3>1, <3>2 DEF PairOf, Planning, Recovered, Holding, Steps
  <2> QED BY <2>1, <2>2 DEF PairInv
<1> QED BY <1>1, <1>2, LockingPair, StillOrStep

LEMMA PairInit == Init => PairInv
  BY DEF Init, PairInv, PairOf, TwoFiles, Planning, Recovered

LEMMA PairStepIsUpdate ==
  ASSUME JournalInv, PairInv, [Next]_vars
  PROVE  [Journal!Next]_(Journal!vars)
<1>n. \A p \in Procs : pc[p] \in Holding => turn[p] \in 1..MaxTurns
  <2>1. turns \in 0..MaxTurns
    BY DEF JournalInv, JournalTypeOK, Turn
  <2> QED BY <2>1, Constants DEF JournalInv, ProcInv
<1>1. CASE Unseen
  BY <1>1 DEF Unseen, Journal!vars
<1>2. ASSUME NEW p \in Procs, Applies(p)
      PROVE  Journal!Next
  <2>1. turn[p] \in 1..MaxTurns /\ turn[p] \notin applied
    BY <1>2, <1>n DEF Applies, JournalInv, ProcInv, Before, Holding, Steps
  <2>2. Journal!Apply(turn[p])
    BY <1>2, <2>1 DEF Applies, Journal!Apply
  <2> QED BY <2>1, <2>2 DEF Journal!Next
<1>3. ASSUME NEW p \in Procs, Acknowledges(p)
      PROVE  Journal!Next
  <2>1. turn[p] \in 1..MaxTurns /\ turn[p] \in applied
    BY <1>3, <1>n DEF Acknowledges, JournalInv, ProcInv, Holding, Steps
  <2>2. Journal!Acknowledge(turn[p])
    BY <1>3, <2>1 DEF Acknowledges, Journal!Acknowledge
  <2> QED BY <2>1, <2>2 DEF Journal!Next
<1>4. Still => Unseen
  BY DEF Still, files, Unseen, Content
<1> QED BY <1>1, <1>2, <1>3, <1>4, UpdatingPair, LockingPair, StillOrStep

\* What recovery refuses, Progresses, is the removal of a submission.
LEMMA RefusedWasRemoved ==
  ASSUME JournalTypeOK, TwoFiles
  PROVE  RefusedOnlyAfterRemoval
<1> SUFFICES ASSUME backup # NoFile, primary # NoFile, ~Progresses(backup, primary)
             PROVE  \E k \in Keys : /\ backup[k].stage = "pending" /\ primary[k].stage = "absent"
                                    /\ \A j \in Keys \ {k} : backup[j] = primary[j]
  BY DEF RefusedOnlyAfterRemoval
<1>1. PICK n \in 1..MaxTurns : primary \in Journal!Updates(backup, n)
  BY DEF TwoFiles
<1>2. PICK k \in Keys, s \in Journal!Stages :
        /\ s \in Journal!NextStages[backup[k].stage]
        /\ primary = [backup EXCEPT ![k] = Journal!Written(s, n)]
  BY <1>1 DEF Journal!Updates
<1>3. backup \in [Keys -> Journal!Record]
  BY DEF JournalTypeOK, File
<1>4. primary[k] = Journal!Written(s, n) /\ \A j \in Keys \ {k} : primary[j] = backup[j]
  BY <1>2, <1>3
<1>5. primary[k].stage = s
  BY <1>4 DEF Journal!Written, Journal!Absent
<1>6. \A j \in Keys : Onward(backup[j], primary[j])
  BY <1>2, <1>4, <1>5 DEF Onward
<1>7. s = "absent" /\ backup[k].stage # "absent"
  BY <1>4, <1>5, <1>6 DEF Progresses
<1>8. backup[k].stage = "pending"
  <2>1. backup[k].stage \in Journal!Stages
    BY <1>3 DEF Journal!Record
  <2> QED BY <1>2, <1>7, <2>1 DEF Journal!NextStages, Journal!Stages
<1> QED BY <1>4, <1>5, <1>7, <1>8

-----------------------------------------------------------------------------
(***************************************************************************)
(* Runtimes that neither die nor sleep: a lock that is there belongs to    *)
(* the one that made it until it removes it, and never looks stale.        *)
(***************************************************************************)
Inside == Holding \cup {"lease", "clear_fail"}

LockInv ==
  /\ \A p, q \in Procs : pc[p] \in Inside /\ pc[q] \in Inside => p = q
  /\ lock # NoDir => ~lock.stale /\ \E p \in Procs : pc[p] \in Inside
  /\ \A p \in Procs :
       /\ pc[p] \notin {"clear_retry", "takeover", "inspect"}
       /\ pc[p] \in Inside =>
            lock # NoDir /\ lock.nonce = IF pc[p] \in Holding THEN turn[p] ELSE 0
       /\ pc[p] = "verify" => moved[p] # NoDir /\ moved[p].nonce = turn[p]

\* A step of p comes to, keeps or leaves the lock.
LEMMA LockInit == Init => LockInv
  BY DEF Init, LockInv, Inside, Holding, Steps

LEMMA LockUpdating ==
  ASSUME JournalInv, LockInv, NEW p \in Procs, Updating(p)
  PROVE  LockInv'
<1>1. pc[p] \in Holding /\ pc'[p] \in Holding /\ UNCHANGED <<lock, moved>> /\ turn' = turn /\ Alone(p)
  BY UpdatingHolds, UpdatingShape DEF JournalInv
<1>2. pc'[p] \notin {"clear_retry", "takeover", "inspect", "verify"}
  BY <1>1 DEF Holding, Steps
<1> QED BY <1>1, <1>2 DEF LockInv, Inside, Alone

LEMMA LockLocking ==
  ASSUME MaxCrashes = 0, JournalInv, LockInv, NEW p \in Procs, Locking(p) \/ Heartbeat(p) \/ Crash(p)
  PROVE  LockInv'
<1>t. /\ ProcInv(p) /\ JournalTypeOK /\ moved \in [Procs -> Dir \cup {NoDir}] /\ lock \in Dir \cup {NoDir}
      /\ turn \in [Procs -> Turn] /\ crashes = 0
  BY DEF JournalInv, JournalTypeOK
<1>s. \A q \in Procs \ {p} : pc'[q] = pc[q] /\ turn'[q] = turn[q] /\ moved'[q] = moved[q]
  BY <1>t, LockingShape DEF Alone
<1>g. ASSUME NEW s \in Steps, Goto(p, s)
      PROVE  pc'[p] = s
  BY <1>g, <1>t, GotoAlone
<1>f. ASSUME Finish(p)
      PROVE  pc'[p] = "idle" /\ turn'[p] = 0
  BY <1>f, <1>t, FinishSteps
<1>o. ASSUME pc'[p] \notin Inside \cup {"clear_retry", "takeover", "inspect", "verify"},
             lock' = lock, pc[p] \notin Inside
      PROVE  LockInv'
  BY <1>o, <1>s DEF LockInv, Inside
<1>k. ASSUME pc'[p] \in Inside, pc[p] \in Inside, turn'[p] = turn[p], lock' # NoDir, ~lock'.stale,
             lock'.nonce = IF pc'[p] \in Holding THEN turn[p] ELSE 0
      PROVE  LockInv'
  BY <1>k, <1>s DEF LockInv, Inside, Holding, Steps
<1>l. ASSUME pc[p] \in Inside, lock' = NoDir, pc'[p] \notin Inside \cup {"clear_retry", "takeover", "inspect"},
             pc'[p] = "verify" => moved'[p] # NoDir /\ moved'[p].nonce = turn'[p]
      PROVE  LockInv'
  BY <1>l, <1>s DEF LockInv, Inside
<1> USE DEF count, files, local, hist, At
<1>1. CASE Start(p)
  BY <1>1, <1>g, <1>o, StepNames DEF Start, Inside, Holding, Steps
<1>2. CASE MakeLock(p)
  <2>1. pc'[p] = "lease" /\ pc[p] = "mkdir" /\ lock = NoDir /\ lock' = [nonce |-> 0, stale |-> FALSE]
    BY <1>2, <1>g, StepNames DEF MakeLock
  <2>2. \A q \in Procs : pc[q] \notin Inside
    BY <2>1 DEF LockInv
  <2>3. lock' # NoDir /\ lock'.nonce = 0 /\ ~lock'.stale
    <3>1. lock' \in Dir
      BY <2>1, Constants DEF Dir, Turn
    <3> QED BY <2>1, <3>1, Missing
  <2> QED BY <2>1, <2>2, <2>3, <1>s DEF LockInv, Inside, Holding, Steps
<1>3. CASE Observe(p)
  <2>1. ~lock.stale
    BY <1>3 DEF Observe, LockInv
  <2> QED BY <1>3, <2>1, <1>f, <1>o DEF Observe, Inside, Holding, Steps
<1>4. CASE WriteLease(p)
  <2>1. pc[p] = "lease" /\ lock # NoDir /\ lock.nonce = 0 /\ ~lock.stale /\ pc[p] \in Inside
    BY <1>4 DEF WriteLease, LockInv, Inside, Holding, Steps
  <2>2. CASE lock' = [nonce |-> turn[p], stale |-> FALSE] /\ Goto(p, "recover")
    <3>1. pc'[p] = "recover" /\ turn'[p] = turn[p]
      BY <1>4, <2>2, <1>g, StepNames DEF WriteLease
    <3>2. lock' # NoDir /\ lock'.nonce = turn[p] /\ ~lock'.stale
      <4>1. lock' \in Dir
        BY <2>2, <1>t DEF Dir
      <4> QED BY <2>2, <4>1, Missing
    <3> QED BY <2>1, <3>1, <3>2, <1>k DEF Inside, Holding, Steps
  <2>3. CASE Goto(p, "clear_fail") /\ UNCHANGED lock
    <3>1. pc'[p] = "clear_fail" /\ turn'[p] = turn[p]
      BY <1>4, <2>3, <1>g, StepNames DEF WriteLease
    <3> QED BY <2>1, <2>3, <3>1, <1>k DEF Inside, Holding, Steps
  <2> QED BY <1>4, <2>1, <2>2, <2>3 DEF WriteLease
<1>5. CASE ClearLock(p)
  <2>1. pc[p] = "clear_fail" /\ lock' = NoDir
    BY <1>5 DEF ClearLock, LockInv
  <2>2. pc'[p] = "idle"
    BY <1>5, <2>1, <1>f DEF ClearLock
  <2> QED BY <2>1, <2>2, <1>l DEF Inside, Holding, Steps
<1>6. CASE RenameAway(p)
  BY <1>6 DEF RenameAway, LockInv
<1>7. CASE InspectMoved(p)
  BY <1>7 DEF InspectMoved, LockInv
<1>8. CASE Release(p)
  <2>1. pc[p] = "release" /\ lock # NoDir /\ lock.nonce = turn[p] /\ ~lock.stale /\ lock' = lock
    BY <1>8 DEF Release, LockInv, Inside, Holding, Steps
  <2>2. pc'[p] = "unlink" /\ turn' = turn
    BY <1>8, <2>1, <1>g, StepNames DEF Release
  <2> QED BY <2>1, <2>2, <1>k DEF Inside, Holding, Steps
<1>9. CASE Unlink(p)
  <2>1. pc[p] = "unlink" /\ lock # NoDir /\ lock.nonce = turn[p] /\ lock' = NoDir
    BY <1>9 DEF Unlink, LockInv, Inside, Holding, Steps
  <2>2. pc'[p] = "verify" /\ turn' = turn /\ moved'[p] = lock
    BY <1>9, <2>1, <1>g, <1>t, StepNames DEF Unlink
  <2> QED BY <2>1, <2>2, <1>l DEF Inside, Holding, Steps
<1>10. CASE VerifyReleased(p)
  <2>1. pc[p] = "verify" /\ moved[p].nonce = turn[p]
    BY <1>10 DEF VerifyReleased, LockInv
  <2>2. pc'[p] = "idle" /\ lock' = lock
    BY <1>10, <2>1, <1>f DEF VerifyReleased
  <2> QED BY <2>1, <2>2, <1>o DEF Inside, Holding, Steps
<1>11. CASE Heartbeat(p)
  <2>1. pc[p] \in Holding /\ pc' = pc /\ turn' = turn /\ moved' = moved /\ lock # NoDir /\ lock \in Dir
        /\ lock.nonce = turn[p] /\ ~lock.stale
    BY <1>11, <1>t DEF Heartbeat, LockInv, Inside
  <2>2. lock' = [lock EXCEPT !.stale = FALSE]
    BY <1>11, <2>1 DEF Heartbeat, Owned
  <2>3. lock' # NoDir /\ lock'.nonce = turn[p] /\ ~lock'.stale
    <3>1. lock' \in Dir /\ lock'.nonce = lock.nonce /\ ~lock'.stale
      BY <2>1, <2>2 DEF Dir
    <3> QED BY <2>1, <3>1, Missing
  <2> QED BY <2>1, <2>3, <1>k DEF Inside
<1>12. CASE Crash(p)
  BY <1>12, <1>t DEF Crash
<1> QED
  BY <1>1, <1>2, <1>3, <1>4, <1>5, <1>6, <1>7, <1>8, <1>9, <1>10, <1>11, <1>12 DEF Locking

LEMMA LockStep ==
  ASSUME MaxCrashes = 0, platform \notin Pausing, JournalInv, LockInv, [Next]_vars
  PROVE  LockInv' /\ platform' \notin Pausing
<1>1. CASE UNCHANGED vars
  BY <1>1 DEF vars, files, local, LockInv
<1>2. CASE LockAges
  <2>1. PICK p \in Procs : pc[p] \in Inside
    BY <1>2 DEF LockAges, LockInv
  <2>2. InUse(lock)
    BY <2>1 DEF InUse, LockInv, Inside
  <2> QED BY <1>2, <2>2 DEF LockAges
<1>3. ASSUME NEW p \in Procs, Locking(p) \/ Heartbeat(p) \/ Crash(p) \/ Updating(p)
      PROVE  LockInv' /\ platform' = platform
  <2>1. platform' = platform
    BY <1>3 DEF Locking, Updating, Start, MakeLock, Observe, WriteLease, ClearLock, RenameAway,
                InspectMoved, Release, Unlink, VerifyReleased, Heartbeat, Crash, Recover, RestoreBackup,
                DropBackup, ScanTemporaries, Scavenge, Read, AssignVersions, WriteTemporary, CheckOwned,
                Replace, SetAside, InstallBesideBackup, DropOld, PutBack, Confirm
  <2> QED BY <1>3, <2>1, LockLocking, LockUpdating
<1> QED BY <1>1, <1>2, <1>3 DEF Next, vars

LEMMA LockExcludes == LockInv => Excluded
  BY DEF LockInv, Excluded, Inside

\* One runtime, or several of which none dies or sleeps.
KeptApart == OneRuntime \/ (MaxCrashes = 0 /\ platform \notin Pausing)

ApartInv ==
  /\ JournalInv /\ PairInv
  /\ OneRuntime \/ (MaxCrashes = 0 /\ platform \notin Pausing /\ LockInv)

LEMMA ApartInit == Init /\ KeptApart => ApartInv
  BY JournalInit, PairInit, LockInit DEF KeptApart, ApartInv

LEMMA ApartStep == ApartInv /\ [Next]_vars => ApartInv'
<1> SUFFICES ASSUME ApartInv, [Next]_vars PROVE ApartInv'
  OBVIOUS
<1>1. JournalInv /\ PairInv /\ JournalInv'
  BY JournalStep DEF ApartInv
<1>2. CASE OneRuntime
  <2>1. Excluded
    BY <1>2 DEF OneRuntime, Excluded
  <2> QED BY <1>1, <1>2, <2>1, PairStep DEF ApartInv
<1>3. CASE MaxCrashes = 0 /\ platform \notin Pausing /\ LockInv
  BY <1>1, <1>3, LockExcludes, PairStep, LockStep DEF ApartInv
<1> QED BY <1>2, <1>3 DEF ApartInv

(* Where one runtime uses the journal, which may die and come back anywhere, *)
(* or any number of them of which none dies or sleeps, the files implement   *)
(* the journal on every platform, whatever file operations fail: recovery    *)
(* (recoverStateReplacement) finds what an interrupted replaceStateFile left. *)
THEOREM ApartFilesAreTheJournal == JournalFileSpec /\ KeptApart => JournalSpec
<1>1. Init => Journal!Init
  BY DEF Init, Journal!Init, Content, Journal!Empty, Journal!Absent
<1>2. ApartInv /\ [Next]_vars => [Journal!Next]_(Journal!vars)
  BY PairStepIsUpdate DEF ApartInv
<1> QED
  BY <1>1, <1>2, ApartInit, ApartStep, PTL DEF JournalFileSpec, JournalSpec, Journal!Spec

(* What recovery refuses for good is the removal of a submission, beside the *)
(* journal that still has it: on POSIX, where a rename needs no backup, for  *)
(* any runtimes, elsewhere where the lock keeps them apart.                  *)
THEOREM RefusesOnlyRemovals ==
  JournalFileSpec /\ (platform = "posix" \/ KeptApart) => []RefusedOnlyAfterRemoval
<1>1. Init /\ platform = "posix" => JournalInv /\ PosixInv
  BY JournalInit DEF Init, PosixInv, Apart
<1>2. JournalInv /\ PosixInv /\ [Next]_vars => (JournalInv /\ PosixInv)'
  <2> SUFFICES ASSUME JournalInv, PosixInv, [Next]_vars PROVE (JournalInv /\ PosixInv)'
    OBVIOUS
  <2>1. Still => PosixInv'
    BY DEF Still, files, PosixInv
  <2> QED BY <2>1, JournalStep, PosixKept, StillOrStep
<1>3. PosixInv => RefusedOnlyAfterRemoval
  BY DEF PosixInv, RefusedOnlyAfterRemoval
<1>4. ApartInv => RefusedOnlyAfterRemoval
  BY RefusedWasRemoved DEF ApartInv, JournalInv, PairInv
<1> DEFINE I == ApartInv \/ (JournalInv /\ PosixInv)
<1>5. Init /\ (platform = "posix" \/ KeptApart) => I
  BY <1>1, ApartInit
<1>6. I /\ [Next]_vars => I'
  BY <1>2, ApartStep
<1>7. I => RefusedOnlyAfterRemoval
  BY <1>3, <1>4
<1> HIDE DEF I
<1> QED BY <1>5, <1>6, <1>7, PTL DEF JournalFileSpec

=============================================================================
