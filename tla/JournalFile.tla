---------------------------- MODULE JournalFile -----------------------------
(***************************************************************************)
(* canvas-agent/src/dreamina-cli-state.ts: the journal file that several   *)
(* local runtimes share.  An update takes the lock directory, recovers     *)
(* what an interrupted owner left, reads, writes a temporary file and      *)
(* renames it over the journal.  Each awaited file operation is a step, so *)
(* other runtimes, a crash or a pause of minutes fall between any two.     *)
(*                                                                         *)
(* A lock directory is the nonce of its lease (0: no lease written yet)    *)
(* and whether the lease was refreshed within LOCK_STALE_MS.               *)
(***************************************************************************)
EXTENDS Naturals, FiniteSets

CONSTANTS
  Procs,       \* runtimes that open the same journal
  Keys,        \* operations with a record in it
  NoFile,      \* a file that does not exist
  NoDir,       \* a directory that does not exist
  Platforms,   \* the rename behaviours of the run: "posix", "windows"
  Pausing,     \* platforms on which a live owner may sleep past its lease
  MaxTurns,    \* bound: locks taken
  MaxCrashes,  \* bound: processes that die
  MaxFaults    \* bound: file operations that fail

ASSUME JournalConstants ==
  /\ Platforms \subseteq {"posix", "windows"}
  /\ Pausing \subseteq Platforms
  /\ {MaxTurns, MaxCrashes, MaxFaults} \subseteq Nat

VARIABLES
  platform,  \* chosen once
  lock,      \* the directory at stateFile.lock
  primary,   \* stateFile
  backup,    \* stateFile.replace-backup
  temps,     \* the temporary file of each turn
  pc,        \* the next file operation of each process
  turn,      \* its nonce: the number of its turn with the lock
  stopped,   \* its heartbeat saw another lease
  seen,      \* the nonce of the stale lease it takes over
  moved,     \* the lock directory it has renamed away
  payload,   \* what it is about to write
  todo,      \* temporaries it found and will remove
  turns, crashes, faults,   \* counters of the bounds
  applied, acked            \* history: updates installed, updates acknowledged

files == <<primary, backup, temps>>
local == <<turn, stopped, seen, payload, todo>>
count == <<turns, crashes, faults>>
hist  == <<applied, acked>>
vars  == <<platform, lock, files, pc, local, moved, count, hist>>

\* The journal is the file, or the backup while there is no file.
Content == IF primary # NoFile THEN primary
           ELSE IF backup # NoFile THEN backup
           ELSE [k \in Keys |-> [stage |-> "absent", turn |-> 0]]

Journal == INSTANCE AtomicJournal WITH Turns <- 1..MaxTurns, journal <- Content

Turn  == 0..MaxTurns
File  == [Keys -> Journal!Record]
Dir   == [nonce : Turn, stale : BOOLEAN]

\* What does not exist is no journal and no lock.
ASSUME Missing == NoFile \notin File /\ NoDir \notin Dir

Steps == {"idle", "mkdir", "lease", "clear_retry", "clear_fail", "takeover", "inspect",
          "recover", "restore", "drop_backup", "scan", "scavenge", "read", "assign",
          "write", "check", "replace", "set_aside", "install", "drop_old", "put_back",
          "confirm", "release", "unlink", "verify"}

\* Steps of a process that has written its lease and not yet let go of it.
Holding == Steps \ {"idle", "mkdir", "lease", "clear_retry", "clear_fail", "takeover",
                    "inspect", "verify"}

(* The runtimes' file system, lock directory and bookkeeping have their types. *)
JournalTypeOK ==
  /\ platform \in Platforms
  /\ lock \in Dir \cup {NoDir}
  /\ {primary, backup} \subseteq File \cup {NoFile}
  /\ temps \in [1..MaxTurns -> File \cup {NoFile}]
  /\ pc \in [Procs -> Steps]
  /\ turn \in [Procs -> Turn]
  /\ stopped \in [Procs -> BOOLEAN]
  /\ seen \in [Procs -> Turn]
  /\ moved \in [Procs -> Dir \cup {NoDir}]
  /\ payload \in [Procs -> File \cup {NoFile}]
  /\ todo \in [Procs -> SUBSET (1..MaxTurns)]
  /\ turns \in Turn /\ crashes \in 0..MaxCrashes /\ faults \in 0..MaxFaults
  /\ acked \subseteq applied /\ applied \subseteq 1..MaxTurns

Init ==
  /\ platform \in Platforms
  /\ lock = NoDir /\ primary = NoFile /\ backup = NoFile
  /\ temps = [n \in 1..MaxTurns |-> NoFile]
  /\ pc = [p \in Procs |-> "idle"]
  /\ turn = [p \in Procs |-> 0] /\ seen = [p \in Procs |-> 0]
  /\ stopped = [p \in Procs |-> FALSE]
  /\ moved = [p \in Procs |-> NoDir]
  /\ payload = [p \in Procs |-> NoFile]
  /\ todo = [p \in Procs |-> {}]
  /\ turns = 0 /\ crashes = 0 /\ faults = 0
  /\ applied = {} /\ acked = {}

Goto(p, step) == pc' = [pc EXCEPT ![p] = step]
At(p, step)   == pc[p] = step
Fault         == faults < MaxFaults /\ faults' = faults + 1
NoFault       == UNCHANGED faults

\* Ends the operation of p, which forgets everything it knew.
Finish(p) ==
  /\ Goto(p, "idle")
  /\ turn' = [turn EXCEPT ![p] = 0] /\ seen' = [seen EXCEPT ![p] = 0]
  /\ stopped' = [stopped EXCEPT ![p] = FALSE]
  /\ payload' = [payload EXCEPT ![p] = NoFile]
  /\ todo' = [todo EXCEPT ![p] = {}]

(***************************************************************************)
(* acquireStateLock and takeoverStaleLease.                                *)
(***************************************************************************)
Start(p) ==
  /\ At(p, "idle") /\ Goto(p, "mkdir")
  /\ UNCHANGED <<platform, lock, files, local, moved, count, hist>>

MakeLock(p) ==
  /\ At(p, "mkdir") /\ lock = NoDir /\ turns < MaxTurns
  /\ lock' = [nonce |-> 0, stale |-> FALSE]
  /\ turns' = turns + 1
  /\ turn' = [turn EXCEPT ![p] = turns + 1]
  /\ Goto(p, "lease")
  /\ UNCHANGED <<platform, files, stopped, seen, payload, todo, moved, crashes, faults, hist>>

\* The directory exists: a stale one is taken over, a fresh one waited for
\* until the deadline.
Observe(p) ==
  /\ At(p, "mkdir") /\ lock # NoDir
  /\ IF lock.stale
     THEN /\ seen' = [seen EXCEPT ![p] = lock.nonce]
          /\ Goto(p, "takeover")
          /\ UNCHANGED <<turn, stopped, payload, todo>>
     ELSE Finish(p)
  /\ UNCHANGED <<platform, lock, files, moved, count, hist>>

\* The lease is created only if there is none; on any error the directory at
\* that path is removed, whoever made it, and "exists" means try again.
WriteLease(p) ==
  /\ At(p, "lease")
  /\ \/ /\ lock # NoDir /\ lock.nonce = 0 /\ NoFault
        /\ lock' = [nonce |-> turn[p], stale |-> FALSE]
        /\ Goto(p, "recover")
     \/ /\ lock # NoDir /\ lock.nonce # 0 /\ NoFault
        /\ Goto(p, "clear_retry") /\ UNCHANGED lock
     \/ /\ lock = NoDir /\ NoFault
        /\ Goto(p, "clear_fail") /\ UNCHANGED lock
     \/ Fault /\ Goto(p, "clear_fail") /\ UNCHANGED lock
  /\ UNCHANGED <<platform, files, local, moved, turns, crashes, hist>>

ClearLock(p) ==
  /\ pc[p] \in {"clear_retry", "clear_fail"}
  /\ lock' = NoDir
  /\ IF At(p, "clear_retry")
     THEN /\ Goto(p, "mkdir") /\ turn' = [turn EXCEPT ![p] = 0]
          /\ UNCHANGED <<stopped, seen, payload, todo>>
     ELSE Finish(p)
  /\ UNCHANGED <<platform, files, moved, count, hist>>

RenameAway(p) ==
  /\ At(p, "takeover")
  /\ lock' = NoDir
  /\ IF lock = NoDir THEN Goto(p, "mkdir") /\ UNCHANGED moved
     ELSE Goto(p, "inspect") /\ moved' = [moved EXCEPT ![p] = lock]
  /\ UNCHANGED <<platform, files, local, count, hist>>

\* POSIX lets a directory be renamed over an empty one.
RenamesBack ==
  \/ lock = NoDir
  \/ platform = "posix" /\ lock.nonce = 0

\* What was renamed is checked again; a lease that is another or was refreshed
\* is put back.
InspectMoved(p) ==
  /\ At(p, "inspect")
  /\ moved' = [moved EXCEPT ![p] = NoDir]
  /\ IF moved[p].nonce = seen[p] /\ moved[p].stale
     THEN Goto(p, "mkdir") /\ UNCHANGED <<lock, local>>
     ELSE IF RenamesBack
     THEN lock' = moved[p] /\ Goto(p, "mkdir") /\ UNCHANGED local
     ELSE UNCHANGED lock /\ Finish(p)
  /\ UNCHANGED <<platform, files, count, hist>>

(***************************************************************************)
(* createLease: assertOwned, the heartbeat and the release.                *)
(***************************************************************************)
Owned(p) == ~stopped[p] /\ lock # NoDir /\ lock.nonce = turn[p]

Heartbeat(p) ==
  /\ pc[p] \in Holding /\ ~stopped[p]
  /\ IF Owned(p) THEN lock' = [lock EXCEPT !.stale = FALSE] /\ UNCHANGED stopped
     ELSE stopped' = [stopped EXCEPT ![p] = TRUE] /\ UNCHANGED lock
  /\ UNCHANGED <<platform, files, pc, turn, seen, payload, todo, moved, count, hist>>

Release(p) ==
  /\ At(p, "release")
  /\ IF lock # NoDir /\ lock.nonce = turn[p]
     THEN Goto(p, "unlink") /\ UNCHANGED local
     ELSE Finish(p)
  /\ UNCHANGED <<platform, lock, files, moved, count, hist>>

Unlink(p) ==
  /\ At(p, "unlink")
  /\ lock' = NoDir
  /\ IF lock = NoDir THEN Finish(p) /\ UNCHANGED moved
     ELSE /\ Goto(p, "verify") /\ moved' = [moved EXCEPT ![p] = lock]
          /\ UNCHANGED local
  /\ UNCHANGED <<platform, files, count, hist>>

VerifyReleased(p) ==
  /\ At(p, "verify")
  /\ moved' = [moved EXCEPT ![p] = NoDir]
  /\ IF moved[p].nonce # turn[p] /\ RenamesBack THEN lock' = moved[p] ELSE UNCHANGED lock
  /\ Finish(p)
  /\ UNCHANGED <<platform, files, count, hist>>

\* A live owner that does not sleep refreshes its lease every LOCK_REFRESH_MS,
\* and is done long before LOCK_STALE_MS with a directory that has no lease.
InUse(d) ==
  \E p \in Procs : \/ pc[p] \in Holding /\ turn[p] = d.nonce
                   \/ pc[p] \in {"lease", "clear_fail"} /\ d.nonce = 0

LockAges ==
  /\ lock # NoDir /\ ~lock.stale
  /\ platform \in Pausing \/ ~InUse(lock)
  /\ lock' = [lock EXCEPT !.stale = TRUE]
  /\ UNCHANGED <<platform, files, pc, local, moved, count, hist>>

(***************************************************************************)
(* recoverStateReplacement.  A first pass reads the journal and builds the *)
(* update, a second one, inside persistRuntimeDiskState, precedes writing. *)
(***************************************************************************)
\* assertRecordProgression: a record that is there does not go back.
Onward(old, new) ==
  old = new \/ old.stage = "absent" \/ new.stage \in Journal!NextStages[old.stage]

\* assertProgression: every record is still there and none went back.
Progresses(old, new) ==
  \A k \in Keys : /\ Onward(old[k], new[k])
                  /\ new[k].stage = "absent" => old[k].stage = "absent"

\* An error before the renames: the temporary file goes, the lock is released.
Abandon(p) ==
  /\ temps' = IF turn[p] = 0 THEN temps ELSE [temps EXCEPT ![turn[p]] = NoFile]
  /\ Goto(p, "release")

RecoverVariant(p) ==   \* a missing journal beside a backup is a new journal
  /\ At(p, "recover")
  /\ Goto(p, IF Owned(p) THEN "scan" ELSE "release")
  /\ UNCHANGED <<platform, lock, files, local, moved, count, hist>>

Recover(p) ==
  /\ At(p, "recover")
  /\ IF ~Owned(p) THEN Abandon(p)
     ELSE /\ UNCHANGED temps
          /\ \/ backup = NoFile /\ Goto(p, "scan")
             \/ backup # NoFile /\ primary = NoFile /\ Goto(p, "restore")
             \/ /\ backup # NoFile /\ primary # NoFile
                /\ Goto(p, IF Progresses(backup, primary) THEN "drop_backup" ELSE "release")
  /\ UNCHANGED <<platform, lock, primary, backup, local, moved, count, hist>>

RestoreBackup(p) ==
  /\ At(p, "restore")
  /\ \/ /\ Owned(p) /\ backup # NoFile /\ NoFault
        /\ primary' = backup /\ backup' = NoFile
        /\ Goto(p, "scan") /\ UNCHANGED temps
     \/ /\ ~Owned(p) \/ backup = NoFile
        /\ Abandon(p) /\ NoFault /\ UNCHANGED <<primary, backup>>
     \/ Fault /\ Abandon(p) /\ UNCHANGED <<primary, backup>>
  /\ UNCHANGED <<platform, lock, local, moved, turns, crashes, hist>>

DropBackup(p) ==
  /\ At(p, "drop_backup")
  /\ \/ Owned(p) /\ NoFault /\ backup' = NoFile /\ Goto(p, "scan") /\ UNCHANGED temps
     \/ ~Owned(p) /\ NoFault /\ Abandon(p) /\ UNCHANGED backup
     \/ Fault /\ Abandon(p) /\ UNCHANGED backup
  /\ UNCHANGED <<platform, lock, primary, local, moved, turns, crashes, hist>>

ScanTemporariesVariant(p) ==   \* the temporaries of others are left alone
  /\ At(p, "scan") /\ Goto(p, "scavenge")
  /\ UNCHANGED <<platform, lock, files, local, moved, count, hist>>

ScanTemporaries(p) ==
  /\ At(p, "scan")
  /\ todo' = [todo EXCEPT ![p] = {n \in 1..MaxTurns : temps[n] # NoFile}]
  /\ Goto(p, "scavenge")
  /\ UNCHANGED <<platform, lock, files, turn, stopped, seen, payload, moved, count, hist>>

Scavenge(p) ==
  /\ At(p, "scavenge")
  /\ \/ /\ todo[p] = {} /\ NoFault
        /\ Goto(p, IF payload[p] = NoFile THEN "read" ELSE "assign")
        /\ UNCHANGED <<temps, todo>>
     \/ /\ todo[p] # {} /\ Owned(p) /\ NoFault
        /\ \E n \in todo[p] : /\ temps' = [temps EXCEPT ![n] = NoFile]
                              /\ todo' = [todo EXCEPT ![p] = @ \ {n}]
        /\ UNCHANGED pc
     \/ todo[p] # {} /\ ~Owned(p) /\ NoFault /\ Abandon(p) /\ UNCHANGED todo
     \/ todo[p] # {} /\ Fault /\ Abandon(p) /\ UNCHANGED todo
  /\ UNCHANGED <<platform, lock, primary, backup, turn, stopped, seen, payload, moved,
                 turns, crashes, hist>>

\* The owner reads and decides on an update, or on none.
Read(p) ==
  /\ At(p, "read")
  /\ LET base == IF primary = NoFile THEN Journal!Empty ELSE primary IN
     \/ /\ Owned(p) /\ \E new \in Journal!Updates(base, turn[p]) :
                          payload' = [payload EXCEPT ![p] = new]
        /\ Goto(p, "recover") /\ UNCHANGED temps
     \/ Abandon(p) /\ UNCHANGED payload
  /\ UNCHANGED <<platform, lock, primary, backup, turn, stopped, seen, todo, moved, count, hist>>

(***************************************************************************)
(* persistRuntimeDiskState: assignJournalVersions refuses a payload that   *)
(* does not continue what is on disk; only a pending record may be gone.   *)
(***************************************************************************)
Continues(old, new) == \A k \in Keys : Onward(old[k], new[k])

AssignVersions(p) ==
  /\ At(p, "assign")
  /\ LET base == IF primary = NoFile THEN Journal!Empty ELSE primary IN
     IF Continues(base, payload[p]) THEN Goto(p, "write") /\ UNCHANGED temps ELSE Abandon(p)
  /\ UNCHANGED <<platform, lock, primary, backup, local, moved, count, hist>>

WriteTemporary(p) ==
  /\ At(p, "write")
  /\ \/ /\ NoFault /\ temps' = [temps EXCEPT ![turn[p]] = payload[p]]
        /\ Goto(p, "check")
     \/ Fault /\ Abandon(p)
  /\ UNCHANGED <<platform, lock, primary, backup, local, moved, turns, crashes, hist>>

CheckOwned(p) ==
  /\ At(p, "check")
  /\ IF Owned(p) THEN Goto(p, "replace") /\ UNCHANGED temps ELSE Abandon(p)
  /\ UNCHANGED <<platform, lock, primary, backup, local, moved, count, hist>>

\* The rename of the temporary file onto the journal.
Install(p, next) ==
  /\ temps[turn[p]] # NoFile
  /\ primary' = temps[turn[p]]
  /\ temps' = [temps EXCEPT ![turn[p]] = NoFile]
  /\ applied' = applied \cup {turn[p]}
  /\ Goto(p, next)

\* replaceStateFile.  On Windows a rename over an existing file may be denied.
Replace(p) ==
  /\ At(p, "replace")
  /\ \/ Install(p, "confirm")
     \/ /\ temps[turn[p]] = NoFile
        /\ Abandon(p) /\ UNCHANGED <<primary, applied>>
     \/ /\ platform = "windows" /\ primary # NoFile
        /\ IF Owned(p) /\ backup = NoFile THEN Goto(p, "set_aside") /\ UNCHANGED temps
           ELSE Abandon(p)
        /\ UNCHANGED <<primary, applied>>
  /\ UNCHANGED <<platform, lock, backup, local, moved, count, acked>>

SetAside(p) ==
  /\ At(p, "set_aside")
  /\ \/ /\ primary # NoFile /\ NoFault
        /\ backup' = primary /\ primary' = NoFile
        /\ Goto(p, "install")
     \/ primary = NoFile /\ NoFault /\ Goto(p, "put_back") /\ UNCHANGED <<primary, backup>>
     \/ Fault /\ Goto(p, "put_back") /\ UNCHANGED <<primary, backup>>
  /\ UNCHANGED <<platform, lock, temps, local, moved, turns, crashes, hist>>

InstallBesideBackup(p) ==
  /\ At(p, "install")
  /\ \/ Owned(p) /\ NoFault /\ Install(p, "drop_old")
     \/ /\ ~Owned(p) \/ temps[turn[p]] = NoFile
        /\ NoFault /\ Goto(p, "put_back") /\ UNCHANGED <<primary, temps, applied>>
     \/ Fault /\ Goto(p, "put_back") /\ UNCHANGED <<primary, temps, applied>>
  /\ UNCHANGED <<platform, lock, backup, local, moved, turns, crashes, acked>>

DropOld(p) ==
  /\ At(p, "drop_old")
  /\ \/ Owned(p) /\ NoFault /\ backup' = NoFile /\ Goto(p, "confirm")
     \/ ~Owned(p) /\ NoFault /\ Goto(p, "put_back") /\ UNCHANGED backup
     \/ Fault /\ Goto(p, "put_back") /\ UNCHANGED backup
  /\ UNCHANGED <<platform, lock, primary, temps, local, moved, turns, crashes, hist>>

PutBackVariant(p) ==   \* the error that led here is swallowed
  /\ At(p, "put_back") /\ Goto(p, "confirm")
  /\ UNCHANGED <<platform, lock, files, local, moved, count, hist>>

\* restoreBackup: what cannot be put back is left to the next owner.
PutBack(p) ==
  /\ At(p, "put_back")
  /\ \/ /\ Owned(p) /\ primary = NoFile /\ backup # NoFile /\ NoFault
        /\ primary' = backup /\ backup' = NoFile
     \/ ~Owned(p) /\ NoFault /\ UNCHANGED <<primary, backup>>
     \/ primary # NoFile /\ NoFault /\ UNCHANGED <<primary, backup>>
     \/ Fault /\ UNCHANGED <<primary, backup>>
  /\ Abandon(p)
  /\ UNCHANGED <<platform, lock, local, moved, turns, crashes, hist>>

Confirm(p) ==
  /\ At(p, "confirm")
  /\ acked' = IF Owned(p) THEN acked \cup {turn[p]} ELSE acked
  /\ Goto(p, "release")
  /\ UNCHANGED <<platform, lock, files, local, moved, count, applied>>

(***************************************************************************)
(* A process dies: its files and its lock directory stay.                  *)
(***************************************************************************)
Crash(p) ==
  /\ ~At(p, "idle") /\ crashes < MaxCrashes
  /\ crashes' = crashes + 1
  /\ moved' = [moved EXCEPT ![p] = NoDir]
  /\ Finish(p)
  /\ UNCHANGED <<platform, lock, files, turns, faults, hist>>

Locking(p) ==
  \/ Start(p) \/ MakeLock(p) \/ Observe(p) \/ WriteLease(p) \/ ClearLock(p)
  \/ RenameAway(p) \/ InspectMoved(p) \/ Release(p) \/ Unlink(p) \/ VerifyReleased(p)

Updating(p) ==
  \/ Recover(p) \/ RestoreBackup(p) \/ DropBackup(p) \/ ScanTemporaries(p) \/ Scavenge(p)
  \/ Read(p) \/ AssignVersions(p) \/ WriteTemporary(p) \/ CheckOwned(p) \/ Replace(p)
  \/ SetAside(p) \/ InstallBesideBackup(p) \/ DropOld(p) \/ PutBack(p) \/ Confirm(p)

Next ==
  \/ \E p \in Procs : Locking(p) \/ Updating(p) \/ Heartbeat(p) \/ Crash(p)
  \/ LockAges

JournalFileSpec == Init /\ [][Next]_vars

-----------------------------------------------------------------------------
(* Whatever crashes, pauses, failed operations and take-overs come between  *)
(* the renames, the file is the journal: an update takes effect at once, at *)
(* most once and on top of everything applied before it, and it has taken   *)
(* effect when its caller is told so (persistRuntimeDiskState).             *)
JournalSpec == Journal!Spec

(* A backup and a journal that recovery refuses differ in one removed       *)
(* submission and in nothing else: only removablePreSpawnIntent lets an     *)
(* update through that assertProgression does not know.                     *)
RefusedOnlyAfterRemoval ==
  (backup # NoFile /\ primary # NoFile /\ ~Progresses(backup, primary)) =>
     \E k \in Keys : /\ backup[k].stage = "pending" /\ primary[k].stage = "absent"
                    /\ \A j \in Keys \ {k} : backup[j] = primary[j]
=============================================================================
