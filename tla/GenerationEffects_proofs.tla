---------------------- MODULE GenerationEffects_proofs ----------------------
(***************************************************************************)
(* Proofs about GenerationEffects for any pages, consumers, accounts and   *)
(* bounds.  The invariant says what an action relies on that was true some *)
(* steps before: the lease a page keeps for the agent's record is the one  *)
(* of the consumer that works under it, and what a consumer read of the    *)
(* stored assets is still there when it writes them.  The last two parts   *)
(* follow a task from its output to what waits for it.                     *)
(***************************************************************************)
EXTENDS GenerationEffects, TLAPS

HomesApart ==
  authority = "agent" /\ ~Twins => \A r, s \in Runs : home[r] = home[s] => r = s

LeaseKept ==
  authority = "agent" /\ ~Twins =>
    \A r \in Runs : Works(r) => lease[home[r]][run[r].kind] = run[r].fence

ReadStands ==
  \A r \in Runs : At(r, "persist") =>
    storage[run[r].into] = r /\ asset[run[r].into] = run[r].saw

IInv == EffectTypeOK /\ HomesApart /\ LeaseKept /\ ReadStands

-----------------------------------------------------------------------------
(***************************************************************************)
(* Types.  First what the parts of the actions do to what a consumer is    *)
(* doing, to the records, the leases and the locks.                        *)
(***************************************************************************)
Typed == run \in [Runs -> RunType] /\ Owner \in Accounts /\ MaxFence \in Nat

LEMMA IdleType == Owner \in Accounts /\ MaxFence \in Nat => Idle \in RunType
<1> SUFFICES ASSUME Owner \in Accounts, MaxFence \in Nat PROVE Idle \in RunType
  OBVIOUS
<1>1. 0 \in 0..MaxFence
  OBVIOUS
<1> QED
  BY <1>1 DEF Idle, RunType, Steps, Kinds

LEMMA FieldTypes ==
  ASSUME NEW x \in RunType
  PROVE  /\ x.kind \in Kinds /\ x.scope \in Accounts \cup {Local} /\ x.fence \in 0..MaxFence
         /\ x.into \in Accounts /\ x.aborted \in BOOLEAN /\ x.pc \in Steps
  BY DEF RunType

LEMMA SetPc == ASSUME Typed, NEW r \in Runs, NEW p \in Steps, Goto(r, p)
  PROVE run' \in [Runs -> RunType]
<1>1. [run[r] EXCEPT !.pc = p] \in RunType
  BY DEF RunType, Typed
<1> QED
  BY <1>1 DEF Typed, Goto

LEMMA SetIdle == ASSUME Typed, NEW r \in Runs, End(r)
  PROVE run' \in [Runs -> RunType]
  BY IdleType DEF Typed, End

LEMMA SetDropped == ASSUME Typed, NEW r \in Runs, Drop(r)
  PROVE run' \in [Runs -> RunType]
<1>1. Dropped(run[r]) \in RunType
  BY DEF RunType, Typed, Steps, Dropped
<1> QED
  BY <1>1 DEF Typed, Drop

\* A consumer that starts is at the first effect, and nothing else changes.
LEMMA StartMoves ==
  ASSUME Typed, NEW r \in Runs, consumer \in {"attach", "resume"}, Start(r)
  PROVE  /\ run' \in [Runs -> RunType]
         /\ \A s \in Runs : s # r => run'[s] = run[s]
         /\ run[r].pc = "idle" /\ run'[r].pc = "claim" /\ run'[r].kind = First
         /\ run'[r].beat = run[r].beat
<1> DEFINE x == [run[r] EXCEPT !.pc = "claim", !.kind = First]
<1>1. run' = [run EXCEPT ![r] = x] /\ run[r] \in RunType /\ run[r].pc = "idle"
  BY DEF Start, Typed, At
<1>2. First \in Kinds
  BY DEF First, Kinds
<1>3. x \in RunType /\ x.pc = "claim" /\ x.kind = First /\ x.beat = run[r].beat
  BY <1>1, <1>2 DEF RunType, Steps
<1> HIDE DEF x
<1> QED
  BY <1>1, <1>3 DEF Typed

LEMMA SetNextKind == ASSUME Typed, NEW r \in Runs, consumer \in {"attach", "resume"}, Advance(r)
  PROVE run' \in [Runs -> RunType]
<1>1. run[r].aborted \in BOOLEAN /\ Idle \in RunType
  BY IdleType, FieldTypes DEF Typed
<1>2. [Idle EXCEPT !.pc = "claim", !.kind = consumer, !.aborted = run[r].aborted] \in RunType
  BY <1>1 DEF RunType, Steps, Kinds
<1> QED
  BY <1>1, <1>2 DEF Typed, Advance

LEMMA SetBeat == ASSUME NEW x \in RunType, NEW b \in {"off", "on", "failed"}
  PROVE [x EXCEPT !.beat = b] \in RunType
  BY DEF RunType

LEMMA SetAborted == ASSUME NEW x \in RunType
  PROVE [x EXCEPT !.aborted = TRUE] \in RunType
  BY DEF RunType

LEMMA SetClaim == ASSUME NEW x \in RunType, NEW p \in Steps,
                         NEW s \in Accounts \cup {Local}, NEW n \in 0..MaxFence
  PROVE [x EXCEPT !.pc = p, !.scope = s, !.fence = n] \in RunType
  BY DEF RunType

LEMMA SetPcBeat == ASSUME NEW x \in RunType, NEW p \in Steps, NEW b \in {"off", "on", "failed"}
  PROVE [x EXCEPT !.pc = p, !.beat = b] \in RunType
  BY DEF RunType

LEMMA SetInto == ASSUME NEW x \in RunType, NEW p \in Steps, NEW a \in Accounts
  PROVE [x EXCEPT !.pc = p, !.into = a] \in RunType
  BY DEF RunType

LEMMA SetSaw == ASSUME NEW x \in RunType, NEW p \in Steps, NEW s \in {"none", "stored", "deleted"}
  PROVE [x EXCEPT !.pc = p, !.saw = s] \in RunType
  BY DEF RunType

LEMMA SetStored == ASSUME NEW x \in RunType, Owner \in Accounts
  PROVE [x EXCEPT !.pc = "finish", !.into = Owner, !.saw = "none"] \in RunType
  BY DEF RunType, Steps

LEMMA RecordType ==
  ASSUME effect \in [Effects -> Records], NEW e, NEW s \in States, Record(e, s)
  PROVE  effect' \in [Effects -> Records]
  BY DEF Record, Records

LEMMA ForgetType ==
  ASSUME lease \in [Pages -> [Kinds -> 0..MaxFence]], MaxFence \in Nat, NEW r, Forget(r)
  PROVE  lease' \in [Pages -> [Kinds -> 0..MaxFence]]
<1>1. 0 \in 0..MaxFence
  OBVIOUS
<1> QED
  BY <1>1 DEF Forget

LEMMA UnlockType ==
  ASSUME {artifact, storage} \subseteq [Accounts -> Runs \cup {NoRun}], NEW r, Unlock(r)
  PROVE  {artifact, storage}' \subseteq [Accounts -> Runs \cup {NoRun}]
  BY DEF Unlock

LEMMA GrantType ==
  ASSUME effect \in [Effects -> Records], MaxFence \in Nat, NEW e \in Effects, Grant(e)
  PROVE  effect' \in [Effects -> Records] /\ effect[e].fence + 1 \in 0..MaxFence
<1>1. effect[e].fence + 1 \in 0..MaxFence
  BY DEF Grant, Records
<1>2. [state |-> "pending", fence |-> effect[e].fence + 1, live |-> TRUE] \in Records
  BY <1>1 DEF Records, States
<1> QED
  BY <1>1, <1>2 DEF Grant

LEMMA HoldType ==
  ASSUME Typed, lease \in [Pages -> [Kinds -> 0..MaxFence]], NEW r \in Runs, NEW e \in Effects,
         e[1] \in Accounts \cup {Local}, NEW n \in 0..MaxFence, Hold(r, e, n)
  PROVE  run' \in [Runs -> RunType] /\ lease' \in [Pages -> [Kinds -> 0..MaxFence]]
<1>1. [run[r] EXCEPT !.pc = "claimed", !.scope = e[1], !.fence = n] \in RunType
  BY SetClaim DEF Steps, Typed
<1>2. run' \in [Runs -> RunType]
  BY <1>1 DEF Typed, Hold
<1>3. lease' \in [Pages -> [Kinds -> 0..MaxFence]]
  BY DEF Hold
<1> QED
  BY <1>2, <1>3

LEMMA InitType == Init => EffectTypeOK
<1> SUFFICES ASSUME Init PROVE EffectTypeOK
  OBVIOUS
<1>1. Idle \in RunType
  BY EffectConstants, IdleType
<1> QED
  BY <1>1, EffectConstants DEF Init, EffectTypeOK, Records, States, Effects, Kinds

LEMMA StepType == EffectTypeOK /\ [Next]_vars => EffectTypeOK'
<1> SUFFICES ASSUME EffectTypeOK, [Next]_vars PROVE EffectTypeOK'
  OBVIOUS
<1>t. /\ Typed /\ effect \in [Effects -> Records]
      /\ lease \in [Pages -> [Kinds -> 0..MaxFence]] /\ home \in [Runs -> Pages]
      /\ active \in Accounts /\ asset \in [Accounts -> {"none", "stored", "deleted"}]
      /\ consumer \in {"attach", "resume"} /\ outputs \in BOOLEAN /\ consumed \in Nat
      /\ MaxTroubles \in Nat /\ troubles \in 0..MaxTroubles
      /\ {artifact, storage} \subseteq [Accounts -> Runs \cup {NoRun}]
  BY EffectConstants DEF EffectTypeOK, Typed
<1>r. \A r \in Runs : /\ run[r] \in RunType /\ run[r].into \in Accounts
                      /\ run[r].kind \in Kinds /\ asset[run[r].into] \in {"none", "stored", "deleted"}
  BY <1>t, FieldTypes DEF Typed
<1>d. \A r \in Runs : /\ Drop(r) => run' \in [Runs -> RunType]
                      /\ End(r) => run' \in [Runs -> RunType]
                      /\ Advance(r) => run' \in [Runs -> RunType]
                      /\ \A p \in Steps : Goto(r, p) => run' \in [Runs -> RunType]
  BY <1>t, SetPc, SetIdle, SetDropped, SetNextKind
<1>w. /\ \A e : \A s \in States : Record(e, s) => effect' \in [Effects -> Records]
      /\ \A r : Forget(r) => lease' \in [Pages -> [Kinds -> 0..MaxFence]]
      /\ \A r : Unlock(r) => {artifact, storage}' \subseteq [Accounts -> Runs \cup {NoRun}]
  BY <1>t, RecordType, ForgetType, UnlockType, EffectConstants
<1>p. ASSUME Trouble PROVE troubles' \in 0..MaxTroubles
  BY <1>p, <1>t DEF Trouble
<1>1. ASSUME NEW r \in Runs, Start(r) PROVE EffectTypeOK'
  <2>1. run' \in [Runs -> RunType]
    BY <1>1, <1>t, StartMoves
  <2> QED
    BY <1>1, <1>p, <1>w, <1>t, <2>1 DEF Start, fixed, locks, EffectTypeOK, Calm, States
<1>2. ASSUME NEW r \in Runs, Claim(r) PROVE EffectTypeOK'
  <2> DEFINE e == <<Scope, run[r].kind>>
  <2>1. e \in Effects /\ e[1] \in Accounts \cup {Local}
    BY <1>r, <1>t DEF Scope, Effects
  <2> HIDE DEF e
  <2>2. Grant(e) => /\ effect' \in [Effects -> Records]
                    /\ effect[e].fence + 1 \in 0..MaxFence
    BY <2>1, <1>t, GrantType, EffectConstants
  <2>3. Grant(e) /\ Hold(r, e, effect[e].fence + 1) =>
          run' \in [Runs -> RunType] /\ lease' \in [Pages -> [Kinds -> 0..MaxFence]]
    BY <2>1, <2>2, <1>t, HoldType
  <2>4. /\ run' \in [Runs -> RunType] /\ effect' \in [Effects -> Records]
        /\ lease' \in [Pages -> [Kinds -> 0..MaxFence]] /\ troubles' \in 0..MaxTroubles
    BY <1>2, <2>2, <2>3, <1>t, <1>d, <1>p DEF Claim, Calm, e
  <2> QED
    BY <1>2, <1>t, <2>4 DEF Claim, fixed, locks, EffectTypeOK
<1>3. ASSUME NEW r \in Runs, Claimed(r) PROVE EffectTypeOK'
  <2>0. [run[r] EXCEPT !.pc = "consume", !.beat = "on"] \in RunType
    BY <1>r, <1>t, SetPcBeat DEF Steps, Typed
  <2>1. run' \in [Runs -> RunType]
    BY <1>3, <1>d, <1>t, <2>0 DEF Claimed, Typed, Steps
  <2> QED
    BY <1>3, <1>p, <1>w, <1>t, <2>1 DEF Claimed, fixed, locks, EffectTypeOK, Calm, States
<1>4. ASSUME NEW r \in Runs, RenewFails(r) PROVE EffectTypeOK'
  <2>0. [run[r] EXCEPT !.beat = "failed"] \in RunType
    BY <1>r, <1>t, SetBeat DEF Steps, Typed
  <2>1. run' \in [Runs -> RunType]
    BY <1>4, <1>d, <1>t, <2>0 DEF RenewFails, Typed, Steps
  <2> QED
    BY <1>4, <1>p, <1>w, <1>t, <2>1 DEF RenewFails, fixed, locks, EffectTypeOK, Calm, States
<1>5. ASSUME NEW r \in Runs, Consume(r) PROVE EffectTypeOK'
  <2>0. [run[r] EXCEPT !.pc = "queue", !.into = active] \in RunType
    BY <1>r, <1>t, SetInto DEF Steps, Typed
  <2>1. run' \in [Runs -> RunType]
    BY <1>5, <1>d, <1>t, <2>0 DEF Consume, Typed, Steps
  <2> QED
    BY <1>5, <1>p, <1>w, <1>t, <2>1 DEF Consume, fixed, locks, EffectTypeOK, Calm, States
<1>6. ASSUME NEW r \in Runs, LockArtifact(r) PROVE EffectTypeOK'
  <2>1. run' \in [Runs -> RunType]
    BY <1>6, <1>d, <1>t DEF LockArtifact, Typed, Steps
  <2> QED
    BY <1>6, <1>p, <1>w, <1>t, <2>1 DEF LockArtifact, fixed, locks, EffectTypeOK, Calm, States
<1>7. ASSUME NEW r \in Runs, Download(r) PROVE EffectTypeOK'
  <2>0. [run[r] EXCEPT !.pc = "store", !.into = active] \in RunType
    BY <1>r, <1>t, SetInto DEF Steps, Typed
  <2>1. run' \in [Runs -> RunType]
    BY <1>7, <1>d, <1>t, <2>0 DEF Download, Typed, Steps
  <2> QED
    BY <1>7, <1>p, <1>w, <1>t, <2>1 DEF Download, fixed, locks, EffectTypeOK, Calm, States
<1>8. ASSUME NEW r \in Runs, ReadAssets(r) PROVE EffectTypeOK'
  <2>0. [run[r] EXCEPT !.pc = "persist", !.saw = asset[run[r].into]] \in RunType
    BY <1>r, <1>t, SetSaw DEF Steps, Typed
  <2>1. run' \in [Runs -> RunType]
    BY <1>8, <1>d, <1>t, <2>0 DEF ReadAssets, Typed, Steps
  <2> QED
    BY <1>8, <1>p, <1>w, <1>t, <2>1 DEF ReadAssets, fixed, locks, EffectTypeOK, Calm, States
<1>9. ASSUME NEW r \in Runs, Persist(r) PROVE EffectTypeOK'
  <2>0. [run[r] EXCEPT !.pc = "finish", !.into = Owner, !.saw = "none"] \in RunType
    BY <1>r, <1>t, SetStored DEF Steps, Typed
  <2>1. run' \in [Runs -> RunType]
    BY <1>9, <1>d, <1>t, <2>0 DEF Persist, Typed, Steps
  <2> QED
    BY <1>9, <1>p, <1>w, <1>t, <2>1 DEF Persist, fixed, locks, EffectTypeOK, Calm, States
<1>10. ASSUME NEW r \in Runs, Serve(r) PROVE EffectTypeOK'
  <2>1. run' \in [Runs -> RunType]
    BY <1>10, <1>d, <1>t DEF Serve, Typed, Steps
  <2> QED
    BY <1>10, <1>p, <1>w, <1>t, <2>1 DEF Serve, fixed, locks, EffectTypeOK, Calm, States
<1>11. ASSUME NEW r \in Runs, Finish(r) PROVE EffectTypeOK'
  <2>0. [run[r] EXCEPT !.pc = "complete", !.beat = "off"] \in RunType
    BY <1>r, <1>t, SetPcBeat DEF Steps, Typed
  <2>1. run' \in [Runs -> RunType]
    BY <1>11, <1>d, <1>t, <2>0 DEF Finish, Typed, Steps
  <2> QED
    BY <1>11, <1>p, <1>w, <1>t, <2>1 DEF Finish, fixed, locks, EffectTypeOK, Calm, States
<1>12. ASSUME NEW r \in Runs, Complete(r) PROVE EffectTypeOK'
  <2>1. run' \in [Runs -> RunType]
    BY <1>12, <1>d, <1>t DEF Complete, Typed, Steps
  <2> QED
    BY <1>12, <1>p, <1>w, <1>t, <2>1 DEF Complete, fixed, locks, EffectTypeOK, Calm, States
<1>13. ASSUME NEW r \in Runs, Release(r) PROVE EffectTypeOK'
  <2>1. run' \in [Runs -> RunType]
    BY <1>13, <1>d, <1>t DEF Release, Typed, Steps
  <2> QED
    BY <1>13, <1>p, <1>w, <1>t, <2>1 DEF Release, fixed, locks, EffectTypeOK, Calm, States
<1>14. ASSUME NEW r \in Runs, Abort(r) PROVE EffectTypeOK'
  <2>0. [run[r] EXCEPT !.aborted = TRUE] \in RunType
    BY <1>r, <1>t, SetAborted DEF Steps, Typed
  <2>1. run' \in [Runs -> RunType]
    BY <1>14, <1>d, <1>t, <2>0 DEF Abort, Typed, Steps
  <2> QED
    BY <1>14, <1>p, <1>w, <1>t, <2>1 DEF Abort, fixed, locks, EffectTypeOK, Calm, States
<1>15. ASSUME NEW e \in Effects, Lapse(e) PROVE EffectTypeOK'
  <2>1. [effect[e] EXCEPT !.live = FALSE] \in Records
    BY <1>t DEF Records
  <2> QED
    BY <1>15, <1>p, <1>t, <2>1 DEF Lapse, fixed, locks, EffectTypeOK, Calm
<1>16. ASSUME NEW p \in Pages, Reload(p) PROVE EffectTypeOK'
  <2>1. run' \in [Runs -> RunType]
    BY <1>16, <1>t, IdleType DEF Reload, Typed
  <2>2. lease' \in [Pages -> [Kinds -> 0..MaxFence]]
    BY <1>16, <1>t, EffectConstants DEF Reload
  <2>3. {artifact, storage}' \subseteq [Accounts -> Runs \cup {NoRun}]
    BY <1>16, <1>t DEF Reload, Held
  <2> QED
    BY <1>16, <1>p, <1>t, <2>1, <2>2, <2>3 DEF Reload, fixed, locks, EffectTypeOK
<1>17. ASSUME NEW p \in Pages, PauseConsumers(p) PROVE EffectTypeOK'
  <2>1. run' \in [Runs -> RunType]
    <3>1. \A r \in Runs : [run[r] EXCEPT !.aborted = TRUE] \in RunType
      BY <1>r, SetAborted
    <3> QED
      BY <1>17, <1>t, <1>r, <3>1 DEF PauseConsumers
  <2> QED
    BY <1>17, <1>t, <2>1, EffectConstants DEF PauseConsumers, fixed, locks, EffectTypeOK
<1>18. ASSUME NEW p \in Pages, SwitchScope(p) PROVE EffectTypeOK'
  BY <1>18, <1>t DEF SwitchScope, fixed, locks, EffectTypeOK, Typed
<1>19. ASSUME NEW a \in Accounts, DeleteAsset(a) PROVE EffectTypeOK'
  BY <1>19, <1>t DEF DeleteAsset, fixed, locks, EffectTypeOK, Typed
<1>20. CASE UNCHANGED vars
  BY <1>20 DEF vars, fixed, locks, EffectTypeOK
<1> QED
  BY <1>1, <1>2, <1>3, <1>4, <1>5, <1>6, <1>7, <1>8, <1>9, <1>10, <1>11, <1>12, <1>13, <1>14,
     <1>15, <1>16, <1>17, <1>18, <1>19, <1>20 DEF Next, Work

(* The type invariant of GenerationEffects, for any pages, consumers,       *)
(* accounts and bounds.                                                     *)
THEOREM TypeCorrect == EffectSpec => []EffectTypeOK
  BY InitType, StepType, PTL DEF EffectSpec

-----------------------------------------------------------------------------
(***************************************************************************)
(* What a step does to the claims consumers work under: it keeps them all, *)
(* or some consumers leave, or one works under a new claim.                *)
(***************************************************************************)
Keeps == \A s \in Runs : /\ Works(s)' = Works(s)
                         /\ Works(s) => /\ run'[s].kind = run[s].kind
                                        /\ run'[s].scope = run[s].scope
                                        /\ run'[s].fence = run[s].fence

Leaves(W) == \A s \in Runs : IF s \in W THEN ~Works(s)' ELSE run'[s] = run[s]

LEMMA DropKeeps ==
  ASSUME Typed, NEW r \in Runs, Works(r), Drop(r)
  PROVE  Keeps
<1>1. \A s \in Runs : s # r => run'[s] = run[s]
  BY DEF Drop, Typed
<1>2. run'[r] = Dropped(run[r]) /\ run[r] \in RunType
  BY DEF Drop, Typed
<1>3. run'[r].pc = "release" /\ run'[r].kind = run[r].kind
      /\ run'[r].scope = run[r].scope /\ run'[r].fence = run[r].fence
  BY <1>2 DEF Dropped, RunType
<1> QED
  BY <1>1, <1>3 DEF Keeps, Works

LEMMA GotoKeeps ==
  ASSUME Typed, NEW r \in Runs, NEW p \in Steps, Goto(r, p),
         p \in {"idle", "claim"} <=> run[r].pc \in {"idle", "claim"}
  PROVE  Keeps
<1>1. \A s \in Runs : s # r => run'[s] = run[s]
  BY DEF Goto, Typed
<1>2. run'[r] = [run[r] EXCEPT !.pc = p] /\ run[r] \in RunType
  BY DEF Goto, Typed
<1>3. run'[r].pc = p /\ run'[r].kind = run[r].kind
      /\ run'[r].scope = run[r].scope /\ run'[r].fence = run[r].fence
  BY <1>2 DEF RunType
<1> QED
  BY <1>1, <1>3 DEF Keeps, Works

LEMMA EndLeaves ==
  ASSUME Typed, NEW r \in Runs, End(r)
  PROVE  Leaves({r})
  BY DEF End, Leaves, Works, Idle, Typed

LEMMA AdvanceLeaves ==
  ASSUME Typed, NEW r \in Runs, Advance(r)
  PROVE  Leaves({r})
<1>1. \A s \in Runs : s # r => run'[s] = run[s]
  BY DEF Advance, Typed
<1>2. run'[r].pc \in {"idle", "claim"}
  BY DEF Advance, Typed, Idle
<1> QED
  BY <1>1, <1>2 DEF Leaves, Works

LEMMA UpdateKeeps ==
  ASSUME Typed, NEW r \in Runs, NEW x, run' = [run EXCEPT ![r] = x],
         x.pc \in {"idle", "claim"} <=> run[r].pc \in {"idle", "claim"},
         x.kind = run[r].kind, x.scope = run[r].scope, x.fence = run[r].fence
  PROVE  Keeps
  BY DEF Keeps, Works, Typed

ClaimStep ==
  \/ UNCHANGED effect /\ Keeps /\ UNCHANGED lease
  \/ \E r \in Runs : UNCHANGED effect /\ Leaves({r}) /\ UNCHANGED lease
  \/ \E r \in Runs, e \in Effects :
       /\ ~Works(r) /\ Grant(e) /\ e = <<Scope, run[r].kind>>
       /\ \/ Hold(r, e, effect[e].fence + 1)
          \/ Keeps /\ UNCHANGED lease
  \/ \E r \in Runs, s \in {"completed", "released"} :
       /\ Works(r) /\ Holds(r) /\ Record(Mine(r), s)
       /\ \/ Keeps /\ UNCHANGED lease
          \/ Leaves({r}) /\ (UNCHANGED lease \/ Forget(r))
  \/ \E e \in Effects : Lapse(e) /\ Keeps /\ UNCHANGED lease
  \/ \E p \in Pages : Reload(p)

LEMMA StepClaims == ASSUME EffectTypeOK, Next PROVE ClaimStep
<1>t. Typed /\ (\A r \in Runs : run[r] \in RunType /\ run[r].kind \in Kinds)
      /\ active \in Accounts /\ consumer \in {"attach", "resume"}
  BY EffectConstants, FieldTypes DEF EffectTypeOK, Typed
<1>k. \A r \in Runs : /\ Works(r) /\ Drop(r) => Keeps
                      /\ \A p \in Steps \ {"idle", "claim"} : Works(r) /\ Goto(r, p) => Keeps
                      /\ End(r) => Leaves({r})
                      /\ Advance(r) => Leaves({r})
  BY <1>t, DropKeeps, GotoKeeps, EndLeaves, AdvanceLeaves DEF Works
<1>l. \A r \in Runs : ~Works(r) /\ Leaves({r}) => Keeps
  BY DEF Leaves, Keeps, Works
<1>u. ASSUME UNCHANGED run PROVE Keeps
  BY <1>u DEF Keeps, Works
<1>1. ASSUME NEW r \in Runs, Start(r) PROVE ClaimStep
  <2>1. Keeps
    BY <1>1, <1>t, StartMoves DEF Keeps, Works
  <2> QED
    BY <1>1, <2>1 DEF Start, ClaimStep
<1>2. ASSUME NEW r \in Runs, Claim(r) PROVE ClaimStep
  <2> DEFINE e == <<Scope, run[r].kind>>
  <2>1. e \in Effects /\ ~Works(r)
    BY <1>2, <1>t DEF Claim, Works, At, Scope, Effects
  <2> HIDE DEF e
  <2>2. CASE Grant(e) /\ Hold(r, e, effect[e].fence + 1)
    BY <2>1, <2>2 DEF e, ClaimStep
  <2>3. CASE Grant(e) /\ End(r) /\ UNCHANGED lease
    BY <2>1, <2>3, <1>k, <1>l DEF e, ClaimStep
  <2>4. CASE (End(r) \/ Advance(r)) /\ UNCHANGED <<effect, lease>>
    BY <2>4, <1>k DEF ClaimStep
  <2> QED
    BY <1>2, <2>2, <2>3, <2>4 DEF Claim, e
<1>3. ASSUME NEW r \in Runs, Claimed(r) PROVE ClaimStep
  <2>1. CASE End(r)
    BY <1>3, <2>1, <1>k DEF Claimed, ClaimStep
  <2>2. CASE run' = [run EXCEPT ![r] = [@ EXCEPT !.pc = "consume", !.beat = "on"]]
    <3> DEFINE x == [run[r] EXCEPT !.pc = "consume", !.beat = "on"]
    <3>1. x.pc = "consume" /\ x.kind = run[r].kind /\ x.scope = run[r].scope /\ x.fence = run[r].fence
      BY <1>t DEF RunType
    <3> HIDE DEF x
    <3>2. Keeps
      BY <1>3, <2>2, <3>1, <1>t, UpdateKeeps DEF x, Claimed, At
    <3> QED
      BY <1>3, <3>2 DEF Claimed, ClaimStep
  <2> QED
    BY <1>3, <2>1, <2>2 DEF Claimed
<1>4. ASSUME NEW r \in Runs, RenewFails(r) PROVE ClaimStep
  <2> DEFINE x == [run[r] EXCEPT !.beat = "failed"]
  <2>1. x.pc = run[r].pc /\ x.kind = run[r].kind /\ x.scope = run[r].scope /\ x.fence = run[r].fence
    BY <1>t DEF RunType
  <2>2. run' = [run EXCEPT ![r] = x]
    BY <1>4 DEF RenewFails
  <2> HIDE DEF x
  <2>3. Keeps
    BY <2>1, <2>2, <1>t, UpdateKeeps
  <2> QED
    BY <1>4, <2>3 DEF RenewFails, ClaimStep
<1>5. ASSUME NEW r \in Runs, Consume(r) PROVE ClaimStep
  <2>w. Works(r)
    BY <1>5 DEF Consume, Works, At
  <2> DEFINE x == [run[r] EXCEPT !.pc = "queue", !.into = active]
  <2>1. /\ x.pc \notin {"idle", "claim"}
        /\ x.kind = run[r].kind /\ x.scope = run[r].scope /\ x.fence = run[r].fence
    BY <1>t, <2>w DEF RunType, Works
  <2> HIDE DEF x
  <2>2. ASSUME run' = [run EXCEPT ![r] = x] PROVE Keeps
    BY <2>1, <2>2, <2>w, <1>t, UpdateKeeps DEF Works
  <2>3. Keeps
    BY <1>5, <1>k, <2>w, <2>2 DEF Consume, Steps, x
  <2> QED
    BY <1>5, <2>3 DEF Consume, ClaimStep
<1>6. ASSUME NEW r \in Runs, LockArtifact(r) PROVE ClaimStep
  <2>w. Works(r)
    BY <1>6 DEF LockArtifact, Works, At
  <2>3. Keeps
    BY <1>6, <1>k, <2>w DEF LockArtifact, Steps
  <2> QED
    BY <1>6, <2>3 DEF LockArtifact, ClaimStep
<1>7. ASSUME NEW r \in Runs, Download(r) PROVE ClaimStep
  <2>w. Works(r)
    BY <1>7 DEF Download, Works, At
  <2> DEFINE x == [run[r] EXCEPT !.pc = "store", !.into = active]
  <2>1. /\ x.pc \notin {"idle", "claim"}
        /\ x.kind = run[r].kind /\ x.scope = run[r].scope /\ x.fence = run[r].fence
    BY <1>t, <2>w DEF RunType, Works
  <2> HIDE DEF x
  <2>2. ASSUME run' = [run EXCEPT ![r] = x] PROVE Keeps
    BY <2>1, <2>2, <2>w, <1>t, UpdateKeeps DEF Works
  <2>3. Keeps
    BY <1>7, <1>k, <2>w, <2>2 DEF Download, Steps, x
  <2> QED
    BY <1>7, <2>3 DEF Download, ClaimStep
<1>8. ASSUME NEW r \in Runs, ReadAssets(r) PROVE ClaimStep
  <2>w. Works(r)
    BY <1>8 DEF ReadAssets, Works, At
  <2> DEFINE x == [run[r] EXCEPT !.pc = "persist", !.saw = asset[run[r].into]]
  <2>1. /\ x.pc \notin {"idle", "claim"}
        /\ x.kind = run[r].kind /\ x.scope = run[r].scope /\ x.fence = run[r].fence
    BY <1>t, <2>w DEF RunType, Works
  <2> HIDE DEF x
  <2>2. ASSUME run' = [run EXCEPT ![r] = x] PROVE Keeps
    BY <2>1, <2>2, <2>w, <1>t, UpdateKeeps DEF Works
  <2>3. Keeps
    BY <1>8, <1>k, <2>w, <2>2 DEF ReadAssets, Steps, x
  <2> QED
    BY <1>8, <2>3 DEF ReadAssets, ClaimStep
<1>9. ASSUME NEW r \in Runs, Persist(r) PROVE ClaimStep
  <2>w. Works(r)
    BY <1>9 DEF Persist, Works, At
  <2> DEFINE x == [run[r] EXCEPT !.pc = "finish", !.into = Owner, !.saw = "none"]
  <2>1. /\ x.pc \notin {"idle", "claim"}
        /\ x.kind = run[r].kind /\ x.scope = run[r].scope /\ x.fence = run[r].fence
    BY <1>t, <2>w DEF RunType, Works
  <2> HIDE DEF x
  <2>2. ASSUME run' = [run EXCEPT ![r] = x] PROVE Keeps
    BY <2>1, <2>2, <2>w, <1>t, UpdateKeeps DEF Works
  <2>3. Keeps
    BY <1>9, <1>k, <2>w, <2>2 DEF Persist, Steps, x
  <2> QED
    BY <1>9, <2>3 DEF Persist, ClaimStep
<1>10. ASSUME NEW r \in Runs, Serve(r) PROVE ClaimStep
  <2>w. Works(r)
    BY <1>10 DEF Serve, Works, At
  <2>3. Keeps
    BY <1>10, <1>k, <2>w DEF Serve, Steps
  <2> QED
    BY <1>10, <2>3 DEF Serve, ClaimStep
<1>11. ASSUME NEW r \in Runs, Finish(r) PROVE ClaimStep
  <2>w. Works(r)
    BY <1>11 DEF Finish, Works, At
  <2> DEFINE x == [run[r] EXCEPT !.pc = "complete", !.beat = "off"]
  <2>1. /\ x.pc \notin {"idle", "claim"}
        /\ x.kind = run[r].kind /\ x.scope = run[r].scope /\ x.fence = run[r].fence
    BY <1>t, <2>w DEF RunType, Works
  <2> HIDE DEF x
  <2>2. ASSUME run' = [run EXCEPT ![r] = x] PROVE Keeps
    BY <2>1, <2>2, <2>w, <1>t, UpdateKeeps DEF Works
  <2>3. Keeps
    BY <1>11, <1>k, <2>w, <2>2 DEF Finish, Steps, x
  <2> QED
    BY <1>11, <2>3 DEF Finish, ClaimStep
<1>12. ASSUME NEW r \in Runs, Complete(r) PROVE ClaimStep
  <2>1. Works(r)
    BY <1>12 DEF Complete, Works, At
  <2> QED
    BY <1>12, <2>1, <1>k DEF Complete, ClaimStep
<1>13. ASSUME NEW r \in Runs, Release(r) PROVE ClaimStep
  <2>1. Works(r)
    BY <1>13 DEF Release, Works, At
  <2> QED
    BY <1>13, <2>1, <1>k DEF Release, ClaimStep
<1>14. ASSUME NEW r \in Runs, Abort(r) PROVE ClaimStep
  <2> DEFINE x == [run[r] EXCEPT !.aborted = TRUE]
  <2>1. x.pc = run[r].pc /\ x.kind = run[r].kind /\ x.scope = run[r].scope /\ x.fence = run[r].fence
    BY <1>t DEF RunType
  <2>2. run' = [run EXCEPT ![r] = x]
    BY <1>14 DEF Abort
  <2> HIDE DEF x
  <2>3. Keeps
    BY <2>1, <2>2, <1>t, UpdateKeeps
  <2> QED
    BY <1>14, <2>3 DEF Abort, ClaimStep
<1>15. ASSUME NEW e \in Effects, Lapse(e) PROVE ClaimStep
  BY <1>15, <1>u DEF Lapse, ClaimStep
<1>16. ASSUME NEW p \in Pages, Reload(p) PROVE ClaimStep
  BY <1>16 DEF ClaimStep
<1>17. ASSUME NEW p \in Pages, PauseConsumers(p) PROVE ClaimStep
  <2>1. \A s \in Runs : LET x == [run[s] EXCEPT !.aborted = TRUE] IN
          x.pc = run[s].pc /\ x.kind = run[s].kind /\ x.scope = run[s].scope /\ x.fence = run[s].fence
    BY <1>t DEF RunType
  <2>2. Keeps
    BY <1>17, <2>1 DEF PauseConsumers, Keeps, Works
  <2> QED
    BY <1>17, <2>2 DEF PauseConsumers, ClaimStep
<1>18. ASSUME NEW p \in Pages, SwitchScope(p) PROVE ClaimStep
  BY <1>18, <1>u DEF SwitchScope, ClaimStep
<1>19. ASSUME NEW a \in Accounts, DeleteAsset(a) PROVE ClaimStep
  BY <1>19, <1>u DEF DeleteAsset, ClaimStep
<1> QED
  BY <1>1, <1>2, <1>3, <1>4, <1>5, <1>6, <1>7, <1>8, <1>9, <1>10, <1>11, <1>12, <1>13, <1>14,
     <1>15, <1>16, <1>17, <1>18, <1>19 DEF Next, Work

-----------------------------------------------------------------------------
(***************************************************************************)
(* The invariant.                                                          *)
(***************************************************************************)
LEMMA FixedStays == [Next]_vars => UNCHANGED fixed
<1> SUFFICES ASSUME [Next]_vars PROVE UNCHANGED fixed
  OBVIOUS
<1>1. ASSUME NEW r \in Runs, Start(r) \/ RenewFails(r) \/ Abort(r) \/ Claim(r) \/ Claimed(r) \/ Consume(r)
      PROVE UNCHANGED fixed
  BY <1>1 DEF Start, RenewFails, Abort, Claim, Claimed, Consume
<1>2. ASSUME NEW r \in Runs, LockArtifact(r) \/ Download(r) \/ ReadAssets(r) \/ Persist(r) \/ Serve(r)
      PROVE UNCHANGED fixed
  BY <1>2 DEF LockArtifact, Download, ReadAssets, Persist, Serve
<1>3. ASSUME NEW r \in Runs, Finish(r) \/ Complete(r) \/ Release(r)
      PROVE UNCHANGED fixed
  BY <1>3 DEF Finish, Complete, Release
<1>4. ASSUME NEW p \in Pages, Reload(p) \/ PauseConsumers(p) \/ SwitchScope(p)
      PROVE UNCHANGED fixed
  BY <1>4 DEF Reload, PauseConsumers, SwitchScope
<1>5. ASSUME NEW e \in Effects, Lapse(e) PROVE UNCHANGED fixed
  BY <1>5 DEF Lapse
<1>6. ASSUME NEW a \in Accounts, DeleteAsset(a) PROVE UNCHANGED fixed
  BY <1>6 DEF DeleteAsset
<1> QED
  BY <1>1, <1>2, <1>3, <1>4, <1>5, <1>6 DEF Next, Work, vars

LEMMA LeaseStep ==
  ASSUME EffectTypeOK, HomesApart, LeaseKept, [Next]_vars
  PROVE  LeaseKept'
<1>f. UNCHANGED <<authority, home>>
  BY FixedStays DEF fixed
<1>t. /\ Typed /\ lease \in [Pages -> [Kinds -> 0..MaxFence]] /\ home \in [Runs -> Pages]
      /\ \A r \in Runs : run[r] \in RunType /\ run[r].kind \in Kinds
  BY EffectConstants, FieldTypes DEF EffectTypeOK, Typed
<1> SUFFICES ASSUME authority = "agent", ~Twins, NEW s \in Runs, Works(s)'
             PROVE  lease'[home[s]][run'[s].kind] = run'[s].fence
  BY <1>f DEF LeaseKept, Works
<1>a. \A r \in Runs : home[r] = home[s] => r = s
  BY DEF HomesApart
<1>k. Works(s) => lease[home[s]][run[s].kind] = run[s].fence
  BY DEF LeaseKept
<1>1. CASE Keeps /\ UNCHANGED lease
  BY <1>1, <1>k DEF Keeps
<1>2. ASSUME NEW r \in Runs, Leaves({r}), UNCHANGED lease \/ Forget(r)
      PROVE  lease'[home[s]][run'[s].kind] = run'[s].fence
  <2>1. s # r /\ run'[s] = run[s] /\ Works(s)
    BY <1>2 DEF Leaves, Works
  <2>2. lease'[home[s]] = lease[home[s]]
    BY <1>2, <2>1, <1>a, <1>t DEF Forget
  <2> QED
    BY <2>1, <2>2, <1>k
<1>3. ASSUME NEW r \in Runs, NEW n, ~Works(r), Hold(r, <<Scope, run[r].kind>>, n)
      PROVE  lease'[home[s]][run'[s].kind] = run'[s].fence
  <2>1. CASE s = r
    <3>1. run'[r].kind = run[r].kind /\ run'[r].fence = n
      BY <1>3, <1>t DEF Hold, Typed, RunType
    <3>2. lease'[home[r]][run[r].kind] = n
      BY <1>3, <1>t DEF Hold
    <3> QED
      BY <2>1, <3>1, <3>2
  <2>2. CASE s # r
    <3>1. run'[s] = run[s] /\ Works(s)
      BY <1>3, <2>2, <1>t DEF Hold, Typed, Works
    <3>2. lease'[home[s]] = lease[home[s]]
      BY <1>3, <2>2, <1>a, <1>t DEF Hold
    <3> QED
      BY <3>1, <3>2, <1>k
  <2> QED
    BY <2>1, <2>2
<1>4. ASSUME NEW p \in Pages, Reload(p)
      PROVE  lease'[home[s]][run'[s].kind] = run'[s].fence
  <2>1. home[s] # p /\ run'[s] = run[s] /\ Works(s)
    BY <1>4, <1>t DEF Reload, Works, Idle
  <2>2. lease'[home[s]] = lease[home[s]]
    BY <1>4, <2>1, <1>t DEF Reload
  <2> QED
    BY <2>1, <2>2, <1>k
<1>5. CASE UNCHANGED vars
  BY <1>5, <1>k DEF vars, Works
<1>6. CASE Next
  <2>1. ClaimStep
    BY <1>6, StepClaims
  <2>2. ASSUME NEW e \in Effects, Lapse(e), Keeps, UNCHANGED lease
        PROVE  lease'[home[s]][run'[s].kind] = run'[s].fence
    BY <2>2, <1>1
  <2> QED
    BY <2>1, <2>2, <1>1, <1>2, <1>3, <1>4 DEF ClaimStep
<1> QED
  BY <1>5, <1>6


\* No consumer comes to the write of the stored assets, and none that is there
\* changes what it is about to write.
ReadsKept == \A s \in Runs : At(s, "persist")' =>
  At(s, "persist") /\ run'[s].into = run[s].into /\ run'[s].saw = run[s].saw

LEMMA UpdateReads ==
  ASSUME Typed, NEW r \in Runs, NEW x, run' = [run EXCEPT ![r] = x], x.pc # "persist"
  PROVE  ReadsKept
  BY DEF ReadsKept, At, Typed

LEMMA HelperReads ==
  ASSUME Typed, NEW r \in Runs
  PROVE  /\ Drop(r) => ReadsKept
         /\ End(r) => ReadsKept
         /\ Advance(r) => ReadsKept
         /\ \A p \in Steps \ {"persist"} : Goto(r, p) => ReadsKept
<1>1. Dropped(run[r]).pc # "persist" /\ Idle.pc # "persist"
  BY DEF Dropped, Idle, Typed, RunType
<1>2. [Idle EXCEPT !.pc = "claim", !.kind = consumer, !.aborted = run[r].aborted].pc # "persist"
  BY DEF Idle
<1>3. \A p : p # "persist" => [run[r] EXCEPT !.pc = p].pc # "persist"
  BY DEF Typed, RunType
<1>4. Drop(r) => ReadsKept
  BY <1>1, UpdateReads DEF Drop
<1>5. End(r) => ReadsKept
  BY <1>1, UpdateReads DEF End
<1>6. Advance(r) => ReadsKept
  <2> DEFINE x == [Idle EXCEPT !.pc = "claim", !.kind = consumer, !.aborted = run[r].aborted]
  <2> HIDE DEF x
  <2>1. Advance(r) => run' = [run EXCEPT ![r] = Idle] \/ run' = [run EXCEPT ![r] = x]
    BY DEF Advance, x
  <2> QED
    BY <1>1, <1>2, <2>1, UpdateReads DEF x
<1>7. ASSUME NEW p \in Steps \ {"persist"}, Goto(r, p) PROVE ReadsKept
  <2> DEFINE x == [run[r] EXCEPT !.pc = p]
  <2>1. x.pc # "persist" /\ run' = [run EXCEPT ![r] = x]
    BY <1>3, <1>7 DEF Goto
  <2> HIDE DEF x
  <2> QED
    BY <2>1, UpdateReads
<1> QED
  BY <1>4, <1>5, <1>6, <1>7

LEMMA SameReads ==
  ASSUME ReadStands, ReadsKept, UNCHANGED <<storage, asset>>
  PROVE  ReadStands'
  BY DEF ReadStands, ReadsKept, At

LEMMA ReadStep ==
  ASSUME EffectTypeOK, ReadStands, [Next]_vars
  PROVE  ReadStands'
<1>t. /\ Typed /\ storage \in [Accounts -> Runs \cup {NoRun}]
      /\ asset \in [Accounts -> {"none", "stored", "deleted"}]
      /\ \A r \in Runs : run[r] \in RunType /\ run[r].into \in Accounts
      /\ consumer \in {"attach", "resume"}
  BY EffectConstants, FieldTypes DEF EffectTypeOK, Typed
<1>k. \A r \in Runs : /\ Drop(r) => ReadsKept
                      /\ End(r) => ReadsKept
                      /\ Advance(r) => ReadsKept
                      /\ \A p \in Steps \ {"persist"} : Goto(r, p) => ReadsKept
  BY <1>t, HelperReads
<1>h. ASSUME NEW s \in Runs, At(s, "persist")
      PROVE  storage[run[s].into] = s /\ asset[run[s].into] = run[s].saw
  BY <1>h DEF ReadStands
<1>u. ASSUME UNCHANGED run PROVE ReadsKept
  BY <1>u DEF ReadsKept, At
<1>1. ASSUME NEW r \in Runs, Start(r) PROVE ReadStands'
  <2>1. ReadsKept
    BY <1>1, <1>t, StartMoves DEF ReadsKept, At
  <2> QED
    BY <1>1, <2>1, SameReads DEF Start, locks
<1>2. ASSUME NEW r \in Runs, Claim(r) PROVE ReadStands'
  <2> DEFINE e == <<Scope, run[r].kind>>
             n == effect[e].fence + 1
             x == [run[r] EXCEPT !.pc = "claimed", !.scope = e[1], !.fence = n]
  <2>1. x.pc # "persist"
    BY <1>t DEF RunType
  <2>2. Hold(r, e, n) => run' = [run EXCEPT ![r] = x]
    BY DEF Hold
  <2> HIDE DEF x
  <2>3. Hold(r, e, n) => ReadsKept
    BY <2>1, <2>2, <1>t, UpdateReads
  <2>4. ReadsKept
    BY <1>2, <2>3, <1>k DEF Claim
  <2> QED
    BY <1>2, <2>4, SameReads DEF Claim, locks
<1>3. ASSUME NEW r \in Runs, Claimed(r) PROVE ReadStands'
  <2> DEFINE x == [run[r] EXCEPT !.pc = "consume", !.beat = "on"]
  <2>1. x.pc # "persist"
    BY <1>t DEF RunType
  <2> HIDE DEF x
  <2>2. run' = [run EXCEPT ![r] = x] => ReadsKept
    BY <2>1, <1>t, UpdateReads
  <2>3. ReadsKept
    BY <1>3, <2>2, <1>k DEF Claimed, x, Steps
  <2> QED
    BY <1>3, <2>3, SameReads DEF Claimed, locks
<1>4. ASSUME NEW r \in Runs, RenewFails(r) PROVE ReadStands'
  <2> DEFINE x == [run[r] EXCEPT !.beat = "failed"]
  <2>1. x.pc = run[r].pc /\ x.into = run[r].into /\ x.saw = run[r].saw
    BY <1>t DEF RunType
  <2>2. run' = [run EXCEPT ![r] = x]
    BY <1>4 DEF RenewFails
  <2> HIDE DEF x
  <2>3. ReadsKept
    BY <2>1, <2>2, <1>t DEF ReadsKept, At, Typed
  <2> QED
    BY <1>4, <2>3, SameReads DEF RenewFails, locks
<1>5. ASSUME NEW r \in Runs, Consume(r) PROVE ReadStands'
  <2> DEFINE x == [run[r] EXCEPT !.pc = "queue", !.into = active]
  <2>1. x.pc # "persist"
    BY <1>t DEF RunType
  <2> HIDE DEF x
  <2>2. run' = [run EXCEPT ![r] = x] => ReadsKept
    BY <2>1, <1>t, UpdateReads
  <2>3. ReadsKept
    BY <1>5, <2>2, <1>k DEF Consume, x, Steps
  <2> QED
    BY <1>5, <2>3, SameReads DEF Consume, locks
<1>6. ASSUME NEW r \in Runs, LockArtifact(r) PROVE ReadStands'
  <2>1. ReadsKept
    BY <1>6, <1>k DEF LockArtifact, Steps
  <2> QED
    BY <1>6, <2>1, SameReads DEF LockArtifact, locks
<1>7. ASSUME NEW r \in Runs, Download(r) PROVE ReadStands'
  <2> DEFINE x == [run[r] EXCEPT !.pc = "store", !.into = active]
  <2>1. x.pc # "persist"
    BY <1>t DEF RunType
  <2> HIDE DEF x
  <2>2. run' = [run EXCEPT ![r] = x] => ReadsKept
    BY <2>1, <1>t, UpdateReads
  <2>3. ReadsKept
    BY <1>7, <2>2, <1>k DEF Download, x
  <2>4. ASSUME NEW s \in Runs, At(s, "persist") PROVE storage'[run[s].into] = s
    BY <1>7, <2>4, <1>h, <1>t DEF Download, Unlock, locks, At
  <2> QED
    BY <1>7, <2>3, <2>4, <1>h DEF Download, ReadStands, ReadsKept, At
<1>8. ASSUME NEW r \in Runs, ReadAssets(r) PROVE ReadStands'
  <2>1. CASE Unlock(r) /\ Drop(r)
    <3>1. ASSUME NEW s \in Runs, At(s, "persist") PROVE storage'[run[s].into] = s
      BY <1>8, <2>1, <3>1, <1>h, <1>t DEF ReadAssets, Unlock, At
    <3> QED
      BY <1>8, <2>1, <3>1, <1>h, <1>k DEF ReadAssets, ReadStands, ReadsKept, At
  <2>2. CASE ~(Unlock(r) /\ Drop(r))
    <3> DEFINE x == [run[r] EXCEPT !.pc = "persist", !.saw = asset[run[r].into]]
    <3>1. x.into = run[r].into /\ x.saw = asset[run[r].into]
      BY <1>t DEF RunType
    <3>2. /\ run' = [run EXCEPT ![r] = x] /\ storage' = [storage EXCEPT ![run[r].into] = r]
          /\ storage[run[r].into] = NoRun /\ UNCHANGED asset
      BY <1>8, <2>2 DEF ReadAssets
    <3> HIDE DEF x
    <3> SUFFICES ASSUME NEW s \in Runs, At(s, "persist")'
                 PROVE  storage'[run'[s].into] = s /\ asset'[run'[s].into] = run'[s].saw
      BY DEF ReadStands
    <3>3. CASE s = r
      BY <3>1, <3>2, <3>3, <1>t DEF Typed
    <3>4. CASE s # r
      <4>1. run'[s] = run[s] /\ At(s, "persist")
        BY <3>2, <3>4, <1>t DEF Typed, At
      <4>2. run[s].into # run[r].into
        BY <3>2, <4>1, <1>h, EffectConstants
      <4> QED
        BY <3>2, <4>1, <4>2, <1>h, <1>t
    <3> QED
      BY <3>3, <3>4
  <2> QED
    BY <2>1, <2>2
<1>9. ASSUME NEW r \in Runs, Persist(r) PROVE ReadStands'
  <2> DEFINE x == [run[r] EXCEPT !.pc = "finish", !.into = Owner, !.saw = "none"]
  <2>1. x.pc # "persist"
    BY <1>t DEF RunType
  <2> HIDE DEF x
  <2>2. run' = [run EXCEPT ![r] = x] => ReadsKept /\ ~At(r, "persist")'
    BY <2>1, <1>t, UpdateReads DEF Typed, At
  <2>3. Drop(r) => ~At(r, "persist")'
    BY <1>t DEF Drop, Dropped, At, Typed, RunType
  <2>4. ReadsKept /\ ~At(r, "persist")'
    BY <1>9, <2>2, <2>3, <1>k DEF Persist, x
  <2>5. ASSUME NEW s \in Runs, At(s, "persist"), s # r
        PROVE  storage'[run[s].into] = s /\ asset'[run[s].into] = asset[run[s].into]
    <3>1. At(r, "persist") /\ run[s].into # run[r].into
      BY <1>9, <2>5, <1>h DEF Persist
    <3>2. storage'[run[s].into] = s
      BY <1>9, <2>5, <1>h, <1>t DEF Persist, Unlock
    <3>3. asset'[run[s].into] = asset[run[s].into]
      BY <1>9, <3>1, <1>t DEF Persist
    <3> QED
      BY <3>2, <3>3
  <2> QED
    BY <2>4, <2>5, <1>h DEF ReadStands, ReadsKept, At
<1>10. ASSUME NEW r \in Runs, Serve(r) PROVE ReadStands'
  <2>1. ReadsKept
    BY <1>10, <1>k DEF Serve, Steps
  <2> QED
    BY <1>10, <2>1, SameReads DEF Serve, locks
<1>11. ASSUME NEW r \in Runs, Finish(r) PROVE ReadStands'
  <2> DEFINE x == [run[r] EXCEPT !.pc = "complete", !.beat = "off"]
  <2>1. x.pc # "persist"
    BY <1>t DEF RunType
  <2> HIDE DEF x
  <2>2. run' = [run EXCEPT ![r] = x] => ReadsKept
    BY <2>1, <1>t, UpdateReads
  <2>3. ReadsKept
    BY <1>11, <2>2, <1>k DEF Finish, x, Steps
  <2> QED
    BY <1>11, <2>3, SameReads DEF Finish, locks
<1>12. ASSUME NEW r \in Runs, Complete(r) PROVE ReadStands'
  <2>1. ReadsKept
    BY <1>12, <1>k DEF Complete, Steps
  <2> QED
    BY <1>12, <2>1, SameReads DEF Complete, locks
<1>13. ASSUME NEW r \in Runs, Release(r) PROVE ReadStands'
  <2>1. ReadsKept
    BY <1>13, <1>k DEF Release, Steps
  <2> QED
    BY <1>13, <2>1, SameReads DEF Release, locks
<1>14. ASSUME NEW r \in Runs, Abort(r) PROVE ReadStands'
  <2> DEFINE x == [run[r] EXCEPT !.aborted = TRUE]
  <2>1. x.pc = run[r].pc /\ x.into = run[r].into /\ x.saw = run[r].saw
    BY <1>t DEF RunType
  <2>2. run' = [run EXCEPT ![r] = x]
    BY <1>14 DEF Abort
  <2> HIDE DEF x
  <2>3. ReadsKept
    BY <2>1, <2>2, <1>t DEF ReadsKept, At, Typed
  <2> QED
    BY <1>14, <2>3, SameReads DEF Abort, locks
<1>15. ASSUME NEW e \in Effects, Lapse(e) PROVE ReadStands'
  BY <1>15, <1>u, SameReads DEF Lapse, locks
<1>16. ASSUME NEW p \in Pages, Reload(p) PROVE ReadStands'
  <2>1. ASSUME NEW s \in Runs, At(s, "persist")'
        PROVE  home[s] # p /\ run'[s] = run[s] /\ At(s, "persist")
    BY <1>16, <2>1, <1>t DEF Reload, At, Idle
  <2>2. ASSUME NEW s \in Runs, At(s, "persist"), home[s] # p PROVE storage'[run[s].into] = s
    BY <1>16, <2>2, <1>h, <1>t DEF Reload, Held, Busy
  <2> QED
    BY <1>16, <2>1, <2>2, <1>h DEF Reload, ReadStands
<1>17. ASSUME NEW p \in Pages, PauseConsumers(p) PROVE ReadStands'
  <2>1. \A s \in Runs : LET x == [run[s] EXCEPT !.aborted = TRUE] IN
          x.pc = run[s].pc /\ x.into = run[s].into /\ x.saw = run[s].saw
    BY <1>t DEF RunType
  <2>2. ReadsKept
    BY <1>17, <2>1 DEF PauseConsumers, ReadsKept, At
  <2> QED
    BY <1>17, <2>2, SameReads DEF PauseConsumers, locks
<1>18. ASSUME NEW p \in Pages, SwitchScope(p) PROVE ReadStands'
  BY <1>18, <1>u, SameReads DEF SwitchScope, locks
<1>19. ASSUME NEW a \in Accounts, DeleteAsset(a) PROVE ReadStands'
  <2>1. ASSUME NEW s \in Runs, At(s, "persist") PROVE run[s].into # a
    BY <1>19, <2>1, <1>h, EffectConstants DEF DeleteAsset
  <2> QED
    BY <1>19, <2>1, <1>h, <1>t DEF DeleteAsset, ReadStands, At, locks
<1>20. CASE UNCHANGED vars
  BY <1>20, <1>u, SameReads DEF vars, locks
<1> QED
  BY <1>1, <1>2, <1>3, <1>4, <1>5, <1>6, <1>7, <1>8, <1>9, <1>10, <1>11, <1>12, <1>13, <1>14,
     <1>15, <1>16, <1>17, <1>18, <1>19, <1>20 DEF Next, Work

LEMMA InitInvariant == Init => IInv
<1> SUFFICES ASSUME Init PROVE IInv
  OBVIOUS
<1>1. EffectTypeOK
  BY InitType
<1>2. \A r \in Runs : ~Works(r) /\ ~At(r, "persist")
  BY DEF Init, Works, At, Idle
<1>3. HomesApart
  BY DEF Init, HomesApart
<1> QED
  BY <1>1, <1>2, <1>3 DEF IInv, LeaseKept, ReadStands

LEMMA StepInvariant == IInv /\ [Next]_vars => IInv'
<1> SUFFICES ASSUME IInv, [Next]_vars PROVE IInv'
  OBVIOUS
<1>1. HomesApart'
  BY FixedStays DEF IInv, HomesApart, fixed
<1> QED
  BY <1>1, StepType, LeaseStep, ReadStep DEF IInv

(* What no single access guarantees: the page's lease is the one its only   *)
(* consumer was granted, and a consumer at the write of the stored assets   *)
(* holds their lock and has read what they are.                             *)
THEOREM Invariant == EffectSpec => []IInv
  BY InitInvariant, StepInvariant, PTL DEF EffectSpec

(* An asset the user deleted does not come back: what a materialization     *)
(* read under the storage lock is still true when it writes.                *)
THEOREM DeletedForGood == EffectSpec => DeletedStays
<1>1. ASSUME IInv, [Next]_vars, NEW a \in Accounts, asset[a] = "deleted"
      PROVE  asset'[a] = "deleted"
  <2>1. ASSUME NEW r \in Runs, Persist(r) PROVE asset'[a] = "deleted"
    <3>1. run[r].into = a => run[r].saw = "deleted"
      BY <1>1, <2>1 DEF IInv, ReadStands, Persist
    <3>2. asset \in [Accounts -> {"none", "stored", "deleted"}]
      BY <1>1 DEF IInv, EffectTypeOK
    <3> QED
      BY <1>1, <2>1, <3>1, <3>2 DEF Persist
  <2>2. ASSUME NEW b \in Accounts, DeleteAsset(b) PROVE asset'[a] = "deleted"
    BY <1>1, <2>2 DEF DeleteAsset, IInv, EffectTypeOK
  <2>3. ASSUME NEW r \in Runs, Start(r) \/ RenewFails(r) \/ Abort(r) \/ Claim(r) \/ Claimed(r) \/ Consume(r)
        PROVE  UNCHANGED asset
    BY <2>3 DEF Start, RenewFails, Abort, Claim, Claimed, Consume
  <2>4. ASSUME NEW r \in Runs, LockArtifact(r) \/ Download(r) \/ ReadAssets(r) \/ Serve(r)
        PROVE  UNCHANGED asset
    BY <2>4 DEF LockArtifact, Download, ReadAssets, Serve
  <2>5. ASSUME NEW r \in Runs, Finish(r) \/ Complete(r) \/ Release(r)
        PROVE  UNCHANGED asset
    BY <2>5 DEF Finish, Complete, Release
  <2>6. ASSUME NEW p \in Pages, Reload(p) \/ PauseConsumers(p) \/ SwitchScope(p)
        PROVE  UNCHANGED asset
    BY <2>6 DEF Reload, PauseConsumers, SwitchScope
  <2>7. ASSUME NEW e \in Effects, Lapse(e) PROVE UNCHANGED asset
    BY <2>7 DEF Lapse
  <2> QED
    BY <1>1, <2>1, <2>2, <2>3, <2>4, <2>5, <2>6, <2>7 DEF Next, Work, vars
<1>2. IInv /\ [Next]_vars => [\A a \in Accounts : asset[a] = "deleted" => asset'[a] = "deleted"]_vars
  BY <1>1
<1> QED
  BY <1>2, Invariant, PTL DEF EffectSpec, DeletedStays

-----------------------------------------------------------------------------
(***************************************************************************)
(* GenerationEffects implements OnceEffect.                                *)
(***************************************************************************)
Status == [e \in Effects |-> StatusOf(e)]
Fence  == [e \in Effects |-> effect[e].fence]
Claims == [r \in Runs |-> ClaimOf(r)]

LEMMA KeptClaims == Keeps => UNCHANGED Claims
  BY DEF Keeps, Claims, ClaimOf, Mine

LEMMA KeptRecords == UNCHANGED effect => UNCHANGED <<Status, Fence>>
  BY DEF Status, Fence, StatusOf

LEMMA LeftClaims ==
  ASSUME NEW W, Leaves(W)
  PROVE  Claims' = [s \in Runs |-> IF s \in W THEN NoClaim ELSE Claims[s]]
<1>1. \A s \in Runs : ClaimOf(s)' = IF s \in W THEN NoClaim ELSE ClaimOf(s)
  BY DEF Leaves, ClaimOf, Mine, Works
<1> QED
  BY <1>1 DEF Claims

LEMMA GrantedRecords ==
  ASSUME effect \in [Effects -> Records], NEW e \in Effects, Grant(e)
  PROVE  /\ Status[e] \in {"free", "lapsed"} /\ Fence[e] < MaxFence
         /\ Status' = [Status EXCEPT ![e] = "held"]
         /\ Fence' = [Fence EXCEPT ![e] = @ + 1]
<1>1. /\ effect'[e] = [state |-> "pending", fence |-> effect[e].fence + 1, live |-> TRUE]
      /\ \A f \in Effects : f # e => effect'[f] = effect[f]
  BY DEF Grant
<1>2. StatusOf(e)' = "held"
  <2>1. effect'[e].state = "pending" /\ effect'[e].live
    BY <1>1
  <2> QED
    BY <2>1 DEF StatusOf
<1>3. StatusOf(e) \in {"free", "lapsed"}
  BY DEF Grant, Free, StatusOf
<1>4. \A f \in Effects : f # e => StatusOf(f)' = StatusOf(f)
  BY <1>1 DEF StatusOf
<1> QED
  BY <1>1, <1>2, <1>3, <1>4 DEF Status, Fence, Grant

LEMMA EndedRecords ==
  ASSUME effect \in [Effects -> Records], NEW e \in Effects, NEW s \in {"completed", "released"},
         Record(e, s), effect[e].state = "pending", effect[e].live
  PROVE  /\ Status[e] = "held" /\ UNCHANGED Fence
         /\ \E t \in {"free", "done"} : Status' = [Status EXCEPT ![e] = t]
<1>1. /\ effect'[e].state = s /\ effect'[e].fence = effect[e].fence
      /\ \A f \in Effects : f # e => effect'[f] = effect[f]
  BY DEF Record, Records
<1>2. StatusOf(e) = "held"
  BY DEF StatusOf
<1>3. StatusOf(e)' = IF s = "completed" THEN "done" ELSE "free"
  BY <1>1 DEF StatusOf
<1>4. \A f \in Effects : f # e => StatusOf(f)' = StatusOf(f)
  BY <1>1 DEF StatusOf
<1>5. Status' = [Status EXCEPT ![e] = IF s = "completed" THEN "done" ELSE "free"]
  BY <1>3, <1>4 DEF Status
<1> QED
  BY <1>1, <1>2, <1>5 DEF Status, Fence

LEMMA LapsedRecords ==
  ASSUME effect \in [Effects -> Records], NEW e \in Effects, Lapse(e)
  PROVE  /\ Status[e] = "held" /\ UNCHANGED Fence
         /\ Status' = [Status EXCEPT ![e] = "lapsed"]
<1>1. /\ effect'[e].state = "pending" /\ effect'[e].fence = effect[e].fence /\ ~effect'[e].live
      /\ \A f \in Effects : f # e => effect'[f] = effect[f]
  BY DEF Lapse, Records
<1>2. StatusOf(e) = "held" /\ StatusOf(e)' = "lapsed"
  BY <1>1 DEF StatusOf, Lapse
<1>3. \A f \in Effects : f # e => StatusOf(f)' = StatusOf(f)
  BY <1>1 DEF StatusOf
<1> QED
  BY <1>1, <1>2, <1>3 DEF Status, Fence

\* Whoever holds a record works under its newest claim.
LEMMA HolderIsNewest ==
  ASSUME IInv, ~Twins, NEW r \in Runs, Works(r), Holds(r)
  PROVE  /\ Mine(r) \in Effects /\ effect[Mine(r)].state = "pending" /\ effect[Mine(r)].live
         /\ Claims[r] = [effect |-> Mine(r), fence |-> Fence[Mine(r)]]
<1>1. run[r] \in RunType /\ authority \in {"browser", "agent"}
  BY EffectConstants DEF IInv, EffectTypeOK
<1>2. Mine(r) \in Effects
  BY <1>1, FieldTypes DEF Mine, Effects
<1>3. Shown(r) = run[r].fence
  BY <1>1 DEF Shown, IInv, LeaseKept
<1> QED
  BY <1>2, <1>3 DEF Holds, Claims, ClaimOf, Fence

LEMMA OnceStep == IInv /\ ~Twins /\ [Next]_vars => [Once!Next]_(Once!vars)
<1> SUFFICES ASSUME IInv, ~Twins, [Next]_vars PROVE [Once!Next]_(Once!vars)
  OBVIOUS
<1>t. effect \in [Effects -> Records] /\ Typed
  BY EffectConstants DEF IInv, EffectTypeOK, Typed
<1>1. ASSUME UNCHANGED <<Status, Fence, Claims>> PROVE UNCHANGED Once!vars
  BY <1>1 DEF Once!vars, Status, Fence, Claims
<1>2. ASSUME NEW W \in SUBSET Runs, Leaves(W), UNCHANGED effect PROVE Once!Next
  <2>1. Once!Leave(W)
    BY <1>2, LeftClaims, KeptRecords DEF Once!Leave, Status, Fence, Claims
  <2> QED
    BY <2>1 DEF Once!Next
<1>3. ASSUME NEW r \in Runs, NEW e \in Effects, ~Works(r), Grant(e), e = <<Scope, run[r].kind>>,
             Hold(r, e, effect[e].fence + 1)
      PROVE  Once!Next
  <2>1. /\ run'[r].pc = "claimed" /\ run'[r].scope = e[1] /\ run'[r].fence = effect[e].fence + 1
        /\ run'[r].kind = run[r].kind
        /\ \A s \in Runs : s # r => run'[s] = run[s]
    BY <1>3, <1>t DEF Hold, Typed, RunType
  <2>2. ClaimOf(r) = NoClaim /\ ClaimOf(r)' = [effect |-> e, fence |-> Fence[e] + 1]
    BY <1>3, <2>1 DEF ClaimOf, Works, Mine, Fence
  <2>3. \A s \in Runs : s # r => ClaimOf(s)' = ClaimOf(s)
    BY <2>1 DEF ClaimOf, Works, Mine
  <2>4. Claims[r] = NoClaim /\ Claims' = [Claims EXCEPT ![r] = [effect |-> e, fence |-> Fence[e] + 1]]
    BY <2>2, <2>3 DEF Claims
  <2>5. Once!Take(r, e)
    BY <1>3, <1>t, <2>4, GrantedRecords DEF Once!Take, Status, Fence, Claims
  <2> QED
    BY <2>5 DEF Once!Next
<1>4. ASSUME NEW e \in Effects, Grant(e), Keeps PROVE Once!Next
  <2>1. Once!TakeUnseen(e)
    BY <1>4, <1>t, GrantedRecords, KeptClaims DEF Once!TakeUnseen, Status, Fence, Claims
  <2> QED
    BY <2>1 DEF Once!Next
<1>5. ASSUME NEW r \in Runs, NEW s \in {"completed", "released"}, Works(r), Holds(r),
             Record(Mine(r), s), Keeps \/ Leaves({r})
      PROVE  Once!Next
  <2>1. Claims' \in {Claims, [Claims EXCEPT ![r] = NoClaim]}
    <3>1. CASE Keeps
      BY <3>1, KeptClaims
    <3>2. CASE Leaves({r})
      <4>1. Claims' = [s0 \in Runs |-> IF s0 \in {r} THEN NoClaim ELSE Claims[s0]]
        BY <3>2, LeftClaims
      <4>2. Claims' = [Claims EXCEPT ![r] = NoClaim]
        BY <4>1 DEF Claims
      <4> QED
        BY <4>2
    <3> QED
      BY <1>5, <3>1, <3>2
  <2>2. Once!End(r, Mine(r)) /\ Mine(r) \in Effects
    BY <1>5, <1>t, <2>1, HolderIsNewest, EndedRecords
       DEF Once!End, Once!Newest, Status, Fence, Claims
  <2> QED
    BY <2>2 DEF Once!Next
<1>6. ASSUME NEW e \in Effects, Lapse(e), Keeps PROVE Once!Next
  <2>1. Once!Lapse(e)
    BY <1>6, <1>t, LapsedRecords, KeptClaims DEF Once!Lapse, Status, Fence, Claims
  <2> QED
    BY <2>1 DEF Once!Next
<1>7. ASSUME NEW p \in Pages, Reload(p) PROVE Once!Next
  <2>1. Leaves({s \in Runs : home[s] = p}) /\ UNCHANGED effect
    BY <1>7 DEF Leaves, Reload, Works, Idle
  <2> QED
    BY <1>2, <2>1
<1>8. CASE UNCHANGED vars
  <2>1. UNCHANGED effect /\ Keeps
    BY <1>8 DEF vars, Keeps, Works
  <2> QED
    BY <1>1, <2>1, KeptClaims, KeptRecords
<1>9. CASE Next
  <2>1. ClaimStep
    BY <1>9, StepClaims DEF IInv
  <2>2. CASE UNCHANGED effect /\ Keeps
    BY <1>1, <2>2, KeptClaims, KeptRecords
  <2>3. ASSUME NEW r \in Runs, UNCHANGED effect, Leaves({r}) PROVE Once!Next
    BY <1>2, <2>3
  <2> QED
    BY <2>1, <2>2, <2>3, <1>3, <1>4, <1>5, <1>6, <1>7 DEF ClaimStep
<1> QED
  BY <1>8, <1>9

LEMMA OnceInit == Init => Once!Init
<1> SUFFICES ASSUME Init PROVE Once!Init
  OBVIOUS
<1>1. \A e \in Effects : StatusOf(e) = "free" /\ effect[e].fence = 0
  BY DEF Init, StatusOf
<1>2. \A r \in Runs : ClaimOf(r) = NoClaim
  BY DEF Init, ClaimOf, Works, Idle
<1> QED
  BY <1>1, <1>2 DEF Once!Init

(* Where no two consumers of a task share a page of the agent's store, the  *)
(* records of browser and agent implement OnceEffect: only the newest claim *)
(* ends an effect, only before it lapses, and what is done stays done.      *)
THEOREM ImplementsOnce == ~Twins => (EffectSpec => OnceSpec)
<1> SUFFICES ASSUME ~Twins PROVE EffectSpec => OnceSpec
  OBVIOUS
<1>1. IInv /\ [Next]_vars => [Once!Next]_(Once!vars)
  BY OnceStep
<1> QED
  BY <1>1, OnceInit, Invariant, PTL DEF EffectSpec, OnceSpec, Once!Spec

-----------------------------------------------------------------------------
(***************************************************************************)
(* From the asset to what waits for it.  A consumer works at the effects   *)
(* of the scope it started in, and each thing it relies on there was done  *)
(* some steps before: the account it writes to is the one of the task, the *)
(* asset of what it finishes is there, the first effect is completed when  *)
(* it is at the second.  All of it stands as long as it works, since an    *)
(* account is not switched under it.                                       *)
(***************************************************************************)
SwitchesWait == "browser" \in Authorities => ~Elsewhere

TaskScope   == IF authority = "browser" THEN Owner ELSE Local
HasAsset(a) == \E b \in Accounts : (a = Local \/ a = b) /\ asset[b] # "none"
Output      == <<TaskScope, "materialize">>
Writing     == {"queue", "download", "store", "persist"}
Served(r)   == run[r].pc \in {"finish", "complete"}

Flow(r) ==
  /\ run[r].kind \in {"materialize", consumer}
  /\ run[r].pc = "idle" => run[r].kind = "materialize"
  /\ run[r].pc \in {"idle", "claim"} => run[r].beat = "off"
  /\ run[r].pc # "idle" => Scope = TaskScope
  /\ Works(r) => run[r].scope = TaskScope
  /\ run[r].pc \in Writing =>
       run[r].kind = "materialize" /\ (authority = "browser" => run[r].into = Owner)
  /\ outputs /\ run[r].kind # "materialize" => effect[Output].state = "completed"
  /\ Served(r) /\ run[r].kind = "materialize" => HasAsset(TaskScope)
FlowInv == \A r \in Runs : Flow(r)

\* What one consumer's step does to it, and to no other.
Apart(r)   == \A s \in Runs : s # r => run'[s] = run[s]
Move(r, p) == /\ Apart(r)
              /\ run'[r].pc = p /\ run'[r].kind = run[r].kind
              /\ run'[r].scope = run[r].scope /\ run'[r].fence = run[r].fence

LEMMA IdleFields ==
  Idle.pc = "idle" /\ Idle.kind = "materialize" /\ Idle.beat = "off" /\ Idle.scope = Local
  BY DEF Idle

LEMMA GotoMoves == ASSUME Typed, NEW r \in Runs, NEW p, Goto(r, p)
  PROVE Move(r, p) /\ run'[r].into = run[r].into /\ run'[r].beat = run[r].beat
<1>1. run'[r] = [run[r] EXCEPT !.pc = p] /\ run[r] \in RunType /\ Apart(r)
  BY DEF Goto, Typed, Apart
<1> QED
  BY <1>1 DEF RunType, Move

LEMMA EndMoves == ASSUME Typed, NEW r \in Runs, End(r)
  PROVE Apart(r) /\ run'[r] = Idle
  BY DEF End, Typed, Apart

LEMMA DropMoves == ASSUME Typed, NEW r \in Runs, Drop(r)
  PROVE Move(r, "release") /\ (run[r].beat # "failed" => run'[r].beat # "failed")
<1>1. run'[r] = Dropped(run[r]) /\ run[r] \in RunType /\ Apart(r)
  BY DEF Drop, Typed, Apart
<1> QED
  BY <1>1 DEF RunType, Move, Dropped

LEMMA AdvanceMoves == ASSUME Typed, NEW r \in Runs, Advance(r)
  PROVE /\ Apart(r)
        /\ IF run[r].kind # "materialize" THEN run'[r] = Idle
           ELSE run'[r].pc = "claim" /\ run'[r].kind = consumer /\ run'[r].beat = "off"
<1>1. Apart(r)
  BY DEF Advance, Typed, Apart
<1>2. run[r].kind # "materialize" => run'[r] = Idle
  BY DEF Advance, Typed
<1>3. run[r].kind = "materialize" =>
        run'[r] = [Idle EXCEPT !.pc = "claim", !.kind = consumer, !.aborted = run[r].aborted]
  BY DEF Advance, Typed
<1> QED
  BY <1>1, <1>2, <1>3 DEF Idle

LEMMA HoldMoves == ASSUME Typed, NEW r \in Runs, NEW e, NEW n, Hold(r, e, n)
  PROVE /\ Apart(r) /\ run'[r].pc = "claimed" /\ run'[r].kind = run[r].kind
        /\ run'[r].scope = e[1] /\ run'[r].fence = n /\ run'[r].beat = run[r].beat
<1>1. /\ run'[r] = [run[r] EXCEPT !.pc = "claimed", !.scope = e[1], !.fence = n]
      /\ run[r] \in RunType /\ Apart(r)
  BY DEF Hold, Typed, Apart
<1> QED
  BY <1>1 DEF RunType

\* The steps that change more than where the consumer is.
LEMMA ClaimedMoves == ASSUME Typed, NEW r \in Runs, Claimed(r), ~run[r].aborted
  PROVE Move(r, "consume") /\ run'[r].beat = "on"
<1>1. run'[r] = [run[r] EXCEPT !.pc = "consume", !.beat = "on"] /\ run[r] \in RunType /\ Apart(r)
  BY DEF Claimed, Typed, Apart
<1> QED
  BY <1>1 DEF RunType, Move

LEMMA RenewMoves == ASSUME Typed, NEW r \in Runs, RenewFails(r)
  PROVE Move(r, run[r].pc) /\ run'[r].into = run[r].into
<1>1. run'[r] = [run[r] EXCEPT !.beat = "failed"] /\ run[r] \in RunType /\ Apart(r)
  BY DEF RenewFails, Typed, Apart
<1> QED
  BY <1>1 DEF RunType, Move

LEMMA AbortMoves == ASSUME Typed, NEW r \in Runs, Abort(r)
  PROVE Move(r, run[r].pc) /\ run'[r].into = run[r].into /\ run'[r].beat = run[r].beat
<1>1. run'[r] = [run[r] EXCEPT !.aborted = TRUE] /\ run[r] \in RunType /\ Apart(r)
  BY DEF Abort, Typed, Apart
<1> QED
  BY <1>1 DEF RunType, Move

LEMMA ConsumeMoves == ASSUME Typed, NEW r \in Runs, Consume(r), ~Stopped(r)
  PROVE Move(r, "queue") /\ run'[r].into = active
<1>1. run'[r] = [run[r] EXCEPT !.pc = "queue", !.into = active] /\ run[r] \in RunType /\ Apart(r)
  BY DEF Consume, Typed, Apart
<1> QED
  BY <1>1 DEF RunType, Move

LEMMA DownloadMoves == ASSUME Typed, NEW r \in Runs, Download(r)
  PROVE Drop(r) \/ (Move(r, "store") /\ run'[r].into = active)
<1> SUFFICES ASSUME ~Drop(r) PROVE Move(r, "store") /\ run'[r].into = active
  OBVIOUS
<1>1. run'[r] = [run[r] EXCEPT !.pc = "store", !.into = active] /\ run[r] \in RunType /\ Apart(r)
  BY DEF Download, Typed, Apart
<1> QED
  BY <1>1 DEF RunType, Move

LEMMA ReadMoves == ASSUME Typed, NEW r \in Runs, ReadAssets(r)
  PROVE Drop(r) \/ (Move(r, "persist") /\ run'[r].into = run[r].into)
<1> SUFFICES ASSUME ~Drop(r) PROVE Move(r, "persist") /\ run'[r].into = run[r].into
  OBVIOUS
<1>1. /\ run'[r] = [run[r] EXCEPT !.pc = "persist", !.saw = asset[run[r].into]]
      /\ run[r] \in RunType /\ Apart(r)
  BY DEF ReadAssets, Typed, Apart
<1> QED
  BY <1>1 DEF RunType, Move

LEMMA PersistMoves == ASSUME Typed, NEW r \in Runs, Persist(r)
  PROVE Drop(r) \/ (Move(r, "finish") /\ asset' = [asset EXCEPT ![run[r].into] = "stored"])
<1> SUFFICES ASSUME ~Drop(r)
             PROVE  Move(r, "finish") /\ asset' = [asset EXCEPT ![run[r].into] = "stored"]
  OBVIOUS
<1>1. /\ run'[r] = [run[r] EXCEPT !.pc = "finish", !.into = Owner, !.saw = "none"]
      /\ asset' = [asset EXCEPT ![run[r].into] = "stored"]
      /\ run[r] \in RunType /\ Apart(r)
  BY DEF Persist, Typed, Apart
<1> QED
  BY <1>1 DEF RunType, Move

LEMMA FinishMoves == ASSUME Typed, NEW r \in Runs, Finish(r)
  PROVE \/ /\ Drop(r)
           /\ \/ run[r].beat = "failed" \/ run[r].kind = "materialize"
              \/ run[r].aborted /\ run[r].kind # "resume"
        \/ Move(r, "complete") /\ run'[r].beat = "off"
<1>1. ASSUME run' = [run EXCEPT ![r] = [@ EXCEPT !.pc = "complete", !.beat = "off"]]
      PROVE  Move(r, "complete") /\ run'[r].beat = "off"
  <2>1. run'[r] = [run[r] EXCEPT !.pc = "complete", !.beat = "off"] /\ run[r] \in RunType /\ Apart(r)
    BY <1>1 DEF Typed, Apart
  <2> QED
    BY ONLY <2>1 DEF RunType, Move
<1> QED
  BY <1>1 DEF Finish

\* What the others may build on: what is completed or made stays so, and the
\* scope of a consumer that is not idle stays the one it started in.
Stays ==
  /\ UNCHANGED fixed
  /\ \A e \in Effects : effect[e].state = "completed" => effect'[e].state = "completed"
  /\ \A a \in Accounts : asset[a] # "none" => asset'[a] # "none"
  /\ (\E s \in Runs : ~At(s, "idle")) => Scope' = Scope

LEMMA AssetStays ==
  ASSUME EffectTypeOK, [Next]_vars, NEW a \in Accounts, asset[a] # "none"
  PROVE  asset'[a] # "none"
<1>t. asset \in [Accounts -> {"none", "stored", "deleted"}]
  BY DEF EffectTypeOK
<1>1. ASSUME NEW r \in Runs, Persist(r) PROVE asset'[a] # "none"
  BY <1>1, <1>t DEF Persist
<1>2. ASSUME NEW b \in Accounts, DeleteAsset(b) PROVE asset'[a] # "none"
  BY <1>2, <1>t DEF DeleteAsset
<1>3. ASSUME NEW r \in Runs, Start(r) \/ RenewFails(r) \/ Abort(r) \/ Claim(r) \/ Claimed(r) \/ Consume(r)
      PROVE  UNCHANGED asset
  BY <1>3 DEF Start, RenewFails, Abort, Claim, Claimed, Consume
<1>4. ASSUME NEW r \in Runs, LockArtifact(r) \/ Download(r) \/ ReadAssets(r) \/ Serve(r)
      PROVE  UNCHANGED asset
  BY <1>4 DEF LockArtifact, Download, ReadAssets, Serve
<1>5. ASSUME NEW r \in Runs, Finish(r) \/ Complete(r) \/ Release(r)
      PROVE  UNCHANGED asset
  BY <1>5 DEF Finish, Complete, Release
<1>6. ASSUME NEW p \in Pages, Reload(p) \/ PauseConsumers(p) \/ SwitchScope(p)
      PROVE  UNCHANGED asset
  BY <1>6 DEF Reload, PauseConsumers, SwitchScope
<1>7. ASSUME NEW e \in Effects, Lapse(e) PROVE UNCHANGED asset
  BY <1>7 DEF Lapse
<1> QED
  BY <1>1, <1>2, <1>3, <1>4, <1>5, <1>6, <1>7 DEF Next, Work, vars

LEMMA ScopeStays ==
  ASSUME SwitchesWait, EffectTypeOK, [Next]_vars, NEW s \in Runs, ~At(s, "idle")
  PROVE  Scope' = Scope
<1>f. UNCHANGED authority
  BY FixedStays DEF fixed
<1>1. ASSUME NEW p \in Pages, SwitchScope(p) PROVE authority # "browser"
  <2>1. \A q \in Pages : ~Elsewhere => Busy(q) = {}
    BY <1>1 DEF SwitchScope
  <2>2. home[s] \in Pages /\ s \in Busy(home[s])
    BY DEF EffectTypeOK, Busy
  <2> QED
    BY <2>1, <2>2 DEF SwitchesWait, EffectTypeOK
<1>2. ASSUME NEW r \in Runs, Start(r) \/ RenewFails(r) \/ Abort(r) \/ Claim(r) \/ Claimed(r) \/ Consume(r)
      PROVE  UNCHANGED active
  BY <1>2 DEF Start, RenewFails, Abort, Claim, Claimed, Consume
<1>3. ASSUME NEW r \in Runs, LockArtifact(r) \/ Download(r) \/ ReadAssets(r) \/ Persist(r) \/ Serve(r)
      PROVE  UNCHANGED active
  BY <1>3 DEF LockArtifact, Download, ReadAssets, Persist, Serve
<1>4. ASSUME NEW r \in Runs, Finish(r) \/ Complete(r) \/ Release(r)
      PROVE  UNCHANGED active
  BY <1>4 DEF Finish, Complete, Release
<1>5. ASSUME NEW p \in Pages, Reload(p) \/ PauseConsumers(p) PROVE UNCHANGED active
  BY <1>5 DEF Reload, PauseConsumers
<1>6. ASSUME NEW e \in Effects, Lapse(e) PROVE UNCHANGED active
  BY <1>6 DEF Lapse
<1>7. ASSUME NEW a \in Accounts, DeleteAsset(a) PROVE UNCHANGED active
  BY <1>7 DEF DeleteAsset
<1>8. authority # "browser" \/ UNCHANGED active
  BY <1>1, <1>2, <1>3, <1>4, <1>5, <1>6, <1>7 DEF Next, Work, vars
<1> QED
  BY <1>f, <1>8 DEF Scope

\* Only a claim, an end and a lapse of an effect change its record.
LEMMA RecordMoves ==
  ASSUME EffectTypeOK, [Next]_vars, NEW e \in Effects
  PROVE  \/ effect'[e] = effect[e]
         \/ \E r \in Runs : Claim(r) /\ Grant(e) /\ e = <<Scope, run[r].kind>>
         \/ \E r \in Runs : Complete(r) /\ Holds(r) /\ e = Mine(r) /\ Record(e, "completed")
         \/ \E r \in Runs : Release(r) /\ Holds(r) /\ e = Mine(r) /\ Record(e, "released")
         \/ Lapse(e)
<1>t. effect \in [Effects -> Records]
  BY DEF EffectTypeOK
<1>1. ASSUME NEW r \in Runs, Claim(r), effect'[e] # effect[e]
      PROVE  Grant(e) /\ e = <<Scope, run[r].kind>>
  <2> DEFINE f == <<Scope, run[r].kind>>
  <2>1. Grant(f)
    BY <1>1 DEF Claim
  <2> HIDE DEF f
  <2>2. f = e
    BY <1>1, <1>t, <2>1 DEF Grant
  <2> QED
    BY <2>1, <2>2 DEF f
<1>2. ASSUME NEW r \in Runs, Complete(r), effect'[e] # effect[e]
      PROVE  Holds(r) /\ e = Mine(r) /\ Record(e, "completed")
  <2>1. Holds(r) /\ Record(Mine(r), "completed")
    BY <1>2 DEF Complete
  <2>2. e = Mine(r)
    BY <1>2, <1>t, <2>1 DEF Record
  <2> QED
    BY <2>1, <2>2
<1>3. ASSUME NEW r \in Runs, Release(r), effect'[e] # effect[e]
      PROVE  Holds(r) /\ e = Mine(r) /\ Record(e, "released")
  <2>1. Holds(r) /\ Record(Mine(r), "released")
    BY <1>3 DEF Release
  <2>2. e = Mine(r)
    BY <1>3, <1>t, <2>1 DEF Record
  <2> QED
    BY <2>1, <2>2
<1>4. ASSUME NEW f \in Effects, Lapse(f), effect'[e] # effect[e] PROVE Lapse(e)
  <2>1. e = f
    BY <1>4, <1>t DEF Lapse
  <2> QED
    BY <1>4, <2>1
<1>5. ASSUME NEW r \in Runs, Start(r) \/ RenewFails(r) \/ Abort(r) \/ Claimed(r) \/ Consume(r)
      PROVE  UNCHANGED effect
  BY <1>5 DEF Start, RenewFails, Abort, Claimed, Consume
<1>6. ASSUME NEW r \in Runs, LockArtifact(r) \/ Download(r) \/ ReadAssets(r) \/ Persist(r) \/ Serve(r) \/ Finish(r)
      PROVE  UNCHANGED effect
  BY <1>6 DEF LockArtifact, Download, ReadAssets, Persist, Serve, Finish
<1>7. ASSUME NEW p \in Pages, Reload(p) \/ PauseConsumers(p) \/ SwitchScope(p)
      PROVE  UNCHANGED effect
  BY <1>7 DEF Reload, PauseConsumers, SwitchScope
<1>8. ASSUME NEW a \in Accounts, DeleteAsset(a) PROVE UNCHANGED effect
  BY <1>8 DEF DeleteAsset
<1> QED
  BY <1>1, <1>2, <1>3, <1>4, <1>5, <1>6, <1>7, <1>8 DEF Next, Work, vars

LEMMA StaysSo == ASSUME SwitchesWait, EffectTypeOK, [Next]_vars PROVE Stays
<1>1. UNCHANGED fixed
  BY FixedStays
<1>2. ASSUME NEW e \in Effects, effect[e].state = "completed" PROVE effect'[e].state = "completed"
  <2>1. ~Grant(e) /\ ~Lapse(e)
    BY <1>2 DEF Grant, Free, Lapse
  <2>2. ASSUME NEW r \in Runs, e = Mine(r) PROVE ~Holds(r)
    BY <1>2, <2>2 DEF Holds
  <2>3. effect'[e] = effect[e]
    BY <2>1, <2>2, RecordMoves
  <2> QED
    BY <1>2, <2>3
<1> QED
  BY <1>1, <1>2, AssetStays, ScopeStays DEF Stays

\* What keeps a consumer's part of the invariant: it stays as it is, becomes idle,
\* waits for the next effect, or works on.
LEMMA OutputIsEffect ==
  ASSUME EffectTypeOK
  PROVE  /\ TaskScope \in Accounts \cup {Local}
         /\ \A k \in Kinds : <<TaskScope, k>> \in Effects
         /\ Output \in Effects
  BY EffectConstants DEF TaskScope, Output, Effects, Kinds

LEMMA TaskScopeStays == ASSUME Stays PROVE UNCHANGED <<TaskScope, Output>>
  BY DEF Stays, fixed, TaskScope, Output

LEMMA AssetIsThere == ASSUME Stays, HasAsset(TaskScope) PROVE HasAsset(TaskScope)'
<1>1. PICK b \in Accounts : (TaskScope = Local \/ TaskScope = b) /\ asset[b] # "none"
  BY DEF HasAsset
<1>2. TaskScope' = TaskScope
  BY TaskScopeStays
<1>3. asset'[b] # "none"
  BY <1>1 DEF Stays
<1> QED
  BY <1>1, <1>2, <1>3 DEF HasAsset

LEMMA SameFlow ==
  ASSUME EffectTypeOK, Stays, NEW s \in Runs, Flow(s),
         run'[s].pc = run[s].pc, run'[s].kind = run[s].kind, run'[s].scope = run[s].scope,
         run'[s].into = run[s].into, run'[s].beat = run[s].beat \/ Works(s)
  PROVE  Flow(s)'
<1>1. UNCHANGED <<authority, consumer, outputs, TaskScope, Output>>
  BY TaskScopeStays DEF Stays, fixed
<1>2. effect[Output].state = "completed" => effect'[Output].state = "completed"
  BY OutputIsEffect DEF Stays
<1>3. run[s].pc # "idle" => Scope' = Scope
  BY DEF Stays, At
<1>4. Works(s)' = Works(s) /\ Served(s)' = Served(s)
  BY DEF Works, Served
<1>5. HasAsset(TaskScope) => HasAsset(TaskScope)'
  BY AssetIsThere
<1>6. run[s].pc \in {"idle", "claim"} => run'[s].beat = "off"
  BY DEF Flow, Works
<1> QED
  BY <1>1, <1>2, <1>3, <1>4, <1>5, <1>6 DEF Flow

LEMMA IdleFlow == ASSUME NEW s \in Runs, run'[s] = Idle PROVE Flow(s)'
<1>1. ~Works(s)' /\ ~Served(s)' /\ run'[s].pc \notin Writing
  BY IdleFields DEF Works, Served, Writing
<1> QED
  BY <1>1, IdleFields DEF Flow

LEMMA ClaimFlow ==
  ASSUME EffectTypeOK, Stays, NEW s \in Runs, Scope = TaskScope, ~At(s, "idle"),
         run'[s].pc = "claim", run'[s].kind \in {"materialize", consumer}, run'[s].beat = "off",
         outputs /\ run'[s].kind # "materialize" => effect'[Output].state = "completed"
  PROVE  Flow(s)'
<1>1. UNCHANGED <<authority, consumer, outputs, TaskScope, Output>>
  BY TaskScopeStays DEF Stays, fixed
<1>2. Scope' = Scope
  BY DEF Stays
<1>3. ~Works(s)' /\ ~Served(s)' /\ run'[s].pc \notin Writing
  BY DEF Works, Served, Writing
<1> QED
  BY <1>1, <1>2, <1>3 DEF Flow

LEMMA WorkFlow ==
  ASSUME EffectTypeOK, Stays, NEW s \in Runs, Flow(s), ~At(s, "idle"),
         run'[s].pc \notin {"idle", "claim"}, run'[s].kind = run[s].kind,
         run'[s].scope = TaskScope,
         run'[s].pc \in Writing =>
           run[s].kind = "materialize" /\ (authority = "browser" => run'[s].into = Owner),
         Served(s)' /\ run'[s].kind = "materialize" => HasAsset(TaskScope)'
  PROVE  Flow(s)'
<1>1. UNCHANGED <<authority, consumer, outputs, TaskScope, Output>>
  BY TaskScopeStays DEF Stays, fixed
<1>2. effect[Output].state = "completed" => effect'[Output].state = "completed"
  BY OutputIsEffect DEF Stays
<1>3. Scope' = Scope /\ Scope = TaskScope
  BY DEF Stays, Flow, At
<1> QED
  BY <1>1, <1>2, <1>3 DEF Flow

LEMMA DropFlow ==
  ASSUME Typed, EffectTypeOK, Stays, NEW s \in Runs, Flow(s), Works(s), Drop(s)
  PROVE  Flow(s)'
<1>1. run'[s].pc = "release" /\ run'[s].kind = run[s].kind /\ run'[s].scope = run[s].scope
  BY DropMoves DEF Move
<1>2. ~Served(s)' /\ run'[s].pc \notin Writing /\ ~At(s, "idle") /\ run[s].scope = TaskScope
  BY <1>1 DEF Served, Writing, At, Works, Flow
<1> QED
  BY <1>1, <1>2, WorkFlow

LEMMA FlowStep ==
  ASSUME SwitchesWait, EffectTypeOK, FlowInv, [Next]_vars
  PROVE  FlowInv'
<1>t. /\ Typed /\ consumer \in {"attach", "resume"} /\ authority \in {"browser", "agent"}
      /\ outputs \in BOOLEAN
      /\ home \in [Runs -> Pages] /\ asset \in [Accounts -> {"none", "stored", "deleted"}]
      /\ \A r \in Runs : run[r] \in RunType /\ run[r].into \in Accounts
  BY EffectConstants, FieldTypes DEF EffectTypeOK, Typed
<1>s. Stays
  BY StaysSo
<1>f. \A s \in Runs : Flow(s)
  BY DEF FlowInv
<1>o. \A s \in Runs : run'[s] = run[s] => Flow(s)'
  BY <1>s, <1>f, SameFlow
<1>a. \A r \in Runs : Apart(r) /\ Flow(r)' => FlowInv'
  BY <1>o DEF Apart, FlowInv
<1>u. UNCHANGED run => FlowInv'
  BY <1>o DEF FlowInv
<1>d. ASSUME NEW r \in Runs, Works(r), Drop(r) PROVE FlowInv'
  <2>1. Apart(r) /\ Flow(r)'
    BY <1>d, <1>t, <1>s, <1>f, DropMoves, DropFlow DEF Move
  <2> QED
    BY <2>1, <1>a
<1>e. ASSUME NEW r \in Runs, End(r) PROVE FlowInv'
  <2>1. Apart(r) /\ Flow(r)'
    BY <1>e, <1>t, EndMoves, IdleFlow
  <2> QED
    BY <2>1, <1>a
<1>w. ASSUME NEW r \in Runs, NEW p, Move(r, p), Works(r), p \notin {"idle", "claim"},
             p \in Writing =>
               run[r].kind = "materialize" /\ (authority = "browser" => run'[r].into = Owner),
             p \in {"finish", "complete"} /\ run[r].kind = "materialize" => HasAsset(TaskScope)'
      PROVE  FlowInv'
  <2>1. Apart(r) /\ run'[r].pc = p /\ run'[r].kind = run[r].kind /\ run'[r].scope = run[r].scope
    BY <1>w DEF Move
  <2>2. ~At(r, "idle") /\ run[r].scope = TaskScope
    BY <1>w, <1>f DEF Flow, Works, At
  <2>3. Served(r)' => p \in {"finish", "complete"}
    BY <2>1 DEF Served
  <2>4. Flow(r)'
    BY <1>w, <2>1, <2>2, <2>3, <1>s, <1>f, WorkFlow
  <2> QED
    BY <2>1, <2>4, <1>a
<1>c. ASSUME NEW r \in Runs, Advance(r), Works(r),
             run[r].kind = "materialize" => effect'[Output].state = "completed"
      PROVE  FlowInv'
  <2>1. Apart(r)
    BY <1>c, <1>t, AdvanceMoves
  <2>2. CASE run[r].kind # "materialize"
    BY <1>c, <2>1, <2>2, <1>a, <1>t, AdvanceMoves, IdleFlow
  <2>3. CASE run[r].kind = "materialize"
    <3>1. run'[r].pc = "claim" /\ run'[r].kind = consumer /\ run'[r].beat = "off"
      BY <1>c, <2>3, <1>t, AdvanceMoves
    <3>2. Scope = TaskScope /\ ~At(r, "idle")
      BY <1>c, <1>f DEF Flow, Works, At
    <3>3. Flow(r)'
      BY <1>c, <2>3, <3>1, <3>2, <1>s, ClaimFlow
    <3> QED
      BY <2>1, <3>3, <1>a
  <2> QED
    BY <2>2, <2>3
<1>n. ASSUME NEW r \in Runs, NEW p, p \in {"consume", "download", "persist", "release"} PROVE
         /\ At(r, p) => Works(r)
         /\ p \notin {"idle", "claim"}
  BY <1>n DEF At, Works
<1>1. ASSUME NEW r \in Runs, Start(r) PROVE FlowInv'
  <2>1. /\ Apart(r) /\ run[r].pc = "idle" /\ run'[r].pc = "claim" /\ run'[r].kind = First
        /\ run'[r].beat = run[r].beat
    BY <1>1, <1>t, StartMoves DEF Apart
  <2>2. run[r].beat = "off"
    BY <2>1, <1>f DEF Flow
  <2>3. Scope = TaskScope /\ UNCHANGED <<active, authority, consumer, outputs>>
    BY <1>1 DEF Start, Scope, TaskScope, fixed
  <2>4. UNCHANGED <<Scope, TaskScope>>
    BY <2>3 DEF Scope, TaskScope
  <2>5. /\ run'[r].pc = "claim" /\ run'[r].kind \in {"materialize", consumer}
        /\ run'[r].beat = "off" /\ (outputs => run'[r].kind = "materialize")
    BY <2>1, <2>2 DEF First
  <2>6. ~Works(r)' /\ ~Served(r)' /\ run'[r].pc \notin Writing
    BY <2>5 DEF Works, Served, Writing
  <2>7. Flow(r)'
    BY <2>3, <2>4, <2>5, <2>6 DEF Flow
  <2> QED
    BY <2>1, <2>7, <1>a
<1>2. ASSUME NEW r \in Runs, Claim(r) PROVE FlowInv'
  <2> DEFINE e == <<Scope, run[r].kind>>
  <2>1. run[r].pc = "claim" /\ Scope = TaskScope /\ run[r].beat = "off"
    BY <1>2, <1>f DEF Claim, At, Flow
  <2>2. CASE End(r)
    BY <2>2, <1>e
  <2>3. CASE effect[e].state = "completed" /\ Advance(r) /\ UNCHANGED effect
    <3>1. Apart(r)
      BY <2>3, <1>t, AdvanceMoves
    <3>2. CASE run[r].kind # "materialize"
      BY <3>1, <2>3, <3>2, <1>a, <1>t, AdvanceMoves, IdleFlow
    <3>3. CASE run[r].kind = "materialize"
      <4>1. run'[r].pc = "claim" /\ run'[r].kind = consumer /\ run'[r].beat = "off"
        BY <2>3, <3>3, <1>t, AdvanceMoves
      <4>2. effect'[Output].state = "completed"
        BY <2>1, <2>3, <3>3 DEF Output
      <4>3. Flow(r)'
        BY <4>1, <4>2, <2>1, <1>s, ClaimFlow DEF At
      <4> QED
        BY <3>1, <4>3, <1>a
    <3> QED
      BY <3>2, <3>3
  <2>4. CASE Hold(r, e, effect[e].fence + 1)
    <3> DEFINE n == effect[e].fence + 1
    <3> HIDE DEF n
    <3>1. /\ Apart(r) /\ run'[r].pc = "claimed" /\ run'[r].kind = run[r].kind
          /\ run'[r].scope = e[1]
      BY <2>4, <1>t, HoldMoves DEF n
    <3>2. ~Served(r)' /\ run'[r].pc \notin Writing /\ ~At(r, "idle") /\ run'[r].scope = TaskScope
      BY <3>1, <2>1 DEF Served, Writing, At
    <3>3. Flow(r)'
      BY <3>1, <3>2, <1>s, <1>f, WorkFlow
    <3> QED
      BY <3>1, <3>3, <1>a
  <2> QED
    BY <1>2, <2>2, <2>3, <2>4 DEF Claim
<1>3. ASSUME NEW r \in Runs, Claimed(r) PROVE FlowInv'
  <2>1. ~run[r].aborted => Move(r, "consume")
    BY <1>3, <1>t, ClaimedMoves
  <2>2. Works(r) /\ "consume" \notin Writing
    BY <1>3 DEF Claimed, At, Works, Writing
  <2> QED
    BY <1>3, <2>1, <2>2, <1>e, <1>w DEF Claimed
<1>4. ASSUME NEW r \in Runs, RenewFails(r) PROVE FlowInv'
  <2>1. Works(r)
    BY <1>4, <1>f DEF RenewFails, Flow, Works
  <2>2. Move(r, run[r].pc) /\ run'[r].into = run[r].into
    BY <1>4, <1>t, RenewMoves
  <2>3. Flow(r)'
    BY <2>1, <2>2, <1>s, <1>f, SameFlow DEF Move
  <2> QED
    BY <2>2, <2>3, <1>a DEF Move
<1>5. ASSUME NEW r \in Runs, Consume(r) PROVE FlowInv'
  <2>1. Works(r) /\ run[r].kind = "materialize"
    BY <1>5 DEF Consume, At, Works
  <2>2. CASE Stopped(r)
    BY <1>5, <2>1, <2>2, <1>d DEF Consume
  <2>3. CASE ~Stopped(r)
    <3>1. Move(r, "queue") /\ run'[r].into = active
      BY <1>5, <2>3, <1>t, ConsumeMoves
    <3>2. authority = "browser" => active = Owner
      BY <2>1, <1>f DEF Flow, Works, Scope, TaskScope
    <3> QED
      BY <2>1, <3>1, <3>2, <1>w
  <2> QED
    BY <2>2, <2>3
<1>6. ASSUME NEW r \in Runs, LockArtifact(r) PROVE FlowInv'
  <2>1. Works(r) /\ run[r].pc \in Writing
    BY <1>6 DEF LockArtifact, At, Works, Writing
  <2>2. Move(r, "download") /\ run'[r].into = run[r].into
    BY <1>6, <1>t, GotoMoves DEF LockArtifact
  <2> QED
    BY <2>1, <2>2, <1>f, <1>w DEF Flow
<1>7. ASSUME NEW r \in Runs, Download(r) PROVE FlowInv'
  <2>1. Works(r) /\ run[r].kind = "materialize"
    BY <1>7, <1>f DEF Download, At, Works, Flow, Writing
  <2>2. CASE Move(r, "store") /\ run'[r].into = active
    <3>1. authority = "browser" => active = Owner
      BY <2>1, <1>f DEF Flow, Works, Scope, TaskScope
    <3> QED
      BY <2>1, <2>2, <3>1, <1>w
  <2> QED
    BY <1>7, <2>1, <2>2, <1>t, <1>d, DownloadMoves
<1>8. ASSUME NEW r \in Runs, ReadAssets(r) PROVE FlowInv'
  <2>1. Works(r) /\ run[r].pc \in Writing
    BY <1>8 DEF ReadAssets, At, Works, Writing
  <2>2. CASE Move(r, "persist") /\ run'[r].into = run[r].into
    BY <2>1, <2>2, <1>f, <1>w DEF Flow
  <2> QED
    BY <1>8, <2>1, <2>2, <1>t, <1>d, ReadMoves
<1>9. ASSUME NEW r \in Runs, Persist(r) PROVE FlowInv'
  <2>1. Works(r) /\ run[r].pc \in Writing
    BY <1>9 DEF Persist, At, Works, Writing
  <2>2. CASE Move(r, "finish") /\ asset' = [asset EXCEPT ![run[r].into] = "stored"]
    <3>1. asset'[run[r].into] # "none"
      BY <2>2, <1>t
    <3>2. authority = "browser" => run[r].into = Owner
      BY <2>1, <1>f DEF Flow
    <3>3. TaskScope' = TaskScope
      BY <1>s, TaskScopeStays
    <3>4. HasAsset(TaskScope)'
      BY <3>1, <3>2, <3>3, <1>t DEF HasAsset, TaskScope
    <3>5. "finish" \notin Writing
      BY DEF Writing
    <3> QED
      BY <2>1, <2>2, <3>4, <3>5, <1>w
  <2> QED
    BY <1>9, <2>1, <2>2, <1>t, <1>d, PersistMoves
<1>10. ASSUME NEW r \in Runs, Serve(r) PROVE FlowInv'
  <2>1. Works(r) /\ run[r].kind # "materialize" /\ "finish" \notin Writing
    BY <1>10 DEF Serve, At, Works, Writing
  <2>2. Goto(r, "finish") => Move(r, "finish")
    BY <1>t, GotoMoves
  <2> QED
    BY <1>10, <2>1, <2>2, <1>d, <1>w DEF Serve
<1>11. ASSUME NEW r \in Runs, Finish(r) PROVE FlowInv'
  <2>1. Works(r) /\ Served(r) /\ "complete" \notin Writing
    BY <1>11 DEF Finish, At, Works, Served, Writing
  <2>2. run[r].kind = "materialize" => HasAsset(TaskScope)'
    BY <2>1, <1>f, <1>s, AssetIsThere DEF Flow
  <2> QED
    BY <1>11, <2>1, <2>2, <1>t, <1>d, <1>w, FinishMoves
<1>12. ASSUME NEW r \in Runs, Complete(r) PROVE FlowInv'
  <2>1. Works(r)
    BY <1>12 DEF Complete, At, Works
  <2>2. CASE Advance(r) /\ Record(Mine(r), "completed")
    <3>1. run[r].kind = "materialize" => Mine(r) = Output
      BY <2>1, <1>f DEF Flow, Mine, Output
    <3>2. run[r].kind = "materialize" => effect'[Output].state = "completed"
      BY <2>2, <3>1, OutputIsEffect DEF Record, EffectTypeOK, Records
    <3> QED
      BY <2>1, <2>2, <3>2, <1>c
  <2> QED
    BY <1>12, <2>1, <2>2, <1>d DEF Complete
<1>13. ASSUME NEW r \in Runs, Release(r) PROVE FlowInv'
  BY <1>13, <1>e DEF Release
<1>14. ASSUME NEW r \in Runs, Abort(r) PROVE FlowInv'
  <2>1. Move(r, run[r].pc) /\ run'[r].into = run[r].into /\ run'[r].beat = run[r].beat
    BY <1>14, <1>t, AbortMoves
  <2>2. Flow(r)'
    BY <2>1, <1>s, <1>f, SameFlow DEF Move
  <2> QED
    BY <2>1, <2>2, <1>a DEF Move
<1>15. ASSUME NEW e \in Effects, Lapse(e) PROVE FlowInv'
  BY <1>15, <1>u DEF Lapse
<1>16. ASSUME NEW p \in Pages, Reload(p) PROVE FlowInv'
  <2>1. ASSUME NEW s \in Runs PROVE Flow(s)'
    BY <1>16, <1>o, IdleFlow DEF Reload
  <2> QED
    BY <2>1 DEF FlowInv
<1>17. ASSUME NEW p \in Pages, PauseConsumers(p) PROVE FlowInv'
  <2>1. ASSUME NEW s \in Runs, s \in Busy(p) PROVE Flow(s)'
    <3>1. run'[s] = [run[s] EXCEPT !.aborted = TRUE] /\ run[s] \in RunType
      BY <1>17, <2>1, <1>t DEF PauseConsumers
    <3>2. /\ run'[s].pc = run[s].pc /\ run'[s].kind = run[s].kind /\ run'[s].scope = run[s].scope
          /\ run'[s].into = run[s].into /\ run'[s].beat = run[s].beat
      BY ONLY <3>1 DEF RunType
    <3> QED
      BY <3>2, <1>s, <1>f, SameFlow
  <2>2. ASSUME NEW s \in Runs, s \notin Busy(p) PROVE Flow(s)'
    BY <1>17, <2>2, <1>o DEF PauseConsumers
  <2> QED
    BY <2>1, <2>2 DEF FlowInv
<1>18. ASSUME NEW p \in Pages, SwitchScope(p) PROVE FlowInv'
  BY <1>18, <1>u DEF SwitchScope
<1>19. ASSUME NEW a \in Accounts, DeleteAsset(a) PROVE FlowInv'
  BY <1>19, <1>u DEF DeleteAsset
<1>20. CASE UNCHANGED vars
  BY <1>20, <1>u DEF vars
<1> QED
  BY <1>1, <1>2, <1>3, <1>4, <1>5, <1>6, <1>7, <1>8, <1>9, <1>10, <1>11, <1>12, <1>13, <1>14,
     <1>15, <1>16, <1>17, <1>18, <1>19, <1>20 DEF Next, Work

LEMMA FlowInit == Init => FlowInv
<1> SUFFICES ASSUME Init, NEW r \in Runs PROVE Flow(r)
  BY DEF FlowInv
<1>1. run[r] = Idle
  BY DEF Init
<1>2. ~Works(r) /\ ~Served(r) /\ run[r].pc \notin Writing
  BY <1>1, IdleFields DEF Works, Served, Writing
<1> QED
  BY <1>1, <1>2, IdleFields DEF Flow

\* The consumer that completes a materialization has its asset; the one that claims
\* the second effect is at it because the first is completed.
LEMMA OrderStep ==
  ASSUME SwitchesWait, EffectTypeOK, FlowInv, CompletedHasAsset, ServedAfterAsset, [Next]_vars
  PROVE  CompletedHasAsset' /\ ServedAfterAsset'
<1>s. Stays
  BY StaysSo
<1>1. ASSUME NEW a \in Accounts \cup {Local}, effect'[<<a, "materialize">>].state = "completed"
      PROVE  HasAsset(a)'
  <2> DEFINE e == <<a, "materialize">>
  <2>1. e \in Effects
    BY DEF Effects, Kinds
  <2>2. HasAsset(a)
    <3>1. CASE effect[e].state = "completed"
      BY <3>1 DEF CompletedHasAsset, HasAsset
    <3>2. CASE effect[e].state # "completed"
      <4> HIDE DEF e
      <4>0. effect'[e].state = "completed" /\ effect \in [Effects -> Records]
        BY <1>1 DEF e, EffectTypeOK
      <4>g. ASSUME Grant(e) PROVE FALSE
        <5>1. effect'[e] = [state |-> "pending", fence |-> effect[e].fence + 1, live |-> TRUE]
          BY <4>g, <4>0, <2>1 DEF Grant
        <5> QED
          BY <4>0, <5>1
      <4>r. ASSUME Record(e, "released") PROVE FALSE
        BY <4>r, <4>0, <2>1 DEF Record, Records
      <4>l. ASSUME Lapse(e) PROVE FALSE
        BY <4>l, <4>0, <2>1 DEF Lapse, Records
      <4>1. ~Grant(e) /\ ~Record(e, "released") /\ ~Lapse(e) /\ effect'[e] # effect[e]
        BY <4>0, <4>g, <4>r, <4>l, <3>2
      <4>2. PICK r \in Runs : Complete(r) /\ e = Mine(r)
        BY <4>1, <2>1, RecordMoves
      <4>3. Works(r) /\ Served(r)
        BY <4>2 DEF Complete, At, Works, Served
      <4>4. run[r].kind = "materialize" /\ run[r].scope = a
        BY <4>2 DEF e, Mine
      <4> QED
        BY <4>3, <4>4 DEF FlowInv, Flow
    <3> QED
      BY <3>1, <3>2
  <2>3. PICK b \in Accounts : (a = Local \/ a = b) /\ asset[b] # "none"
    BY <2>2 DEF HasAsset
  <2> QED
    BY <2>3, <1>s DEF HasAsset, Stays
<1>x. outputs' = outputs
  BY FixedStays DEF fixed
<1>2. ASSUME NEW a \in Accounts \cup {Local}, NEW k \in {"attach", "resume"},
             outputs, effect'[<<a, k>>].state # "none"
      PROVE  effect'[<<a, "materialize">>].state = "completed"
  <2> DEFINE e == <<a, k>>
             m == <<a, "materialize">>
  <2>1. e \in Effects /\ m \in Effects
    BY DEF Effects, Kinds
  <2>2. effect[m].state = "completed"
    <3>1. CASE effect[e].state # "none"
      BY <3>1, <1>2 DEF ServedAfterAsset
    <3>2. CASE effect[e].state = "none"
      <4> HIDE DEF e
      <4>1. effect'[e] # effect[e] /\ ~Lapse(e)
        BY <1>2, <3>2, <2>1 DEF e, Lapse
      <4>2. \A r \in Runs : e = Mine(r) => ~Holds(r)
        BY <3>2 DEF Holds
      <4>3. PICK r \in Runs : Claim(r) /\ e = <<Scope, run[r].kind>>
        BY <4>1, <4>2, <2>1, RecordMoves
      <4>4. run[r].pc = "claim" /\ run[r].kind # "materialize" /\ Scope = a
        BY <4>3 DEF e, Claim, At
      <4> QED
        BY <4>4, <1>2 DEF FlowInv, Flow, Output
    <3> QED
      BY <3>1, <3>2
  <2> QED
    BY <2>1, <2>2, <1>s DEF Stays
<1>3. CompletedHasAsset'
  BY <1>1 DEF CompletedHasAsset, HasAsset
<1> QED
  BY <1>2, <1>3, <1>x DEF ServedAfterAsset

LEMMA OrderInit == Init => CompletedHasAsset /\ ServedAfterAsset
<1> SUFFICES ASSUME Init PROVE \A e \in Effects : effect[e].state = "none"
  BY DEF CompletedHasAsset, ServedAfterAsset, Effects, Kinds
<1> QED
  BY DEF Init

(* Which consumer is where, and what the records say of what is done, hold  *)
(* together: neither could be kept without the other.                       *)
THEOREM EffectsInOrder ==
  SwitchesWait => (EffectSpec => [](FlowInv /\ CompletedHasAsset /\ ServedAfterAsset))
<1> SUFFICES ASSUME SwitchesWait
             PROVE  EffectSpec => [](FlowInv /\ CompletedHasAsset /\ ServedAfterAsset)
  OBVIOUS
<1>1. Init => FlowInv /\ CompletedHasAsset /\ ServedAfterAsset
  BY FlowInit, OrderInit
<1>2. EffectTypeOK /\ (FlowInv /\ CompletedHasAsset /\ ServedAfterAsset) /\ [Next]_vars
        => (FlowInv /\ CompletedHasAsset /\ ServedAfterAsset)'
  BY FlowStep, OrderStep
<1> QED
  BY <1>1, <1>2, TypeCorrect, PTL DEF EffectSpec

(* Whenever a record says a materialization is completed, its asset is      *)
(* there (or was, until the user deleted it), in the account the record     *)
(* belongs to: provided the browser's accounts are not switched while a     *)
(* page consumes.  The agent's records need no such proviso.                *)
THEOREM AssetBehindCompleted == SwitchesWait => (EffectSpec => []CompletedHasAsset)
  BY EffectsInOrder, PTL

(* Under the same proviso nothing of a task with outputs is attached or     *)
(* resumed, nor even claimed to be, before its output is an asset.  A       *)
(* continuation of a task that comes without outputs is not covered.        *)
THEOREM ServedOnlyAfterAsset == SwitchesWait => (EffectSpec => []ServedAfterAsset)
  BY EffectsInOrder, PTL

-----------------------------------------------------------------------------
(***************************************************************************)
(* A continuation of the agent is resumed once.  As long as there was no   *)
(* trouble, a consumer at the second effect holds its live claim, so it is *)
(* alone there, and one that served what waited goes on to complete it.    *)
(***************************************************************************)
Resume     == <<TaskScope, "resume">>
Resumes(r) == Works(r) /\ run[r].kind = "resume"

HoldsResume(r) ==
  /\ effect[Resume].state = "pending" /\ effect[Resume].live
  /\ effect[Resume].fence = run[r].fence /\ Shown(r) = run[r].fence /\ run[r].fence # 0
  /\ run[r].beat # "failed"
  /\ Served(r) \/ consumed = 0

ResumeOne ==
  /\ \A r \in Runs : Resumes(r) => HoldsResume(r)
  /\ \A r, s \in Runs : Resumes(r) /\ Resumes(s) => r = s
  /\ consumed \in {0, 1}
  /\ consumed = 1 => effect[Resume].state = "completed" \/ \E r \in Runs : Resumes(r) /\ Served(r)

ResumeInv == consumer = "resume" /\ troubles = 0 => ResumeOne

LeaseStands == \A p \in Pages : lease'[p]["resume"] = lease[p]["resume"]

LEMMA NoTroubleBefore ==
  ASSUME EffectTypeOK, [Next]_vars, troubles' = 0
  PROVE  troubles = 0 /\ ~Trouble
<1>t. troubles \in Nat
  BY EffectConstants DEF EffectTypeOK
<1>1. ASSUME Trouble PROVE FALSE
  BY <1>1, <1>t DEF Trouble
<1>2. ASSUME NEW r \in Runs, Start(r) \/ RenewFails(r) \/ Abort(r) \/ Claim(r) \/ Claimed(r) \/ Consume(r)
      PROVE  UNCHANGED troubles
  BY <1>1, <1>2 DEF Start, RenewFails, Abort, Claim, Claimed, Consume, Calm
<1>3. ASSUME NEW r \in Runs, LockArtifact(r) \/ Download(r) \/ ReadAssets(r) \/ Persist(r) \/ Serve(r)
      PROVE  UNCHANGED troubles
  BY <1>1, <1>3 DEF LockArtifact, Download, ReadAssets, Persist, Serve, Calm
<1>4. ASSUME NEW r \in Runs, Finish(r) \/ Complete(r) \/ Release(r)
      PROVE  UNCHANGED troubles
  BY <1>1, <1>4 DEF Finish, Complete, Release, Calm
<1>5. ASSUME NEW p \in Pages, Reload(p) \/ PauseConsumers(p) \/ SwitchScope(p)
      PROVE  UNCHANGED troubles
  BY <1>1, <1>5 DEF Reload, PauseConsumers, SwitchScope
<1>6. ASSUME NEW e \in Effects, Lapse(e) PROVE UNCHANGED troubles
  BY <1>1, <1>6 DEF Lapse, Calm
<1>7. ASSUME NEW a \in Accounts, DeleteAsset(a) PROVE UNCHANGED troubles
  BY <1>7 DEF DeleteAsset
<1>8. UNCHANGED troubles
  BY <1>2, <1>3, <1>4, <1>5, <1>6, <1>7 DEF Next, Work, vars
<1> QED
  BY <1>1, <1>8

\* Nothing happens to the claim of the second effect but that its consumer works on
\* or, before it has served anything, leaves.
ResumeQuiet ==
  /\ UNCHANGED <<consumed, Resume>> /\ effect'[Resume] = effect[Resume]
  /\ \A s \in Runs : Resumes(s)' =>
       /\ Resumes(s) /\ run'[s].fence = run[s].fence /\ Shown(s)' = Shown(s)
       /\ run'[s].beat # "failed" /\ (Served(s) => Served(s)')
  /\ \A s \in Runs : Resumes(s) /\ Served(s) => Resumes(s)' /\ Served(s)'

LEMMA QuietKeeps == ASSUME ResumeOne, ResumeQuiet PROVE ResumeOne'
<1>1. ASSUME NEW s \in Runs, Resumes(s)' PROVE HoldsResume(s)'
  BY <1>1 DEF ResumeOne, ResumeQuiet, HoldsResume
<1>2. \A r, s \in Runs : Resumes(r)' /\ Resumes(s)' => r = s
  BY DEF ResumeOne, ResumeQuiet
<1>3. consumed' \in {0, 1}
  BY DEF ResumeOne, ResumeQuiet
<1>4. consumed' = 1 =>
        effect'[Resume'].state = "completed" \/ \E r \in Runs : Resumes(r)' /\ Served(r)'
  BY DEF ResumeOne, ResumeQuiet
<1> QED
  BY <1>1, <1>2, <1>3, <1>4 DEF ResumeOne

LEMMA ApartQuiet ==
  ASSUME EffectTypeOK, ResumeOne, NEW r \in Runs, Apart(r), UNCHANGED <<fixed, consumed>>,
         effect'[Resume] = effect[Resume], LeaseStands,
         Resumes(r)' => /\ Resumes(r) /\ run'[r].fence = run[r].fence
                        /\ run'[r].beat # "failed" /\ (Served(r) => Served(r)'),
         Resumes(r) /\ Served(r) => Resumes(r)'
  PROVE  ResumeOne'
<1>1. UNCHANGED <<authority, home, Resume>>
  BY DEF fixed, Resume, TaskScope
<1>2. ASSUME NEW s \in Runs, run'[s].kind = "resume", run[s].kind = "resume",
             run'[s].fence = run[s].fence
      PROVE  Shown(s)' = Shown(s)
  BY <1>1, <1>2 DEF Shown, LeaseStands, EffectTypeOK
<1>3. ASSUME NEW s \in Runs, Resumes(s)'
      PROVE  /\ Resumes(s) /\ run'[s].fence = run[s].fence /\ Shown(s)' = Shown(s)
             /\ run'[s].beat # "failed" /\ (Served(s) => Served(s)')
  <2>1. CASE s = r
    BY <1>2, <1>3, <2>1 DEF Resumes
  <2>2. CASE s # r
    <3>1. run'[s] = run[s]
      BY <2>2 DEF Apart
    <3>2. Resumes(s) /\ (Served(s) => Served(s)')
      BY <1>3, <3>1 DEF Resumes, Works, Served
    <3> QED
      BY <1>2, <3>1, <3>2 DEF Resumes, ResumeOne, HoldsResume
  <2> QED
    BY <2>1, <2>2
<1>4. ASSUME NEW s \in Runs, Resumes(s), Served(s) PROVE Resumes(s)' /\ Served(s)'
  <2>1. CASE s = r
    BY <1>3, <1>4, <2>1
  <2>2. CASE s # r
    BY <1>4, <2>2 DEF Apart, Resumes, Works, Served
  <2> QED
    BY <2>1, <2>2
<1> QED
  BY <1>1, <1>3, <1>4, QuietKeeps DEF ResumeQuiet

LEMMA NoneLeft ==
  ASSUME ResumeOne, NEW r \in Runs, Resumes(r), Apart(r), ~Resumes(r)',
         UNCHANGED <<fixed, consumed>>,
         effect'[Resume].state = "completed" \/ consumed = 0
  PROVE  ResumeOne'
<1>1. UNCHANGED Resume
  BY DEF fixed, Resume, TaskScope
<1>2. \A s \in Runs : ~Resumes(s)'
  <2>1. ASSUME NEW s \in Runs, Resumes(s)' PROVE FALSE
    <3>1. s # r /\ Resumes(s)
      BY <2>1 DEF Apart, Resumes, Works
    <3> QED
      BY <3>1 DEF ResumeOne
  <2> QED
    BY <2>1
<1> QED
  BY <1>1, <1>2 DEF ResumeOne

LEMMA ResumeStep ==
  ASSUME SwitchesWait, EffectTypeOK, FlowInv, ResumeOne, [Next]_vars,
         consumer = "resume", troubles' = 0
  PROVE  ResumeOne'
<1>c. ~Trouble
  BY NoTroubleBefore
<1>x. UNCHANGED fixed
  BY FixedStays
<1>t. /\ Typed /\ consumer \in {"attach", "resume"} /\ authority \in {"browser", "agent"}
      /\ home \in [Runs -> Pages] /\ effect \in [Effects -> Records]
      /\ lease \in [Pages -> [Kinds -> 0..MaxFence]]
      /\ \A r \in Runs : run[r] \in RunType
  BY EffectConstants DEF EffectTypeOK, Typed
<1>f. \A s \in Runs : /\ run[s].kind \in {"materialize", "resume"}
                      /\ run[s].pc # "idle" => Scope = TaskScope
                      /\ Works(s) => run[s].scope = TaskScope
  BY DEF FlowInv, Flow
<1>r. Resume \in Effects
  BY OutputIsEffect DEF Resume, Kinds
<1>l. UNCHANGED lease => LeaseStands
  BY DEF LeaseStands
<1>h. ASSUME NEW r \in Runs, Resumes(r)
      PROVE  Mine(r) = Resume /\ Holds(r) /\ HoldsResume(r)
  <2>1. Mine(r) = Resume /\ HoldsResume(r)
    BY <1>h, <1>f DEF Resumes, Mine, Resume, ResumeOne
  <2> QED
    BY <2>1 DEF Holds, HoldsResume
<1>o. ASSUME NEW r \in Runs, Works(r), ~Resumes(r) PROVE Mine(r) # Resume /\ run[r].kind = "materialize"
  BY <1>o, <1>f DEF Resumes, Mine, Resume
<1>z. Resume' = Resume
  BY <1>x DEF fixed, Resume, TaskScope
\* A step of one consumer that touches neither the record nor the lease.
<1>q. ASSUME NEW r \in Runs, Apart(r), UNCHANGED <<effect, lease, consumed>>,
             Resumes(r)' => /\ Resumes(r) /\ run'[r].fence = run[r].fence
                            /\ run'[r].beat # "failed" /\ (Served(r) => Served(r)'),
             Resumes(r) /\ Served(r) => Resumes(r)'
      PROVE  ResumeOne'
  BY <1>q, <1>l, <1>x, ApartQuiet
<1>m. ASSUME NEW r \in Runs, NEW p, Move(r, p), Works(r), p \notin {"idle", "claim"},
             UNCHANGED <<effect, lease, consumed>>,
             Resumes(r) => run'[r].beat # "failed",
             Resumes(r) /\ Served(r) => p \in {"finish", "complete"}
      PROVE  ResumeOne'
  <2>1. Resumes(r)' = Resumes(r) /\ run'[r].fence = run[r].fence /\ Apart(r)
    BY <1>m DEF Move, Resumes, Works
  <2>2. Resumes(r) /\ Served(r) => Served(r)'
    BY <1>m DEF Move, Served
  <2> QED
    BY <1>m, <1>q, <2>1, <2>2
<1>d. ASSUME NEW r \in Runs, Drop(r), Works(r), Resumes(r) => ~Served(r),
             UNCHANGED <<effect, lease, consumed>>
      PROVE  ResumeOne'
  <2>1. Move(r, "release") /\ (run[r].beat # "failed" => run'[r].beat # "failed")
    BY <1>d, <1>t, DropMoves
  <2>2. Resumes(r) => run'[r].beat # "failed"
    BY <2>1, <1>h DEF HoldsResume
  <2> QED
    BY <1>d, <1>m, <2>1, <2>2
<1>e. ASSUME NEW r \in Runs, Apart(r), ~Works(r)', Resumes(r) => ~Served(r),
             UNCHANGED <<effect, lease, consumed>>
      PROVE  ResumeOne'
  BY <1>e, <1>q DEF Resumes
<1>i. \A r \in Runs : End(r) => Apart(r) /\ ~Works(r)'
  BY <1>t, EndMoves, IdleFields DEF Works
<1>v. \A r \in Runs : Advance(r) => Apart(r) /\ ~Works(r)'
  BY <1>t, AdvanceMoves, IdleFields DEF Works
<1>1. ASSUME NEW r \in Runs, Start(r) PROVE ResumeOne'
  <2>1. Apart(r) /\ ~Works(r)' /\ ~Works(r)
    BY <1>1, <1>t, StartMoves DEF Apart, Works
  <2> QED
    BY <1>1, <2>1, <1>e DEF Start, Resumes
<1>2. ASSUME NEW r \in Runs, Claim(r) PROVE ResumeOne'
  <2> DEFINE e == <<Scope, run[r].kind>>
             n == effect[e].fence + 1
  <2>1. run[r].pc = "claim" /\ ~Works(r) /\ ~Resumes(r) /\ e = <<TaskScope, run[r].kind>>
    BY <1>2, <1>f DEF Claim, At, Works, Resumes
  <2>2. UNCHANGED <<consumed, fixed>>
    BY <1>2 DEF Claim
  <2>3. CASE (End(r) \/ Advance(r)) /\ UNCHANGED <<effect, lease>>
    BY <2>1, <2>2, <2>3, <1>e, <1>i, <1>v
  <2>4. CASE Grant(e) /\ Hold(r, e, n)
    <3> HIDE DEF n
    <3>1. /\ Apart(r) /\ run'[r].pc = "claimed" /\ run'[r].kind = run[r].kind
          /\ run'[r].scope = e[1] /\ run'[r].fence = n /\ run'[r].beat = run[r].beat
      BY <2>4, <1>t, HoldMoves
    <3>2. CASE run[r].kind # "resume"
      <4>1. e # Resume
        BY <2>1, <3>2 DEF Resume
      <4>2. effect'[Resume] = effect[Resume]
        BY <2>4, <4>1, <1>r, <1>t DEF Grant
      <4>3. LeaseStands
        BY <2>4, <3>2, <1>t DEF Hold, LeaseStands, Kinds
      <4>4. ~Resumes(r)'
        BY <3>1, <3>2 DEF Resumes
      <4> QED
        BY <2>1, <2>2, <3>1, <4>2, <4>3, <4>4, ApartQuiet
    <3>3. CASE run[r].kind = "resume"
      <4>1. e = Resume
        BY <2>1, <3>3 DEF Resume
      <4> HIDE DEF e
      <4>2. effect'[Resume] = [state |-> "pending", fence |-> n, live |-> TRUE]
        BY <2>4, <4>1, <1>r, <1>t DEF Grant, n
      <4>3. n # 0
        BY <4>1, <1>r, <1>t DEF n, Records
      <4>4. \A s \in Runs : ~Resumes(s)
        BY <2>4, <4>1, <1>h DEF Grant, Free, HoldsResume
      <4>5. consumed = 0
        BY <2>4, <4>1, <4>4 DEF ResumeOne, Grant, Free
      <4>6. Shown(r)' = n
        <5>1. authority # "browser" => lease'[home[r]]["resume"] = n
          BY <2>4, <3>3, <1>t DEF Hold, Kinds
        <5>2. UNCHANGED <<authority, home>>
          BY <2>2 DEF fixed
        <5> QED
          BY <3>1, <3>3, <5>1, <5>2 DEF Shown
      <4>7. run'[r].beat # "failed"
        BY <2>1, <3>1 DEF FlowInv, Flow
      <4>8. HoldsResume(r)'
        <5>1. /\ effect'[Resume].state = "pending" /\ effect'[Resume].live
              /\ effect'[Resume].fence = n /\ consumed' = 0
          BY <2>2, <4>2, <4>5
        <5> QED
          BY <1>z, <3>1, <4>3, <4>6, <4>7, <5>1 DEF HoldsResume
      <4>9. \A s \in Runs : Resumes(s)' => s = r
        BY <3>1, <4>4 DEF Apart, Resumes, Works
      <4> QED
        BY <2>2, <4>5, <4>8, <4>9 DEF ResumeOne
    <3> QED
      BY <3>2, <3>3
  <2> QED
    BY <1>2, <1>c, <2>3, <2>4 DEF Claim
<1>3. ASSUME NEW r \in Runs, Claimed(r) PROVE ResumeOne'
  <2>1. Works(r) /\ ~Served(r) /\ UNCHANGED <<effect, lease, consumed>>
    BY <1>3 DEF Claimed, At, Works, Served
  <2>2. CASE run[r].aborted
    BY <1>3, <2>1, <2>2, <1>e, <1>i DEF Claimed
  <2>3. CASE ~run[r].aborted
    BY <1>3, <2>1, <2>3, <1>m, <1>t, ClaimedMoves
  <2> QED
    BY <2>2, <2>3
<1>4. ASSUME NEW r \in Runs, RenewFails(r) PROVE ResumeOne'
  <2>1. Works(r) /\ ~Resumes(r) /\ UNCHANGED <<effect, lease, consumed>>
    BY <1>4, <1>c, <1>h DEF RenewFails, FlowInv, Flow, Works
  <2>2. Move(r, run[r].pc)
    BY <1>4, <1>t, RenewMoves
  <2> QED
    BY <2>1, <2>2, <1>m DEF Works
<1>5. ASSUME NEW r \in Runs, Consume(r) PROVE ResumeOne'
  <2>1. Works(r) /\ ~Resumes(r) /\ UNCHANGED <<effect, lease, consumed>>
    BY <1>5 DEF Consume, At, Works, Resumes
  <2>2. CASE Stopped(r)
    BY <1>5, <2>1, <2>2, <1>d DEF Consume
  <2>3. CASE ~Stopped(r)
    BY <1>5, <2>1, <2>3, <1>m, <1>t, ConsumeMoves
  <2> QED
    BY <2>2, <2>3
<1>p. ASSUME NEW r \in Runs, run[r].pc \in Writing
      PROVE  Works(r) /\ ~Resumes(r)
  BY <1>p DEF Writing, Works, Resumes, FlowInv, Flow
<1>6. ASSUME NEW r \in Runs, LockArtifact(r) PROVE ResumeOne'
  <2>1. Works(r) /\ ~Resumes(r) /\ Move(r, "download")
    BY <1>6, <1>p, <1>t, GotoMoves DEF LockArtifact, At, Writing
  <2> QED
    BY <1>6, <2>1, <1>m DEF LockArtifact
<1>7. ASSUME NEW r \in Runs, Download(r) PROVE ResumeOne'
  <2>1. Works(r) /\ ~Resumes(r) /\ UNCHANGED <<effect, lease, consumed>>
    BY <1>7, <1>p DEF Download, At, Writing
  <2> QED
    BY <1>7, <2>1, <1>d, <1>m, <1>t, DownloadMoves
<1>8. ASSUME NEW r \in Runs, ReadAssets(r) PROVE ResumeOne'
  <2>1. Works(r) /\ ~Resumes(r) /\ UNCHANGED <<effect, lease, consumed>>
    BY <1>8, <1>p DEF ReadAssets, At, Writing
  <2> QED
    BY <1>8, <2>1, <1>d, <1>m, <1>t, ReadMoves
<1>9. ASSUME NEW r \in Runs, Persist(r) PROVE ResumeOne'
  <2>1. Works(r) /\ ~Resumes(r) /\ UNCHANGED <<effect, lease, consumed>>
    BY <1>9, <1>p DEF Persist, At, Writing
  <2> QED
    BY <1>9, <2>1, <1>d, <1>m, <1>t, PersistMoves
<1>10. ASSUME NEW r \in Runs, Serve(r) PROVE ResumeOne'
  <2>1. Works(r) /\ Resumes(r) /\ ~Served(r) /\ UNCHANGED <<effect, lease>>
    BY <1>10, <1>f DEF Serve, At, Works, Resumes, Served
  <2>2. CASE Drop(r) /\ UNCHANGED consumed
    BY <2>1, <2>2, <1>d
  <2>3. CASE consumed' = consumed + 1 /\ Goto(r, "finish")
    <3>1. Move(r, "finish") /\ run'[r].beat = run[r].beat
      BY <2>3, <1>t, GotoMoves
    <3>2. HoldsResume(r) /\ consumed = 0
      BY <2>1, <1>h DEF HoldsResume
    <3>3. Resumes(r)' /\ Served(r)' /\ consumed' = 1
      BY <2>1, <2>3, <3>1, <3>2 DEF Move, Resumes, Works, Served
    <3>4. Shown(r)' = Shown(r)
      BY <2>1, <3>1, <1>x DEF Move, Shown, fixed
    <3>5. HoldsResume(r)'
      BY <1>z, <2>1, <3>1, <3>2, <3>3, <3>4 DEF HoldsResume, Move
    <3>6. \A s \in Runs : Resumes(s)' => s = r
      BY <2>1, <3>1 DEF Move, Apart, Resumes, Works, ResumeOne
    <3> QED
      BY <3>3, <3>5, <3>6 DEF ResumeOne
  <2> QED
    BY <1>10, <2>2, <2>3 DEF Serve
<1>11. ASSUME NEW r \in Runs, Finish(r) PROVE ResumeOne'
  <2>1. Works(r) /\ Served(r) /\ UNCHANGED <<effect, lease, consumed>>
    BY <1>11 DEF Finish, At, Works, Served
  <2>2. CASE /\ Drop(r)
             /\ \/ run[r].beat = "failed" \/ run[r].kind = "materialize"
                \/ run[r].aborted /\ run[r].kind # "resume"
    <3>1. ~Resumes(r)
      BY <2>2, <1>h DEF HoldsResume, Resumes
    <3> QED
      BY <2>1, <2>2, <3>1, <1>d
  <2>3. CASE Move(r, "complete") /\ run'[r].beat = "off"
    BY <2>1, <2>3, <1>m
  <2> QED
    BY <1>11, <2>2, <2>3, <1>t, FinishMoves
\* A record is ended: the second effect's by its only consumer, another's without
\* it.
<1>n. ASSUME NEW r \in Runs, NEW s \in {"completed", "released"}, Works(r), Apart(r), ~Works(r)',
             Record(Mine(r), s), Forget(r), UNCHANGED consumed, s = "released" => ~Served(r)
      PROVE  ResumeOne'
  <2>1. CASE Resumes(r)
    <3>1. Mine(r) = Resume /\ HoldsResume(r)
      BY <2>1, <1>h
    <3>2. effect'[Resume].state = s
      BY <1>n, <3>1, <1>r, <1>t DEF Record, Records
    <3>3. effect'[Resume].state = "completed" \/ consumed = 0
      BY <1>n, <3>1, <3>2 DEF HoldsResume
    <3> QED
      BY <1>n, <2>1, <3>3, <1>x, NoneLeft DEF Resumes
  <2>2. CASE ~Resumes(r)
    <3>1. Mine(r) # Resume /\ run[r].kind = "materialize"
      BY <1>n, <2>2, <1>o
    <3>2. effect'[Resume] = effect[Resume]
      BY <1>n, <3>1, <1>r, <1>t DEF Record
    <3>3. LeaseStands
      BY <1>n, <3>1, <1>t DEF Forget, LeaseStands, Kinds
    <3> QED
      BY <1>n, <2>2, <3>2, <3>3, <1>x, ApartQuiet DEF Resumes
  <2> QED
    BY <2>1, <2>2
<1>12. ASSUME NEW r \in Runs, Complete(r) PROVE ResumeOne'
  <2>1. Works(r) /\ UNCHANGED consumed
    BY <1>12 DEF Complete, At, Works
  <2>2. CASE Record(Mine(r), "completed") /\ Forget(r) /\ Advance(r)
    BY <2>1, <2>2, <1>v, <1>n
  <2>3. CASE ~Holds(r) /\ Drop(r) /\ UNCHANGED <<effect, lease>>
    BY <2>1, <2>3, <1>h, <1>d
  <2> QED
    BY <1>12, <1>c, <2>2, <2>3 DEF Complete
<1>13. ASSUME NEW r \in Runs, Release(r) PROVE ResumeOne'
  <2>1. Works(r) /\ ~Served(r) /\ Apart(r) /\ ~Works(r)' /\ UNCHANGED consumed
    BY <1>13, <1>i DEF Release, At, Works, Served
  <2>2. CASE Record(Mine(r), "released") /\ Forget(r)
    BY <2>1, <2>2, <1>n
  <2>3. CASE UNCHANGED <<effect, lease>>
    BY <2>1, <2>3, <1>e
  <2> QED
    BY <1>13, <1>c, <2>2, <2>3 DEF Release
<1>14. ASSUME NEW r \in Runs, Abort(r) PROVE ResumeOne'
  <2>1. Move(r, run[r].pc) /\ run'[r].beat = run[r].beat
    BY <1>14, <1>t, AbortMoves
  <2>2. CASE Works(r)
    <3>1. Resumes(r) => run'[r].beat # "failed"
      BY <2>1, <1>h DEF HoldsResume
    <3> QED
      BY <1>14, <2>1, <2>2, <3>1, <1>m DEF Abort, Works, Served
  <2>3. CASE ~Works(r)
    <3>1. Apart(r) /\ ~Works(r)' /\ ~Resumes(r)
      BY <2>1, <2>3 DEF Move, Works, Resumes
    <3> QED
      BY <1>14, <3>1, <1>e DEF Abort
  <2> QED
    BY <2>2, <2>3
<1>k. ASSUME UNCHANGED <<run, lease, consumed>>, effect'[Resume] = effect[Resume] PROVE ResumeOne'
  <2>1. \A s \in Runs : Shown(s)' = Shown(s)
    BY <1>k, <1>x DEF Shown, fixed
  <2>2. ResumeQuiet
    <3>1. \A s \in Runs : Resumes(s)' = Resumes(s) /\ Served(s)' = Served(s)
      BY <1>k DEF Resumes, Works, Served
    <3> QED
      BY <1>k, <1>z, <1>h, <2>1, <3>1 DEF ResumeQuiet, HoldsResume
  <2> QED
    BY <2>2, QuietKeeps
<1>15. ASSUME NEW e \in Effects, Lapse(e) PROVE ResumeOne'
  <2>1. UNCHANGED <<run, lease, consumed>>
    BY <1>15 DEF Lapse
  <2>2. CASE e # Resume
    <3>1. effect'[Resume] = effect[Resume]
      BY <1>15, <2>2, <1>r, <1>t DEF Lapse
    <3> QED
      BY <2>1, <3>1, <1>k
  <2>3. CASE e = Resume
    <3>1. ASSUME NEW s \in Runs, Resumes(s) PROVE FALSE
      <4>1. Kept(Resume)
        BY <3>1, <1>h DEF HoldsResume, Kept, Resumes, Works, At
      <4> QED
        BY <1>15, <2>3, <4>1, <1>c DEF Lapse
    <3>2. effect[Resume].state # "completed"
      BY <1>15, <2>3 DEF Lapse
    <3>3. consumed' = 0 /\ \A s \in Runs : ~Resumes(s)'
      BY <2>1, <3>1, <3>2 DEF ResumeOne, Resumes, Works
    <3> QED
      BY <3>3 DEF ResumeOne
  <2> QED
    BY <2>2, <2>3
<1>16. ASSUME NEW p \in Pages PROVE ~Reload(p)
  BY <1>c DEF Reload
<1>17. ASSUME NEW p \in Pages, PauseConsumers(p) PROVE ResumeOne'
  <2>1. \A s \in Runs : /\ run'[s].pc = run[s].pc /\ run'[s].kind = run[s].kind
                        /\ run'[s].fence = run[s].fence /\ run'[s].beat = run[s].beat
    <3>1. ASSUME NEW s \in Runs, run'[s] = [run[s] EXCEPT !.aborted = TRUE]
          PROVE  /\ run'[s].pc = run[s].pc /\ run'[s].kind = run[s].kind
                 /\ run'[s].fence = run[s].fence /\ run'[s].beat = run[s].beat
      <4>1. run[s] \in RunType
        BY <1>t
      <4> QED
        BY ONLY <3>1, <4>1 DEF RunType
    <3> QED
      BY <1>17, <3>1 DEF PauseConsumers
  <2>2. UNCHANGED <<effect, lease, consumed>>
    BY <1>17 DEF PauseConsumers
  <2>3. \A s \in Runs : /\ Shown(s)' = Shown(s) /\ Resumes(s)' = Resumes(s)
                        /\ Served(s)' = Served(s)
    BY <2>1, <2>2, <1>x DEF Shown, fixed, Resumes, Works, Served
  <2>4. ResumeQuiet
    BY <2>1, <2>2, <2>3, <1>z, <1>h DEF ResumeQuiet, HoldsResume
  <2> QED
    BY <2>4, QuietKeeps
<1>18. ASSUME NEW p \in Pages, SwitchScope(p) PROVE ResumeOne'
  BY <1>18, <1>k DEF SwitchScope
<1>19. ASSUME NEW a \in Accounts, DeleteAsset(a) PROVE ResumeOne'
  BY <1>19, <1>k DEF DeleteAsset
<1>20. CASE UNCHANGED vars
  BY <1>20, <1>k DEF vars
<1> QED
  BY <1>1, <1>2, <1>3, <1>4, <1>5, <1>6, <1>7, <1>8, <1>9, <1>10, <1>11, <1>12, <1>13, <1>14,
     <1>15, <1>16, <1>17, <1>18, <1>19, <1>20 DEF Next, Work

LEMMA ResumeInit == Init => ResumeInv
<1> SUFFICES ASSUME Init PROVE (\A r \in Runs : ~Resumes(r)) /\ consumed = 0
  BY DEF ResumeInv, ResumeOne
<1> QED
  BY IdleFields DEF Init, Resumes, Works

(* A continuation of the agent is resumed at most once, whoever aborts it   *)
(* and whenever, as long as no lease lapses under its holder, no call is    *)
(* lost and no page closes: for any number of pages and consumers, also     *)
(* where two consumers share a page of the agent's store.                   *)
THEOREM ResumesOnce == SwitchesWait => (EffectSpec => []ResumedOnce)
<1> SUFFICES ASSUME SwitchesWait PROVE EffectSpec => []ResumedOnce
  OBVIOUS
<1>1. EffectTypeOK /\ FlowInv /\ ResumeInv /\ [Next]_vars => ResumeInv'
  <2> SUFFICES ASSUME EffectTypeOK, FlowInv, ResumeInv, [Next]_vars,
                      consumer' = "resume", troubles' = 0
               PROVE  ResumeOne'
    BY DEF ResumeInv
  <2>1. consumer = "resume" /\ troubles = 0
    BY FixedStays, NoTroubleBefore DEF fixed
  <2> QED
    BY <2>1, ResumeStep DEF ResumeInv
<1>2. ResumeInv => ResumedOnce
  BY DEF ResumeInv, ResumeOne, ResumedOnce
<1>3. EffectSpec => []FlowInv
  BY EffectsInOrder, PTL
<1> QED
  BY <1>1, <1>2, <1>3, ResumeInit, TypeCorrect, PTL DEF EffectSpec
=============================================================================
