-------------------------- MODULE GenerationEffects --------------------------
(***************************************************************************)
(* web/src/services: how the pages of a browser turn the output of one     *)
(* finished generation into an asset and hand it to what waits for it, in  *)
(* spite of several tabs, closed pages, lost leases and account switches   *)
(* (generation-task-materializer.ts, project-asset-sync.ts,                *)
(* generation-consumer-lifecycle.ts).                                      *)
(*                                                                         *)
(* Each effect is claimed from an authority: the records of the browser,   *)
(* one per account (provider-neutral-generation-effects.ts), or the task   *)
(* store of the canvas agent (dreamina-task-store.ts), through a store     *)
(* that keeps one lease per effect and page (local-dreamina-generation.ts).*)
(* A step is one exclusive access to a record, one lock, or one awaited    *)
(* piece of work.  Expiry is a flag on the lease.                          *)
(***************************************************************************)
EXTENDS Naturals, FiniteSets

CONSTANTS
  Pages,         \* tabs that are open
  Runs,          \* consumers of the task, each in one page
  Accounts,      \* accounts that use this browser
  Owner,         \* the account the task belongs to
  Local,         \* where the records of the canvas agent are
  NoRun,
  NoClaim,
  Authorities,   \* "browser", "agent"
  MaxFence,      \* bound: claims of one effect
  MaxTroubles,   \* bound: leases that lapse under a live holder, lost or failed
                 \* calls, pages that are reloaded, all together
  MaxSwitches,   \* bound: account switches
  Twins,         \* two consumers of the task may share a page of the agent's store
  Elsewhere      \* an account may be switched while another page consumes

ASSUME EffectConstants ==
  /\ Owner \in Accounts /\ Local \notin Accounts
  /\ NoRun \notin Runs
  /\ Authorities \subseteq {"browser", "agent"}
  /\ {MaxFence, MaxTroubles, MaxSwitches} \subseteq Nat
  /\ {Twins, Elsewhere} \subseteq BOOLEAN

VARIABLES
  authority,   \* of the task's effects, fixed
  consumer,    \* what waits for the task: "attach" or "resume", fixed
  outputs,     \* the task comes with outputs to materialize first, fixed
  home,        \* the page of each run, fixed
  active,      \* the account of the browser, in storage all pages share
  switching,   \* pages that drain their consumers before a switch
  effect,      \* the records of the effects
  lease,       \* agent: the lease each page keeps for an effect
  run,         \* what each consumer is doing
  artifact,    \* per account, who holds the commit lock of generated files
  storage,     \* per account, who holds the lock of the stored assets
  asset,       \* the stored asset of the output, per account
  consumed,    \* how often the consumer was served to the end
  troubles, switches

fixed == <<authority, consumer, outputs, home>>
locks == <<artifact, storage>>
vars  == <<fixed, active, switching, effect, lease, run, locks, asset, consumed,
           troubles, switches>>

Kinds   == {"materialize", "attach", "resume"}
Effects == (Accounts \cup {Local}) \X Kinds
States  == {"none", "pending", "completed", "released"}
Records == [state : States, fence : 0..MaxFence, live : BOOLEAN]

Steps == {"idle", "claim", "claimed", "consume", "queue", "download", "store", "persist",
          "finish", "complete", "release"}

\* kind: the effect it is at; into: the account it is about to write to; saw: what
\* it read of the stored assets there.
RunType == [pc : Steps, kind : Kinds, scope : Accounts \cup {Local}, fence : 0..MaxFence,
            beat : {"off", "on", "failed"}, aborted : BOOLEAN, into : Accounts,
            saw : {"none", "stored", "deleted"}]
Idle == [pc |-> "idle", kind |-> "materialize", scope |-> Local, fence |-> 0,
         beat |-> "off", aborted |-> FALSE, into |-> Owner, saw |-> "none"]

(* Records, leases, consumers, locks and assets have their types.           *)
EffectTypeOK ==
  /\ authority \in Authorities /\ consumer \in {"attach", "resume"} /\ outputs \in BOOLEAN
  /\ home \in [Runs -> Pages]
  /\ active \in Accounts /\ switching \subseteq Pages
  /\ effect \in [Effects -> Records]
  /\ lease \in [Pages -> [Kinds -> 0..MaxFence]]
  /\ run \in [Runs -> RunType]
  /\ {artifact, storage} \subseteq [Accounts -> Runs \cup {NoRun}]
  /\ asset \in [Accounts -> {"none", "stored", "deleted"}]
  /\ consumed \in Nat
  /\ troubles \in 0..MaxTroubles /\ switches \in 0..MaxSwitches

\* An attachment needs its output.  A continuation takes the task as it is: one of
\* the backend has a result, but no outputs, one of the agent may have some.
Handed ==
  \/ consumer = "attach" /\ outputs
  \/ consumer = "resume" /\ (outputs => authority = "agent")

Init ==
  /\ authority \in Authorities /\ consumer \in {"attach", "resume"}
  /\ outputs \in BOOLEAN /\ Handed
  /\ home \in [Runs -> Pages]
  /\ (authority = "agent" /\ ~Twins) =>
        \A r, s \in Runs : home[r] = home[s] => r = s
  /\ active = Owner /\ switching = {}
  /\ effect = [e \in Effects |-> [state |-> "none", fence |-> 0, live |-> FALSE]]
  /\ lease = [p \in Pages |-> [k \in Kinds |-> 0]]
  /\ run = [r \in Runs |-> Idle]
  /\ artifact = [a \in Accounts |-> NoRun] /\ storage = [a \in Accounts |-> NoRun]
  /\ asset = [a \in Accounts |-> "none"]
  /\ consumed = 0 /\ troubles = 0 /\ switches = 0

At(r, step)   == run[r].pc = step
Busy(p)       == {r \in Runs : home[r] = p /\ ~At(r, "idle")}
Goto(r, step) == run' = [run EXCEPT ![r].pc = step]
End(r)        == run' = [run EXCEPT ![r] = Idle]
\* releaseClaim: it stops the heartbeat, and no abort matters any more.
Dropped(c)    == [c EXCEPT !.pc = "release", !.aborted = FALSE, !.into = Owner, !.saw = "none",
                           !.beat = IF c.beat = "failed" THEN "failed" ELSE "off"]
Drop(r)       == run' = [run EXCEPT ![r] = Dropped(run[r])]
Trouble       == troubles < MaxTroubles /\ troubles' = troubles + 1
Calm          == UNCHANGED troubles

\* The signal a consumer sees: its caller's, or the one of the heartbeat.
Stopped(r) == run[r].aborted \/ run[r].beat = "failed"

\* What its record is, and what the lease it shows to it says.
Mine(r)  == <<run[r].scope, run[r].kind>>
Shown(r) == IF authority = "browser" THEN run[r].fence ELSE lease[home[r]][run[r].kind]
Holds(r) == LET e == effect[Mine(r)] IN
            /\ Shown(r) # 0 /\ e.state = "pending" /\ e.fence = Shown(r) /\ e.live

Forget(r) == lease' = [lease EXCEPT ![home[r]][run[r].kind] = 0]

(***************************************************************************)
(* runGenerationConsumer and claimWhenAvailable.                           *)
(***************************************************************************)
Scope == IF authority = "browser" THEN active ELSE Local

\* What the task waits for first.
First == IF outputs THEN "materialize" ELSE consumer

\* A page of another account has other tasks; the agent's are everybody's.
Start(r) ==
  /\ At(r, "idle") /\ home[r] \notin switching
  /\ authority = "browser" => active = Owner
  /\ run' = [run EXCEPT ![r] = [@ EXCEPT !.pc = "claim", !.kind = First]]
  /\ UNCHANGED <<fixed, active, switching, effect, lease, locks, asset, consumed,
                 troubles, switches>>

\* The next effect of the task, once the asset is there.
Advance(r) ==
  run' = [run EXCEPT ![r] = IF run[r].kind # "materialize" THEN Idle
            ELSE [Idle EXCEPT !.pc = "claim", !.kind = consumer, !.aborted = run[r].aborted]]

Free(e) ==
  \/ effect[e].state \in {"none", "released"}
  \/ effect[e].state = "pending" /\ ~effect[e].live

Grant(e) ==
  /\ Free(e) /\ effect[e].fence < MaxFence
  /\ effect' = [effect EXCEPT ![e] = [state |-> "pending", fence |-> effect[e].fence + 1,
                                      live |-> TRUE]]

\* A claim of a browser's record is bound to it; one of the agent's is what the
\* page keeps for the effect.
Hold(r, e, n) ==
  /\ run' = [run EXCEPT ![r] = [@ EXCEPT !.pc = "claimed", !.scope = e[1], !.fence = n]]
  /\ lease' = IF authority = "browser" THEN lease
              ELSE [lease EXCEPT ![home[r]][run[r].kind] = n]

\* The answer of the agent may be lost after the agent has recorded the claim.
Claim(r) ==
  LET e == <<Scope, run[r].kind>> IN
  /\ At(r, "claim")
  /\ \/ run[r].aborted /\ End(r) /\ Calm /\ UNCHANGED <<effect, lease>>
     \/ /\ ~run[r].aborted /\ effect[e].state = "completed"
        /\ Advance(r) /\ Calm /\ UNCHANGED <<effect, lease>>
     \/ ~run[r].aborted /\ Grant(e) /\ Hold(r, e, effect[e].fence + 1) /\ Calm
     \/ /\ ~run[r].aborted /\ Grant(e) /\ authority = "agent"
        /\ Trouble /\ End(r) /\ UNCHANGED lease
     \/ Trouble /\ End(r) /\ UNCHANGED <<effect, lease>>
  /\ UNCHANGED <<fixed, active, switching, locks, asset, consumed, switches>>

\* An abort that came during the claim leaves the lease to lapse.
Claimed(r) ==
  /\ At(r, "claimed")
  /\ IF run[r].aborted THEN End(r)
     ELSE run' = [run EXCEPT ![r] = [@ EXCEPT !.pc = "consume", !.beat = "on"]]
  /\ UNCHANGED <<fixed, active, switching, effect, lease, locks, asset, consumed,
                 troubles, switches>>

\* startLeaseHeartbeat: a renewal that fails stops the consumer.  One that
\* succeeds changes nothing here.
RenewFails(r) ==
  /\ run[r].beat = "on"
  /\ IF Holds(r) THEN Trouble ELSE Calm
  /\ run' = [run EXCEPT ![r].beat = "failed"]
  /\ UNCHANGED <<fixed, active, switching, effect, lease, locks, asset, consumed, switches>>

(***************************************************************************)
(* materializeGenerationOutput, addGenerationAsset and                     *)
(* insertOrReturnGenerationAsset: under the commit lock of the account     *)
(* that is active now the files are fetched, then under the storage lock   *)
(* of the account that is active then the asset is written.                *)
(***************************************************************************)
Unlock(r) ==
  /\ artifact' = [a \in Accounts |-> IF artifact[a] = r THEN NoRun ELSE artifact[a]]
  /\ storage' = [a \in Accounts |-> IF storage[a] = r THEN NoRun ELSE storage[a]]

Consume(r) ==
  /\ At(r, "consume") /\ run[r].kind = "materialize"
  /\ IF Stopped(r) THEN Drop(r)
     ELSE run' = [run EXCEPT ![r] = [@ EXCEPT !.pc = "queue", !.into = active]]
  /\ UNCHANGED <<fixed, active, switching, effect, lease, locks, asset, consumed,
                 troubles, switches>>

LockArtifact(r) ==
  /\ At(r, "queue") /\ artifact[run[r].into] = NoRun
  /\ artifact' = [artifact EXCEPT ![run[r].into] = r]
  /\ Goto(r, "download")
  /\ UNCHANGED <<fixed, active, switching, effect, lease, storage, asset, consumed,
                 troubles, switches>>

Download(r) ==
  /\ At(r, "download")
  /\ \/ /\ ~Stopped(r) /\ UNCHANGED locks
        /\ run' = [run EXCEPT ![r] = [@ EXCEPT !.pc = "store", !.into = active]]
     \/ Unlock(r) /\ Drop(r)   \* stopped, or it fails
  /\ UNCHANGED <<fixed, active, switching, effect, lease, asset, consumed, troubles, switches>>

ReadAssetsVariant(r) ==   \* the storage lock is not waited for
  /\ At(r, "store")
  /\ run' = [run EXCEPT ![r] = [@ EXCEPT !.pc = "persist", !.saw = asset[run[r].into]]]
  /\ UNCHANGED <<fixed, active, switching, effect, lease, locks, asset, consumed,
                 troubles, switches>>

ReadAssets(r) ==
  /\ At(r, "store") /\ storage[run[r].into] = NoRun
  /\ IF Stopped(r) THEN Unlock(r) /\ Drop(r)
     ELSE /\ storage' = [storage EXCEPT ![run[r].into] = r]
          /\ run' = [run EXCEPT ![r] = [@ EXCEPT !.pc = "persist",
                                                 !.saw = asset[run[r].into]]]
          /\ UNCHANGED artifact
  /\ UNCHANGED <<fixed, active, switching, effect, lease, asset, consumed, troubles, switches>>

\* What the user has deleted is not made again; what is there is returned.
Persist(r) ==
  /\ At(r, "persist")
  /\ \/ /\ ~Stopped(r) /\ run[r].saw # "deleted"
        /\ asset' = [asset EXCEPT ![run[r].into] = "stored"]
        /\ run' = [run EXCEPT ![r] = [@ EXCEPT !.pc = "finish", !.into = Owner, !.saw = "none"]]
        /\ Calm
     \/ /\ Stopped(r) \/ run[r].saw = "deleted"
        /\ Drop(r) /\ Calm /\ UNCHANGED asset
     \/ Trouble /\ Drop(r) /\ UNCHANGED asset
  /\ Unlock(r)
  /\ UNCHANGED <<fixed, active, switching, effect, lease, consumed, switches>>

(***************************************************************************)
(* consumeEffect: what waits for the asset is served, or throws.  A        *)
(* continuation of the agent that was served is completed in any case.     *)
(***************************************************************************)
Serve(r) ==
  /\ At(r, "consume") /\ run[r].kind # "materialize"
  /\ \/ ~Stopped(r) /\ consumed' = consumed + 1 /\ Goto(r, "finish")
     \/ Drop(r) /\ UNCHANGED consumed
  /\ UNCHANGED <<fixed, active, switching, effect, lease, locks, asset, troubles, switches>>

FinishVariant(r) ==   \* an abort is obeyed whatever was done
  /\ At(r, "finish")
  /\ \/ /\ ~Stopped(r)
        /\ run' = [run EXCEPT ![r] = [@ EXCEPT !.pc = "complete", !.beat = "off"]]
     \/ Stopped(r) /\ Drop(r)
  /\ UNCHANGED <<fixed, active, switching, effect, lease, locks, asset, consumed,
                 troubles, switches>>

\* Uploading the stored asset to the configured sources may fail; then the
\* heartbeat is stopped, which fails when a renewal has.
Finish(r) ==
  /\ At(r, "finish")
  /\ \/ /\ run[r].beat # "failed" /\ (run[r].kind = "resume" \/ ~run[r].aborted)
        /\ run' = [run EXCEPT ![r] = [@ EXCEPT !.pc = "complete", !.beat = "off"]]
     \/ /\ \/ run[r].beat = "failed"
           \/ run[r].aborted /\ run[r].kind # "resume"
           \/ run[r].kind = "materialize"
        /\ Drop(r)
  /\ UNCHANGED <<fixed, active, switching, effect, lease, locks, asset, consumed,
                 troubles, switches>>

Record(e, s) == effect' = [effect EXCEPT ![e] = [@ EXCEPT !.state = s, !.live = FALSE]]

CompleteVariant(r) ==   \* only the state of the record is compared
  LET e == Mine(r) IN
  /\ At(r, "complete")
  /\ \/ effect[e].state = "pending" /\ Record(e, "completed") /\ Forget(r) /\ Advance(r)
     \/ effect[e].state # "pending" /\ Drop(r) /\ UNCHANGED <<effect, lease>>
  /\ UNCHANGED <<fixed, active, switching, locks, asset, consumed, troubles, switches>>

Complete(r) ==
  /\ At(r, "complete")
  /\ \/ Holds(r) /\ Calm /\ Record(Mine(r), "completed") /\ Forget(r) /\ Advance(r)
     \/ /\ Holds(r) /\ authority = "agent" /\ Trouble   \* the answer is lost
        /\ Record(Mine(r), "completed") /\ Drop(r) /\ UNCHANGED lease
     \/ /\ ~Holds(r) /\ Calm
        /\ Drop(r) /\ UNCHANGED <<effect, lease>>
     \/ Trouble /\ Drop(r) /\ UNCHANGED <<effect, lease>>
  /\ UNCHANGED <<fixed, active, switching, locks, asset, consumed, switches>>

\* releaseClaim, which fails with what went wrong before in any case.
Release(r) ==
  /\ At(r, "release") /\ End(r)
  /\ \/ Holds(r) /\ Calm /\ Record(Mine(r), "released") /\ Forget(r)
     \/ Holds(r) /\ authority = "agent" /\ Trouble /\ Record(Mine(r), "released") /\ UNCHANGED lease
     \/ ~Holds(r) /\ Calm /\ UNCHANGED <<effect, lease>>
     \/ Trouble /\ UNCHANGED <<effect, lease>>
  /\ UNCHANGED <<fixed, active, switching, locks, asset, consumed, switches>>

(***************************************************************************)
(* Callers abort; leases lapse; pages are reloaded; users delete assets.   *)
(***************************************************************************)
Abort(r) ==
  /\ run[r].pc \notin {"idle", "release"} /\ ~run[r].aborted
  /\ run' = [run EXCEPT ![r].aborted = TRUE]
  /\ UNCHANGED <<fixed, active, switching, effect, lease, locks, asset, consumed,
                 troubles, switches>>

\* A holder whose heartbeat runs, or that has just stopped it to finish, keeps
\* its lease, unless the page is suspended.
Kept(e) ==
  \E r \in Runs : ~At(r, "idle") /\ ~At(r, "claim") /\ run[r].beat # "failed"
                    /\ Mine(r) = e /\ run[r].fence = effect[e].fence

Lapse(e) ==
  /\ effect[e].state = "pending" /\ effect[e].live
  /\ IF Kept(e) THEN Trouble ELSE Calm
  /\ effect' = [effect EXCEPT ![e].live = FALSE]
  /\ UNCHANGED <<fixed, active, switching, lease, run, locks, asset, consumed, switches>>

Held(lock, p) == [a \in Accounts |-> IF lock[a] \in Busy(p) THEN NoRun ELSE lock[a]]

Reload(p) ==
  /\ Busy(p) # {} /\ Trouble
  /\ run' = [r \in Runs |-> IF home[r] = p THEN Idle ELSE run[r]]
  /\ lease' = [lease EXCEPT ![p] = [k \in Kinds |-> 0]]
  /\ artifact' = Held(artifact, p) /\ storage' = Held(storage, p)
  /\ switching' = switching \ {p}
  /\ UNCHANGED <<fixed, active, effect, asset, consumed, switches>>

\* Every write of the stored assets takes their lock.
DeleteAsset(a) ==
  /\ asset[a] = "stored" /\ storage[a] = NoRun
  /\ asset' = [asset EXCEPT ![a] = "deleted"]
  /\ UNCHANGED <<fixed, active, switching, effect, lease, run, locks, consumed,
                 troubles, switches>>

(***************************************************************************)
(* withGenerationConsumersPaused and switchUserStorageScope.               *)
(***************************************************************************)
PauseConsumersVariant(p) ==   \* the account is switched at once
  /\ switches < MaxSwitches /\ p \notin switching
  /\ active' \in Accounts \ {active} /\ switches' = switches + 1
  /\ UNCHANGED <<fixed, switching, effect, lease, run, locks, asset, consumed, troubles>>

PauseConsumers(p) ==
  /\ switches < MaxSwitches /\ p \notin switching
  /\ switching' = switching \cup {p} /\ switches' = switches + 1
  /\ run' = [r \in Runs |-> IF r \in Busy(p) THEN [run[r] EXCEPT !.aborted = TRUE] ELSE run[r]]
  /\ UNCHANGED <<fixed, active, effect, lease, locks, asset, consumed, troubles>>

SwitchScopeVariant(p) ==   \* signing out leaves no scope
  /\ p \in switching /\ Busy(p) = {}
  /\ Elsewhere \/ \A q \in Pages : Busy(q) = {}
  /\ active' \in (Accounts \cup {Local}) \ {active}
  /\ switching' = switching \ {p}
  /\ UNCHANGED <<fixed, effect, lease, run, locks, asset, consumed, troubles, switches>>

SwitchScope(p) ==
  /\ p \in switching /\ Busy(p) = {}
  /\ Elsewhere \/ \A q \in Pages : Busy(q) = {}
  /\ active' \in Accounts \ {active}
  /\ switching' = switching \ {p}
  /\ UNCHANGED <<fixed, effect, lease, run, locks, asset, consumed, troubles, switches>>

Work(r) ==
  \/ Claim(r) \/ Claimed(r) \/ Consume(r) \/ LockArtifact(r) \/ Download(r) \/ ReadAssets(r)
  \/ Persist(r) \/ Serve(r) \/ Finish(r) \/ Complete(r) \/ Release(r)

Next ==
  \/ \E r \in Runs : Start(r) \/ Work(r) \/ RenewFails(r) \/ Abort(r)
  \/ \E e \in Effects : Lapse(e)
  \/ \E p \in Pages : Reload(p) \/ PauseConsumers(p) \/ SwitchScope(p)
  \/ \E a \in Accounts : DeleteAsset(a)

EffectSpec == Init /\ [][Next]_vars

-----------------------------------------------------------------------------
Works(r) == run[r].pc \notin {"idle", "claim"}

StatusOf(e) ==
  CASE effect[e].state \in {"none", "released"} -> "free"
    [] effect[e].state = "completed" -> "done"
    [] effect[e].state = "pending" -> IF effect[e].live THEN "held" ELSE "lapsed"

ClaimOf(r) == IF Works(r) THEN [effect |-> Mine(r), fence |-> run[r].fence] ELSE NoClaim

Once == INSTANCE OnceEffect WITH
  Workers <- Runs,
  status <- [e \in Effects |-> StatusOf(e)],
  fence <- [e \in Effects |-> effect[e].fence],
  claim <- [r \in Runs |-> ClaimOf(r)]

(* Whatever is aborted, reloaded, suspended or lost, and whoever claims     *)
(* after it: only the newest claim of an effect ends it, only before it     *)
(* lapses, and what is completed stays completed.                           *)
OnceSpec == Once!Spec

(* "生成素材已被用户删除": an asset the user deleted does not come back,     *)
(* whoever materializes the same output at that moment.                     *)
DeletedStays == [][\A a \in Accounts : asset[a] = "deleted" => asset'[a] = "deleted"]_vars

(* A completed materialization has its asset, in the account the record     *)
(* belongs to (of the agent's records: in an account), unless the user      *)
(* deleted it since, although the account of the browser may be switched.   *)
CompletedHasAsset ==
  \A a \in Accounts \cup {Local} :
    effect[<<a, "materialize">>].state = "completed" =>
      \E b \in Accounts : (a = Local \/ a = b) /\ asset[b] # "none"

(* Nothing of a task with outputs is attached or resumed before its output  *)
(* is an asset: the second effect is claimed only where the first one is    *)
(* completed.  The continuation of a task without outputs waits for none.   *)
ServedAfterAsset ==
  outputs =>
    \A a \in Accounts \cup {Local}, k \in {"attach", "resume"} :
      effect[<<a, k>>].state # "none" => effect[<<a, "materialize">>].state = "completed"

(* A continuation of the agent is resumed once, whoever aborts it and       *)
(* whenever, as long as no lease lapses, no call is lost and no page closes *)
(* under it.                                                                *)
ResumedOnce == consumer = "resume" /\ troubles = 0 => consumed <= 1
=============================================================================
