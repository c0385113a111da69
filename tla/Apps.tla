-------------------------------- MODULE Apps --------------------------------
(***************************************************************************)
(* The apps manager of the core (jarvis/apps.go): it brings the set of     *)
(* installed apps to the dependency closure of the anchored ones, one app  *)
(* at a time, and saves its state to the settings table after each change. *)
(*                                                                         *)
(* The manager runs inside one process.  Two things are outside of it: the *)
(* box (what Docker really runs, "deployed") and the settings table        *)
(* ("saved").  A Change may fail half way, a save may fail, and the        *)
(* process may die between any two steps; it then restarts from the table. *)
(***************************************************************************)
EXTENDS AppDeps

CONSTANTS
    Image,      \* stands for the pair (SemVersion, Image) of a meta
    Builtin,    \* the names makeStub knows
    Release,    \* the manifests a release may carry, None where it has no meta
    Partial,    \* what an interrupted Change may leave on the box
    MaxFaults   \* bound on failed changes, failed saves and process deaths

Meta == [ver : Nat, img : Image, deps : SUBSET App]

OptMeta == Meta \cup {None}

ASSUME AppAssumption ==
    /\ IsFiniteSet(App)
    /\ Builtin \subseteq App
    /\ None \notin Meta
    /\ Partial \notin Meta /\ Partial # None
    /\ MaxFaults \in Nat

ASSUME ReleaseAssumption == \A r \in Release : r \in [App -> OptMeta]

VARIABLES
    manifest,   \* appRegistry.manifest
    metas,      \* appsState.Metas, in memory
    anchored,   \* appsState.Anchored, in memory
    stubs,      \* the keys of apps.m
    saved,      \* the copy of appsState in the settings table
    deployed,   \* what the box runs of each app
    pc,         \* where the manager is
    want,       \* the argument of the apply that runs
    todo,       \* apps of the install closure that it has not visited yet
    undo,       \* apps of the uninstall closure that it has not visited yet
    floor,      \* the floor of each app of the two closures
    cur,        \* the app being changed
    last,       \* how the latest apply against this manifest returned
    faults      \* failures and deaths so far

plan == <<want, todo, undo, floor>>
vars == <<manifest, metas, anchored, stubs, saved, deployed, pc, plan, cur,
          last, faults>>

Installed == {a \in App : metas[a] # None}

-----------------------------------------------------------------------------
(* What is up to date. *)

\* Mutant: an upgrade that moves only the image goes unnoticed.
sameVersionOnly(m1, m2) == m1.ver = m2.ver

sameAppVersion(m1, m2) == m1.ver = m2.ver /\ m1.img = m2.img

Current(a) == metas[a] # None /\ sameAppVersion(metas[a], manifest[a])

-----------------------------------------------------------------------------
NoState == [metas |-> [a \in App |-> None], anchored |-> {}]

Init ==
    /\ manifest \in Release
    /\ metas = NoState.metas /\ anchored = NoState.anchored /\ stubs = {}
    /\ saved = NoState
    /\ deployed = [a \in App |-> None]
    /\ pc = "idle" /\ cur = None /\ last = "none" /\ faults = 0
    /\ want = {} /\ todo = {} /\ undo = {} /\ floor = [a \in App |-> 0]

ClearPlan ==
    /\ want' = {} /\ todo' = {} /\ undo' = {}
    /\ floor' = [a \in App |-> 0]

\* apply returns: the plan, a local of the call, is gone.
Return(result) ==
    /\ pc' = "idle" /\ cur' = None /\ last' = result
    /\ ClearPlan

Fault == faults < MaxFaults /\ faults' = faults + 1

-----------------------------------------------------------------------------
(* apply(anchors), up to its first change. *)

Keep(anchors) == Closure(manifest, anchors, {})
Tear(anchors) == Closure(manifest, Installed \ Keep(anchors), Keep(anchors))

\* Both closures resolve: no name without a meta.
NoneMissing(anchors) ==
    \A a \in Keep(anchors) \cup Tear(anchors) : manifest[a] # None

BeginApply(anchors) ==
    /\ pc = "idle"
    /\ NoneMissing(anchors)
    /\ \E f \in FloorMaps(manifest, Keep(anchors), {}) :
       \E g \in FloorMaps(manifest, Tear(anchors), Keep(anchors)) :
           floor' = [a \in App |->
               IF a \in Keep(anchors) THEN f[a]
               ELSE IF a \in Tear(anchors) THEN g[a] ELSE 0]
    /\ want' = anchors
    /\ todo' = Keep(anchors)
    /\ undo' = Tear(anchors)
    /\ pc' = "apply" /\ last' = "none"
    /\ UNCHANGED <<manifest, metas, anchored, stubs, saved, deployed, cur, faults>>

\* A missing meta or a circle: an error before anything is touched.
RefuseApply(anchors) ==
    /\ pc = "idle"
    /\ \/ ~ NoneMissing(anchors)
       \/ FloorMaps(manifest, Keep(anchors), {}) = {}
       \/ FloorMaps(manifest, Tear(anchors), Keep(anchors)) = {}
    /\ Return("err")
    /\ UNCHANGED <<manifest, metas, anchored, stubs, saved, deployed, faults>>

Apply(anchors) == BeginApply(anchors) \/ RefuseApply(anchors)

install(names) == Apply(anchored \cup names)

uninstall(names) == names \subseteq anchored /\ Apply(anchored \ names)

update == Apply(anchored)

-----------------------------------------------------------------------------
(* The two loops of apply. *)

\* Mutant: the closure is walked in no order.
NextUpAny(a) == a \in todo

\* The next app of closure.Floors(): any of the lowest floor left.
NextUp(a) == a \in todo /\ \A b \in todo : floor[a] <= floor[b]

\* Mutant: Floors() instead of RevFloors().
NextDownUpwards(a) ==
    todo = {} /\ a \in undo /\ \A b \in undo : floor[a] <= floor[b]

\* The next app of uninstall.RevFloors(): any of the highest floor left.
NextDown(a) == todo = {} /\ a \in undo /\ \A b \in undo : floor[b] <= floor[a]

Downgrade(a) == metas[a] # None /\ metas[a].ver > manifest[a].ver

SkipCurrent(a) ==
    /\ pc = "apply" /\ NextUp(a) /\ Current(a)
    /\ todo' = todo \ {a}
    /\ UNCHANGED <<manifest, metas, anchored, stubs, saved, deployed, pc, want,
                   undo, floor, cur, last, faults>>

\* Mutant: a downgrade is neither refused nor carried out.
GiveUpNoStub(a) ==
    /\ pc = "apply" /\ NextUp(a) /\ ~ Current(a)
    /\ ~ Downgrade(a) /\ a \notin stubs \cup Builtin
    /\ Return("err")
    /\ UNCHANGED <<manifest, metas, anchored, stubs, saved, deployed, faults>>

\* A downgrade, or a name that no stub can be made for: apply gives up,
\* with what it has changed so far in place.
GiveUp(a) ==
    /\ pc = "apply" /\ NextUp(a) /\ ~ Current(a)
    /\ Downgrade(a) \/ a \notin stubs \cup Builtin
    /\ Return("err")
    /\ UNCHANGED <<manifest, metas, anchored, stubs, saved, deployed, faults>>

\* Mutant: the app is ticked off before its change is done.
StartInstallEarly(a) ==
    /\ pc = "apply" /\ NextUp(a) /\ ~ Current(a)
    /\ ~ Downgrade(a) /\ a \in stubs \cup Builtin
    /\ stubs' = stubs \cup {a}
    /\ todo' = todo \ {a}
    /\ cur' = a /\ pc' = "change"
    /\ UNCHANGED <<manifest, metas, anchored, saved, deployed, want, undo, floor,
                   last, faults>>

StartInstall(a) ==
    /\ pc = "apply" /\ NextUp(a) /\ ~ Current(a)
    /\ ~ Downgrade(a) /\ a \in stubs \cup Builtin
    /\ stubs' = stubs \cup {a}
    /\ cur' = a /\ pc' = "change"
    /\ UNCHANGED <<manifest, metas, anchored, saved, deployed, plan, last, faults>>

\* An app of the uninstall closure that was never installed.
SkipLost(a) ==
    /\ pc = "apply" /\ NextDown(a) /\ metas[a] = None
    /\ undo' = undo \ {a}
    /\ UNCHANGED <<manifest, metas, anchored, stubs, saved, deployed, pc, want,
                   todo, floor, cur, last, faults>>

\* The stub is there (StubsCover), so the error of a.stub is never returned.
StartUninstall(a) ==
    /\ pc = "apply" /\ NextDown(a) /\ metas[a] # None /\ a \in stubs
    /\ cur' = a /\ pc' = "change"
    /\ UNCHANGED <<manifest, metas, anchored, stubs, saved, deployed, plan, last,
                   faults>>

\* What the change in progress leads to.
Goal == IF cur \in todo THEN manifest[cur] ELSE None

\* app.Change(old, new) returns nil.
ChangeDone ==
    /\ pc = "change"
    /\ deployed' = [deployed EXCEPT ![cur] = Goal]
    /\ pc' = "save"
    /\ UNCHANGED <<manifest, metas, anchored, stubs, saved, plan, cur, last, faults>>

\* What a change that leads to "goal" may have done when it is cut short.
Interrupted(a, goal) ==
    \E d \in {deployed[a], goal, Partial} :
        deployed' = [deployed EXCEPT ![a] = d]

ChangeFails ==
    /\ pc = "change"
    /\ Fault
    /\ Interrupted(cur, Goal)
    /\ Return("err")
    /\ UNCHANGED <<manifest, metas, anchored, stubs, saved>>

\* Mutant: the state is saved once, when everything is done.
SaveLater ==
    /\ pc = "save"
    /\ metas' = [metas EXCEPT ![cur] = Goal]
    /\ stubs' = IF cur \in todo THEN stubs ELSE stubs \ {cur}
    /\ todo' = todo \ {cur}
    /\ undo' = undo \ {cur}
    /\ cur' = None /\ pc' = "apply"
    /\ UNCHANGED <<manifest, saved, anchored, deployed, want, floor, last, faults>>

\* setMeta, and a saveState that returns nil.
SaveChange ==
    /\ pc = "save"
    /\ metas' = [metas EXCEPT ![cur] = Goal]
    /\ saved' = [metas |-> metas', anchored |-> anchored]
    /\ stubs' = IF cur \in todo THEN stubs ELSE stubs \ {cur}
    /\ todo' = todo \ {cur}
    /\ undo' = undo \ {cur}
    /\ cur' = None /\ pc' = "apply"
    /\ UNCHANGED <<manifest, anchored, deployed, want, floor, last, faults>>

\* setMeta, and a saveState that fails: the memory is ahead of the table.
SaveFails ==
    /\ pc = "save"
    /\ Fault
    /\ metas' = [metas EXCEPT ![cur] = Goal]
    /\ Return("err")
    /\ UNCHANGED <<manifest, anchored, stubs, saved, deployed>>

\* Everything is visited: the anchors are recorded, and only now.
Finish ==
    /\ pc = "apply" /\ todo = {} /\ undo = {}
    /\ anchored' = want
    /\ saved' = [metas |-> metas, anchored |-> want]
    /\ Return("ok")
    /\ UNCHANGED <<manifest, metas, stubs, deployed, faults>>

FinishSaveFails ==
    /\ pc = "apply" /\ todo = {} /\ undo = {}
    /\ Fault
    /\ anchored' = want
    /\ Return("err")
    /\ UNCHANGED <<manifest, metas, stubs, saved, deployed>>

-----------------------------------------------------------------------------
(* reinstall: a Change from a meta to itself; nothing is saved. *)

reinstall(a) ==
    /\ pc = "idle" /\ metas[a] # None /\ a \in stubs
    /\ cur' = a /\ pc' = "reinstall"
    /\ UNCHANGED <<manifest, metas, anchored, stubs, saved, deployed, plan, last,
                   faults>>

ReinstallDone ==
    /\ pc = "reinstall"
    /\ deployed' = [deployed EXCEPT ![cur] = metas[cur]]
    /\ pc' = "idle" /\ cur' = None
    /\ UNCHANGED <<manifest, metas, anchored, stubs, saved, plan, last, faults>>

ReinstallFails ==
    /\ pc = "reinstall"
    /\ Fault
    /\ Interrupted(cur, metas[cur])
    /\ pc' = "idle" /\ cur' = None
    /\ UNCHANGED <<manifest, metas, anchored, stubs, saved, plan, last>>

-----------------------------------------------------------------------------
(* Between two calls the update task moves the registry to another release. *)

setRelease(r) ==
    /\ pc = "idle"
    /\ manifest' = r
    /\ last' = "none"
    /\ UNCHANGED <<metas, anchored, stubs, saved, deployed, pc, plan, cur, faults>>

BoxAtDeath ==
    IF pc = "change" THEN Interrupted(cur, Goal)
    ELSE IF pc = "reinstall" THEN Interrupted(cur, metas[cur])
    ELSE UNCHANGED deployed

\* Mutant: the new process makes no stubs (no setMaker).
RestartWithoutStubs(r) ==
    /\ Fault
    /\ BoxAtDeath
    /\ manifest' = r
    /\ metas' = saved.metas /\ anchored' = saved.anchored
    /\ stubs' = {}
    /\ Return("none")
    /\ UNCHANGED saved

\* The process dies and a new one loads the table (newApps, setMaker).  Which
\* release it starts from is up to the settings "build" and "build-updating".
Restart(r) ==
    /\ Fault
    /\ {a \in App : saved.metas[a] # None} \subseteq Builtin
    /\ BoxAtDeath
    /\ manifest' = r
    /\ metas' = saved.metas /\ anchored' = saved.anchored
    /\ stubs' = {a \in App : saved.metas[a] # None}
    /\ Return("none")
    /\ UNCHANGED saved

\* What the manager does of itself once apply or reinstall was called.
Step ==
    \/ \E a \in App :
        \/ SkipCurrent(a) \/ GiveUp(a) \/ StartInstall(a)
        \/ SkipLost(a) \/ StartUninstall(a)
    \/ ChangeDone \/ SaveChange \/ Finish \/ ReinstallDone

Next ==
    \/ Step
    \/ \E names \in SUBSET App \ {{}} : install(names) \/ uninstall(names)
    \/ update
    \/ \E a \in App : reinstall(a)
    \/ ChangeFails \/ SaveFails \/ FinishSaveFails \/ ReinstallFails
    \/ \E r \in Release : setRelease(r) \/ Restart(r)

Spec == Init /\ [][Next]_vars /\ WF_vars(Step)

-----------------------------------------------------------------------------
(* Properties. *)

TypeOK ==
    /\ manifest \in [App -> OptMeta]
    /\ metas \in [App -> OptMeta]
    /\ anchored \subseteq App
    /\ stubs \subseteq App
    /\ saved \in [metas : [App -> OptMeta], anchored : SUBSET App]
    /\ deployed \in [App -> OptMeta \cup {Partial}]
    /\ pc \in {"idle", "apply", "change", "save", "reinstall"}
    /\ want \subseteq App /\ todo \subseteq App /\ undo \subseteq App
    /\ floor \in [App -> Nat]
    /\ cur \in App \cup {None}
    /\ last \in {"none", "ok", "err"}
    /\ faults \in Nat
    /\ pc \in {"change", "save"} => cur \in todo \cup undo
    /\ pc = "reinstall" => cur \in App

\* Every installed app has its stub, and the next process can make the stubs
\* of all apps in the table: otherwise setMaker fails and no core starts again
\* (apps.go:68-79, 83-89).
StubsCover ==
    /\ Installed \subseteq stubs
    /\ stubs \subseteq Builtin
    /\ {a \in App : saved.metas[a] # None} \subseteq Builtin

\* While an app is being installed or upgraded each of its dependencies is
\* recorded at the version of this release: an app never starts against a
\* dependency that is missing or one upgrade behind (apps.go:148-186).
DepsInPlace ==
    pc \in {"change", "save"} /\ cur \in todo =>
        \A d \in manifest[cur].deps : Current(d)

\* While an app is being torn down no other installed app depends on it, by
\* the dependency lists of this release (apps.go:188-216).
UninstallOrder ==
    pc \in {"change", "save"} /\ cur \in undo =>
        \A b \in Installed \ {cur} : cur \notin DepsOf(manifest, b)

\* The apps whose memory, table and box do not agree.
OutOfStep ==
    {a \in App : deployed[a] # metas[a] \/ saved.metas[a] # metas[a]}

\* Each failed change, failed save or death puts at most one more app out of
\* step, however the calls follow each other: one save follows each change,
\* before the next one starts (apps.go:176-185, 203-213).
FaultsBoundDrift ==
    Cardinality(OutOfStep) <= faults + (IF pc = "save" THEN 1 ELSE 0)

\* An apply that returned nil left exactly the closure of the anchors, each app
\* recorded at the version of the release, in memory and in the table, as long
\* as the registry does not move (apps.go:127-224).
Settled ==
    last = "ok" =>
        /\ Installed = Keep(anchored)
        /\ \A a \in Installed :
               metas[a].ver = manifest[a].ver /\ metas[a].img = manifest[a].img
        /\ saved = [metas |-> metas, anchored |-> anchored]

\* The anchors change only when the installed set is their closure: a failed
\* install is not anchored and a failed uninstall still is (apps.go:218-221).
\* A new process reads back what the table says.
AnchorsMoveLast ==
    [][anchored' # anchored =>
          \/ anchored' = saved.anchored
          \/ Installed = Closure(manifest, anchored', {})]_vars

\* The record of an app in the table never goes back to an earlier version
\* while the app stays installed, as long as memory and table agree on it
\* (apps.go:157-162).
NoRecordDowngrade ==
    [][\A a \in App :
          /\ saved.metas[a] # None /\ saved.metas[a] = metas[a]
          /\ saved'.metas[a] # None
          => saved.metas[a].ver <= saved'.metas[a].ver]_vars

\* Every call returns, or the process dies.
Terminates == pc # "idle" ~> pc = "idle"
=============================================================================
