----------------------------- MODULE AppsProofs -----------------------------
(***************************************************************************)
(* Theorems about the apps manager, for every set of apps and releases.    *)
(*                                                                         *)
(* The order of the work comes from two facts: the closures are closed     *)
(* (ClosureClosed), and their floors rise along the dependencies           *)
(* (FloorsRise).  PlanInv carries both through the loops of apply.         *)
(* That a call ends comes from what is left of its plan: some app of it is *)
(* next (ApplyNeverStuck), and each step leaves less (ApplyComesCloser).   *)
(***************************************************************************)
EXTENDS Apps, FiniteSetTheorems, WellFoundedInduction, TLAPS

Busy == pc \in {"apply", "change", "save"}
Changing == pc \in {"change", "save"}

\* What holds of the plan while an apply runs.
PlanInv ==
    Busy =>
        /\ todo \subseteq Keep(want)
        /\ undo \cap Keep(want) = {}
        /\ \A a \in Keep(want) : manifest[a] # None
        /\ \A a \in Keep(want) : \A d \in DepsOf(manifest, a) : floor[d] < floor[a]
        /\ \A a \in undo : \A d \in DepsOf(manifest, a) \cap undo : floor[d] < floor[a]
        /\ \A a \in Keep(want) \ todo : Current(a)
        /\ \A a \in Installed : a \in Keep(want) \cup undo
        /\ last # "ok"

\* What holds of the app being changed.
CurInv ==
    Changing =>
        /\ cur \in todo =>
            /\ \A b \in todo : floor[cur] <= floor[b]
            /\ cur \in stubs
            /\ ~ Downgrade(cur)
        /\ cur \in undo =>
            /\ todo = {}
            /\ \A b \in undo : floor[b] <= floor[cur]

IdleInv == pc \in {"idle", "reinstall"} => todo = {} /\ undo = {}

IInv ==
    /\ TypeOK /\ IdleInv /\ PlanInv /\ CurInv /\ StubsCover /\ Settled

-----------------------------------------------------------------------------
\* A closure holds the apps it is made for, none of the ignored ones, and all
\* that its members need (app_closure.go:41-97).
LEMMA ClosureClosed ==
    ASSUME NEW q \in [App -> OptMeta],
           NEW S \in SUBSET App, NEW ignore \in SUBSET App
    PROVE  /\ S \ ignore \subseteq Closure(q, S, ignore)
           /\ Closure(q, S, ignore) \subseteq App \ ignore
           /\ \A a \in Closure(q, S, ignore) :
                  DepsOf(q, a) \ ignore \subseteq Closure(q, S, ignore)
<1> DEFINE C == Closure(q, S, ignore)
<1>1. \A a \in App : DepsOf(q, a) \subseteq App
  BY DEF DepsOf, OptMeta, Meta
<1>2. S \ ignore \subseteq C
  BY DEF Closure
<1>3. C \subseteq App \ ignore
  <2>1. /\ App \ ignore \in SUBSET App
        /\ S \ ignore \subseteq App \ ignore
        /\ \A b \in App \ ignore : DepsOf(q, b) \ ignore \subseteq App \ ignore
    BY <1>1
  <2> QED BY <2>1 DEF Closure
<1>4. ASSUME NEW a \in C, NEW d \in DepsOf(q, a) \ ignore
      PROVE  d \in C
  <2>1. a \in App /\ d \in App
    BY <1>1, <1>3, <1>4
  <2>2. ASSUME NEW B \in SUBSET App,
               S \ ignore \subseteq B,
               \A b \in B : DepsOf(q, b) \ ignore \subseteq B
        PROVE  d \in B
    <3>1. a \in B
      BY <2>2, <1>4 DEF Closure
    <3> QED BY <3>1, <2>2, <1>4
  <2> QED BY <2>1, <2>2 DEF Closure
<1> QED BY <1>2, <1>3, <1>4

\* On the floors of a closure an app is above each dependency that is not
\* ignored (app_closure.go:77-95).
LEMMA FloorsRise ==
    ASSUME NEW q \in [App -> OptMeta],
           NEW C \in SUBSET App, NEW ignore \in SUBSET App,
           NEW f \in FloorMaps(q, C, ignore)
    PROVE  /\ f \in [C -> Nat]
           /\ \A a \in C : \A d \in DepsOf(q, a) \ ignore : f[d] < f[a]
<1>1. f \in [C -> 0 .. Cardinality(C)] /\ IsFloors(q, f, C, ignore)
  BY DEF FloorMaps
<1>2. f \in [C -> Nat]
  BY <1>1
<1>3. ASSUME NEW a \in C, NEW d \in DepsOf(q, a) \ ignore
      PROVE  f[d] < f[a]
  <2>1. f[d] \in {IF e \in ignore THEN 0 ELSE f[e] : e \in DepsOf(q, a)}
    BY <1>3
  <2> QED BY <1>1, <2>1 DEF IsFloors
<1> QED BY <1>2, <1>3

-----------------------------------------------------------------------------
LEMMA EmptyFloor == [a \in App |-> 0] \in [App -> Nat]
OBVIOUS

LEMMA TypeInit == Init => TypeOK
<1> SUFFICES ASSUME Init PROVE TypeOK
  OBVIOUS
<1>1. manifest \in [App -> OptMeta]
  BY ReleaseAssumption DEF Init
<1>2. [a \in App |-> None] \in [App -> OptMeta]
  BY DEF OptMeta
<1>3. [a \in App |-> None] \in [App -> OptMeta \cup {Partial}]
  BY DEF OptMeta
<1> QED BY <1>1, <1>2, <1>3 DEF Init, TypeOK, NoState

LEMMA TypeStep == TypeOK /\ [Next]_vars => TypeOK'
<1> SUFFICES ASSUME TypeOK, [Next]_vars PROVE TypeOK'
  OBVIOUS
<1> USE DEF TypeOK
<1>1. ASSUME NEW anchors \in SUBSET App, Apply(anchors) PROVE TypeOK'
  <2>1. CASE BeginApply(anchors)
    <3>1. Keep(anchors) \in SUBSET App /\ Tear(anchors) \in SUBSET App
      BY DEF Keep, Tear, Closure
    <3>2. PICK f \in FloorMaps(manifest, Keep(anchors), {}),
               g \in FloorMaps(manifest, Tear(anchors), Keep(anchors)) :
             floor' = [a \in App |->
               IF a \in Keep(anchors) THEN f[a]
               ELSE IF a \in Tear(anchors) THEN g[a] ELSE 0]
      BY <2>1 DEF BeginApply
    <3>3. f \in [Keep(anchors) -> Nat] /\ g \in [Tear(anchors) -> Nat]
      BY <3>1, FloorsRise
    <3>4. floor' \in [App -> Nat]
      BY <3>1, <3>2, <3>3
    <3> QED BY <2>1, <3>1, <3>4 DEF BeginApply
  <2>2. CASE RefuseApply(anchors)
    BY <2>2 DEF RefuseApply, Return, ClearPlan
  <2> QED BY <1>1, <2>1, <2>2 DEF Apply
<1>2. ASSUME NEW names \in SUBSET App, install(names) \/ uninstall(names)
      PROVE  TypeOK'
  BY <1>1, <1>2 DEF install, uninstall
<1>3. CASE update
  BY <1>1, <1>3 DEF update
<1>4. ASSUME NEW a \in App,
             \/ SkipCurrent(a) \/ GiveUp(a) \/ StartInstall(a)
             \/ SkipLost(a) \/ StartUninstall(a) \/ reinstall(a)
      PROVE  TypeOK'
  BY <1>4 DEF SkipCurrent, GiveUp, StartInstall, SkipLost, StartUninstall,
              reinstall, Return, ClearPlan, NextUp, NextDown, plan
<1>5. Changing => Goal \in OptMeta /\ cur \in App
  BY DEF Goal, OptMeta, Changing
<1>6. pc = "reinstall" => cur \in App
  OBVIOUS
<1>7. CASE ChangeDone
  BY <1>5, <1>7 DEF ChangeDone, plan, Changing
<1>8. CASE ChangeFails
  BY <1>5, <1>8 DEF ChangeFails, Interrupted, Fault, Return, ClearPlan, Changing
<1>9. CASE SaveChange
  <2>1. metas' \in [App -> OptMeta]
    BY <1>5, <1>9 DEF SaveChange, Changing
  <2> QED BY <1>9, <2>1 DEF SaveChange
<1>10. CASE SaveFails
  <2>1. metas' \in [App -> OptMeta]
    BY <1>5, <1>10 DEF SaveFails, Changing
  <2> QED BY <1>10, <2>1 DEF SaveFails, Fault, Return, ClearPlan
<1>11. CASE Finish
  BY <1>11 DEF Finish, Return, ClearPlan
<1>12. CASE FinishSaveFails
  BY <1>12 DEF FinishSaveFails, Fault, Return, ClearPlan
<1>13. CASE ReinstallDone
  BY <1>6, <1>13 DEF ReinstallDone, plan
<1>14. CASE ReinstallFails
  BY <1>6, <1>14 DEF ReinstallFails, Interrupted, Fault, plan
<1>15. ASSUME NEW r \in Release, setRelease(r) PROVE TypeOK'
  BY <1>15, ReleaseAssumption DEF setRelease, plan
<1>16. ASSUME NEW r \in Release, Restart(r) PROVE TypeOK'
  <2>1. deployed' \in [App -> OptMeta \cup {Partial}]
    <3>1. CASE pc = "change"
      BY <1>5, <1>16, <3>1 DEF Restart, BoxAtDeath, Interrupted, Changing
    <3>2. CASE pc = "reinstall"
      BY <1>6, <1>16, <3>2 DEF Restart, BoxAtDeath, Interrupted
    <3>3. CASE pc \notin {"change", "reinstall"}
      BY <1>16, <3>3 DEF Restart, BoxAtDeath
    <3> QED BY <3>1, <3>2, <3>3
  <2>2. manifest' \in [App -> OptMeta]
    BY <1>16, ReleaseAssumption DEF Restart
  <2> QED BY <1>16, <2>1, <2>2 DEF Restart, Fault, Return, ClearPlan
<1>17. CASE UNCHANGED vars
  BY <1>17 DEF vars, plan
<1> QED
  BY <1>1, <1>2, <1>3, <1>4, <1>7, <1>8, <1>9, <1>10, <1>11, <1>12, <1>13,
     <1>14, <1>15, <1>16, <1>17 DEF Next, Step

\* Every variable of the manager keeps its type, whatever fails or dies.
THEOREM TypeCorrect == Spec => []TypeOK
<1> QED BY TypeInit, TypeStep, PTL DEF Spec

-----------------------------------------------------------------------------
LEMMA PlanInit == Init => IdleInv /\ PlanInv /\ CurInv
  BY DEF Init, IdleInv, PlanInv, CurInv, Busy, Changing

\* A new plan is in order: BeginApply takes over what the closures promise.
LEMMA PlanBegins ==
    ASSUME TypeOK, NEW anchors \in SUBSET App, BeginApply(anchors)
    PROVE  (IdleInv /\ PlanInv /\ CurInv)'
<1> DEFINE K == Keep(anchors)
           T == Tear(anchors)
<1>1. manifest \in [App -> OptMeta] /\ Installed \in SUBSET App
  BY DEF TypeOK, Installed
<1>2. /\ K \in SUBSET App
      /\ \A a \in K : DepsOf(manifest, a) \subseteq K
  BY <1>1, ClosureClosed DEF Keep
<1>3. /\ T \subseteq App \ K
      /\ Installed \ K \subseteq T
  <2> HIDE DEF K
  <2>1. T = Closure(manifest, Installed \ K, K)
    BY DEF Tear, K
  <2>2. Installed \ K \in SUBSET App
    BY <1>1
  <2>3. (Installed \ K) \ K \subseteq Closure(manifest, Installed \ K, K)
    BY <1>1, <1>2, <2>2, ClosureClosed
  <2>4. Closure(manifest, Installed \ K, K) \subseteq App \ K
    BY <1>1, <1>2, <2>2, ClosureClosed
  <2> QED BY <2>1, <2>3, <2>4
<1>4. PICK f \in FloorMaps(manifest, K, {}), g \in FloorMaps(manifest, T, K) :
        floor' = [a \in App |->
            IF a \in K THEN f[a] ELSE IF a \in T THEN g[a] ELSE 0]
  BY DEF BeginApply
<1>5. \A a \in K : \A d \in DepsOf(manifest, a) : f[d] < f[a]
  <2> HIDE DEF K
  <2>1. \A a \in K : \A d \in DepsOf(manifest, a) \ {} : f[d] < f[a]
    BY <1>1, <1>2, FloorsRise
  <2> QED BY <2>1
<1>6. \A a \in T : \A d \in DepsOf(manifest, a) \ K : g[d] < g[a]
  BY <1>1, <1>2, <1>3, FloorsRise
<1> HIDE DEF K, T
<1>7. \A a \in K : \A d \in DepsOf(manifest, a) : floor'[d] < floor'[a]
  BY <1>2, <1>4, <1>5
<1>8. \A a \in T : \A d \in DepsOf(manifest, a) \cap T : floor'[d] < floor'[a]
  BY <1>2, <1>3, <1>4, <1>6
<1>9. /\ manifest' = manifest /\ metas' = metas
      /\ want' = anchors /\ todo' = K /\ undo' = T
      /\ pc' = "apply" /\ last' = "none"
      /\ Keep(want)' = K
      /\ \A a \in K : manifest[a] # None
  BY DEF BeginApply, Keep, NoneMissing, K, T
<1>10. PlanInv'
  BY <1>1, <1>2, <1>3, <1>7, <1>8, <1>9 DEF PlanInv, Installed
<1> QED BY <1>9, <1>10 DEF IdleInv, CurInv, Changing

LEMMA PlanStep == IInv /\ [Next]_vars => (IdleInv /\ PlanInv /\ CurInv)'
<1> SUFFICES ASSUME IInv, [Next]_vars PROVE (IdleInv /\ PlanInv /\ CurInv)'
  OBVIOUS
<1> USE DEF IInv
<1>1. TypeOK'
  BY TypeStep
<1> DEFINE Idling == pc' = "idle" /\ todo' = {} /\ undo' = {}
<1>2. Idling => (IdleInv /\ PlanInv /\ CurInv)'
  BY DEF IdleInv, PlanInv, CurInv, Busy, Changing
<1>3. ASSUME NEW anchors \in SUBSET App, Apply(anchors)
      PROVE  (IdleInv /\ PlanInv /\ CurInv)'
  <2>1. CASE BeginApply(anchors)
    BY <2>1, PlanBegins
  <2>2. CASE RefuseApply(anchors)
    BY <1>2, <2>2 DEF RefuseApply, Return, ClearPlan
  <2> QED BY <1>3, <2>1, <2>2 DEF Apply
<1>4. ASSUME NEW names \in SUBSET App, install(names) \/ uninstall(names)
      PROVE  (IdleInv /\ PlanInv /\ CurInv)'
  BY <1>3, <1>4 DEF install, uninstall, TypeOK
<1>5. CASE update
  BY <1>3, <1>5 DEF update, TypeOK
<1>6. ASSUME NEW a \in App, SkipCurrent(a)
      PROVE  (IdleInv /\ PlanInv /\ CurInv)'
  <2>1. PlanInv'
    BY <1>6 DEF SkipCurrent, PlanInv, Busy, Keep, Current, Installed
  <2> QED BY <1>6, <2>1 DEF SkipCurrent, IdleInv, CurInv, Changing
<1>7. ASSUME NEW a \in App, GiveUp(a)
      PROVE  (IdleInv /\ PlanInv /\ CurInv)'
  BY <1>2, <1>7 DEF GiveUp, Return, ClearPlan
<1>8. ASSUME NEW a \in App, StartInstall(a)
      PROVE  (IdleInv /\ PlanInv /\ CurInv)'
  <2>1. PlanInv'
    BY <1>8 DEF StartInstall, PlanInv, Busy, Keep, Current, Installed, plan
  <2>2. CurInv'
    <3>1. cur' = a /\ a \in todo /\ todo' = todo /\ undo' = undo
      BY <1>8 DEF StartInstall, NextUp, plan
    <3>2. a \notin undo
      BY <1>8, <3>1 DEF StartInstall, PlanInv, Busy
    <3> QED BY <1>8, <3>1, <3>2 DEF StartInstall, CurInv, NextUp, Downgrade, plan
  <2> QED BY <1>8, <2>1, <2>2 DEF StartInstall, IdleInv
<1>9. ASSUME NEW a \in App, SkipLost(a)
      PROVE  (IdleInv /\ PlanInv /\ CurInv)'
  <2>1. PlanInv'
    BY <1>9 DEF SkipLost, PlanInv, Busy, Keep, Current, Installed
  <2> QED BY <1>9, <2>1 DEF SkipLost, IdleInv, CurInv, Changing
<1>10. ASSUME NEW a \in App, StartUninstall(a)
       PROVE  (IdleInv /\ PlanInv /\ CurInv)'
  <2>1. PlanInv'
    BY <1>10 DEF StartUninstall, PlanInv, Busy, Keep, Current, Installed, plan
  <2>2. CurInv'
    BY <1>10 DEF StartUninstall, CurInv, NextDown, Downgrade, plan
  <2> QED BY <1>10, <2>1, <2>2 DEF StartUninstall, IdleInv
<1>11. CASE ChangeDone
  <2>1. PlanInv'
    BY <1>11 DEF ChangeDone, PlanInv, Busy, Keep, Current, Installed, plan
  <2>2. CurInv'
    BY <1>11 DEF ChangeDone, CurInv, Changing, Downgrade, plan
  <2> QED BY <1>11, <2>1, <2>2 DEF ChangeDone, IdleInv
<1>12. CASE ChangeFails
  BY <1>2, <1>12 DEF ChangeFails, Return, ClearPlan
<1>13. CASE SaveChange
  <2>1. /\ pc = "save" /\ pc' = "apply" /\ cur \in todo \cup undo
        /\ metas' = [metas EXCEPT ![cur] = Goal]
        /\ todo' = todo \ {cur} /\ undo' = undo \ {cur}
        /\ manifest' = manifest /\ want' = want /\ floor' = floor /\ last' = last
    BY <1>13 DEF SaveChange, TypeOK
  <2>2. metas \in [App -> OptMeta] /\ cur \in App
    BY <2>1 DEF TypeOK
  <2>3. PlanInv /\ Keep(want)' = Keep(want)
    BY <2>1 DEF Keep
  <2>4. ASSUME NEW a \in Keep(want) \ todo' PROVE Current(a)'
    <3>1. a \in App
      BY <2>4 DEF Keep, Closure
    <3>2. CASE a = cur
      <4>1. cur \in todo
        BY <2>1, <2>3, <2>4, <3>2 DEF PlanInv, Busy
      <4>2. metas'[a] = manifest[a] /\ manifest[a] # None
        BY <2>1, <2>2, <2>3, <2>4, <3>2, <4>1 DEF Goal, PlanInv, Busy
      <4> QED BY <2>1, <4>2 DEF Current, sameAppVersion
    <3>3. CASE a # cur
      BY <2>1, <2>2, <2>3, <2>4, <3>1, <3>3 DEF PlanInv, Busy, Current
    <3> QED BY <3>2, <3>3
  <2>5. \A a \in Installed' : a \in Keep(want) \cup undo'
    <3>1. SUFFICES ASSUME NEW a \in App, metas'[a] # None
                   PROVE  a \in Keep(want) \cup undo'
      BY DEF Installed
    <3>2. CASE a = cur
      <4>1. cur \in todo
        BY <2>1, <2>2, <3>1, <3>2 DEF Goal
      <4> QED BY <2>1, <2>3, <3>2, <4>1 DEF PlanInv, Busy
    <3>3. CASE a # cur
      BY <2>1, <2>2, <2>3, <3>1, <3>3 DEF PlanInv, Busy, Installed
    <3> QED BY <3>2, <3>3
  <2>6. PlanInv'
    BY <2>1, <2>3, <2>4, <2>5 DEF PlanInv, Busy
  <2> QED BY <2>1, <2>6 DEF IdleInv, CurInv, Changing
<1>14. CASE SaveFails
  BY <1>2, <1>14 DEF SaveFails, Return, ClearPlan
<1>15. CASE Finish
  BY <1>2, <1>15 DEF Finish, Return, ClearPlan
<1>16. CASE FinishSaveFails
  BY <1>2, <1>16 DEF FinishSaveFails, Return, ClearPlan
<1>17. ASSUME NEW a \in App, reinstall(a)
       PROVE  (IdleInv /\ PlanInv /\ CurInv)'
  BY <1>17 DEF reinstall, IdleInv, PlanInv, CurInv, Busy, Changing, plan
<1>18. CASE ReinstallDone
  BY <1>2, <1>18 DEF ReinstallDone, IdleInv, plan
<1>19. CASE ReinstallFails
  BY <1>2, <1>19 DEF ReinstallFails, IdleInv, plan
<1>20. ASSUME NEW r \in Release, setRelease(r)
       PROVE  (IdleInv /\ PlanInv /\ CurInv)'
  BY <1>2, <1>20 DEF setRelease, IdleInv, plan
<1>21. ASSUME NEW r \in Release, Restart(r)
       PROVE  (IdleInv /\ PlanInv /\ CurInv)'
  BY <1>2, <1>21 DEF Restart, Return, ClearPlan
<1>22. CASE UNCHANGED vars
  BY <1>22 DEF vars, plan, IdleInv, PlanInv, CurInv, Busy, Changing, Keep,
               Current, Installed, Downgrade
<1> QED
  BY <1>4, <1>5, <1>6, <1>7, <1>8, <1>9, <1>10, <1>11, <1>12, <1>13, <1>14,
     <1>15, <1>16, <1>17, <1>18, <1>19, <1>20, <1>21, <1>22 DEF Next, Step

-----------------------------------------------------------------------------
LEMMA StubsInit == Init => StubsCover
  BY DEF Init, StubsCover, Installed, NoState

LEMMA StubsStep == IInv /\ [Next]_vars => StubsCover'
<1> SUFFICES ASSUME IInv, [Next]_vars PROVE StubsCover'
  OBVIOUS
<1>1. StubsCover /\ TypeOK
  BY DEF IInv
<1>2. CASE \/ UNCHANGED <<metas, stubs, saved>>
           \/ UNCHANGED vars
  BY <1>1, <1>2 DEF StubsCover, Installed, vars
<1>3. ASSUME NEW a \in App, StartInstall(a) PROVE StubsCover'
  BY <1>1, <1>3 DEF StartInstall, StubsCover, Installed
<1>4. ASSUME Changing, metas' = [metas EXCEPT ![cur] = Goal]
      PROVE  /\ Installed' \subseteq stubs
             /\ cur \notin todo => Installed' \subseteq stubs \ {cur}
  <2>1. cur \in App /\ (cur \in todo => cur \in stubs) /\ Installed \subseteq stubs
    BY <1>1, <1>4 DEF IInv, TypeOK, CurInv, Changing, StubsCover
  <2> QED BY <1>1, <1>4, <2>1 DEF Installed, Goal, TypeOK
<1>5. CASE SaveChange
  <2>1. Changing /\ metas' = [metas EXCEPT ![cur] = Goal]
    BY <1>5 DEF SaveChange, Changing
  <2>2. stubs' = (IF cur \in todo THEN stubs ELSE stubs \ {cur})
    BY <1>5 DEF SaveChange
  <2>3. Installed' \subseteq stubs' /\ stubs' \subseteq stubs
    BY <1>4, <2>1, <2>2
  <2>4. {a \in App : saved'.metas[a] # None} = Installed'
    BY <1>5 DEF SaveChange, Installed
  <2> QED BY <1>1, <2>3, <2>4 DEF StubsCover
<1>6. CASE SaveFails
  BY <1>1, <1>4, <1>6 DEF SaveFails, Changing, StubsCover
<1>7. CASE Finish
  BY <1>1, <1>7 DEF Finish, StubsCover, Installed
<1>8. ASSUME NEW r \in Release, Restart(r) PROVE StubsCover'
  BY <1>1, <1>8 DEF Restart, StubsCover, Installed
<1> QED
  BY <1>2, <1>3, <1>5, <1>6, <1>7, <1>8
  DEF Next, Step, install, uninstall, update, Apply, BeginApply, RefuseApply,
      SkipCurrent, GiveUp, SkipLost, StartUninstall, ChangeDone, ChangeFails,
      FinishSaveFails, reinstall, ReinstallDone, ReinstallFails, setRelease

LEMMA SettledInit == Init => Settled
  BY DEF Init, Settled

\* apply reports success only with the loops done, so the plan leaves nothing
\* out of the closure and nothing besides it.
LEMMA SettledStep == IInv /\ [Next]_vars => Settled'
<1> SUFFICES ASSUME IInv, [Next]_vars PROVE Settled'
  OBVIOUS
<1>1. CASE last' # "ok"
  BY <1>1 DEF Settled
<1>2. CASE /\ UNCHANGED <<manifest, metas, anchored, saved, last>>
  BY <1>2 DEF IInv, Settled, Installed, Keep, Current
<1>3. CASE Finish
  <2>1. /\ manifest' = manifest /\ metas' = metas /\ anchored' = want
        /\ saved' = [metas |-> metas, anchored |-> want]
        /\ Busy /\ todo = {} /\ undo = {}
    BY <1>3 DEF Finish, Busy
  <2>2. Keep(anchored)' = Keep(want) /\ Installed' = Installed
    BY <2>1 DEF Keep, Installed
  <2>3. /\ Installed \subseteq Keep(want)
        /\ \A a \in Keep(want) : Current(a)
    BY <2>1 DEF IInv, PlanInv
  <2>4. Keep(want) \subseteq Installed
    BY <2>3 DEF Current, Installed, Keep, Closure
  <2>5. \A a \in Installed' :
            metas'[a].ver = manifest'[a].ver /\ metas'[a].img = manifest'[a].img
    BY <2>1, <2>2, <2>3 DEF Current, sameAppVersion
  <2> QED BY <2>1, <2>2, <2>3, <2>4, <2>5 DEF Settled
<1>4. CASE SaveChange
  <2>1. last' # "ok"
    BY <1>4 DEF SaveChange, IInv, PlanInv, Busy
  <2> QED BY <1>1, <2>1
<1> QED
  BY <1>1, <1>2, <1>3, <1>4
  DEF Next, Step, install, uninstall, update, Apply, BeginApply, RefuseApply,
      SkipCurrent, GiveUp, StartInstall, SkipLost, StartUninstall, ChangeDone,
      ChangeFails, SaveFails, FinishSaveFails, reinstall, ReinstallDone,
      ReinstallFails, setRelease, Restart, Return, vars

THEOREM InductiveInvariant == Spec => []IInv
<1>1. Init => IInv
  BY TypeInit, PlanInit, StubsInit, SettledInit DEF IInv
<1>2. IInv /\ [Next]_vars => IInv'
  BY TypeStep, PlanStep, StubsStep, SettledStep DEF IInv
<1> QED BY <1>1, <1>2, PTL DEF Spec

\* Every process finds the stubs of the apps its predecessor recorded.
THEOREM StubsCovered == Spec => []StubsCover
<1>1. IInv => StubsCover
  BY DEF IInv
<1> QED BY InductiveInvariant, <1>1, PTL

\* An apply that returns nil leaves the closure of the anchors at this release.
THEOREM SuccessSettles == Spec => []Settled
<1>1. IInv => Settled
  BY DEF IInv
<1> QED BY InductiveInvariant, <1>1, PTL

\* An app is changed only when all its dependencies are recorded at the
\* version of the release: those are on lower floors, so already visited.
THEOREM DepsFirst == Spec => []DepsInPlace
<1>1. IInv => DepsInPlace
  <2> SUFFICES ASSUME IInv, Changing, cur \in todo,
                      NEW d \in manifest[cur].deps
               PROVE  Current(d)
    BY DEF DepsInPlace, Changing
  <2>1. Busy /\ PlanInv /\ CurInv /\ TypeOK
    BY DEF Busy, Changing, IInv
  <2>2. cur \in Keep(want) /\ manifest[cur] # None
    BY <2>1 DEF PlanInv
  <2>3. d \in DepsOf(manifest, cur)
    BY <2>2 DEF DepsOf
  <2>4. d \in Keep(want)
    <3>1. want \in SUBSET App /\ {} \in SUBSET App /\ manifest \in [App -> OptMeta]
      BY <2>1 DEF TypeOK
    <3>2. DepsOf(manifest, cur) \ {} \subseteq Keep(want)
      BY <2>2, <3>1, ClosureClosed DEF Keep
    <3> QED BY <2>3, <3>2
  <2>5. floor[d] < floor[cur]
    BY <2>1, <2>2, <2>3 DEF PlanInv
  <2>6. d \notin todo
    <3>1. d \in App /\ cur \in App /\ floor \in [App -> Nat]
      BY <2>1, <2>2, <2>4 DEF TypeOK, Keep, Closure
    <3>2. d \in todo => floor[cur] <= floor[d]
      BY <2>1 DEF CurInv
    <3> QED BY <2>5, <3>1, <3>2
  <2> QED BY <2>1, <2>4, <2>6 DEF PlanInv
<1> QED BY InductiveInvariant, <1>1, PTL

\* An app is torn down only when no other installed app depends on it.
THEOREM DependentsFirst == Spec => []UninstallOrder
<1>1. IInv => UninstallOrder
  <2> SUFFICES ASSUME IInv, Changing, cur \in undo,
                      NEW b \in Installed \ {cur}, cur \in DepsOf(manifest, b)
               PROVE  FALSE
    BY DEF UninstallOrder, Changing
  <2>1. Busy /\ PlanInv /\ CurInv /\ TypeOK
    BY DEF Busy, Changing, IInv
  <2>2. cur \notin Keep(want)
    BY <2>1 DEF PlanInv
  <2>3. b \notin Keep(want)
    <3>1. want \in SUBSET App /\ {} \in SUBSET App /\ manifest \in [App -> OptMeta]
      BY <2>1 DEF TypeOK
    <3>2. b \in Keep(want) => DepsOf(manifest, b) \ {} \subseteq Keep(want)
      BY <3>1, ClosureClosed DEF Keep
    <3> QED BY <2>2, <3>2
  <2>4. b \in undo
    BY <2>1, <2>3 DEF PlanInv
  <2>5. floor[cur] < floor[b]
    BY <2>1, <2>4 DEF PlanInv
  <2>6. floor[b] <= floor[cur]
    BY <2>1, <2>4 DEF CurInv
  <2>7. floor[b] \in Nat /\ floor[cur] \in Nat
    BY <2>1, <2>4 DEF TypeOK
  <2> QED BY <2>5, <2>6, <2>7
<1> QED BY InductiveInvariant, <1>1, PTL

\* The anchors are recorded when the installed set is their closure.
THEOREM AnchorsLast == Spec => AnchorsMoveLast
<1> DEFINE A == anchored' # anchored =>
                   \/ anchored' = saved.anchored
                   \/ Installed = Closure(manifest, anchored', {})
<1>1. ASSUME IInv, [Next]_vars PROVE [A]_vars
  <2>1. CASE anchored' = anchored
    BY <2>1
  <2>2. ASSUME Busy, todo = {}, undo = {}, anchored' = want PROVE A
    <3>1. /\ Installed \subseteq Keep(want)
          /\ \A a \in Keep(want) : Current(a)
      BY <1>1, <2>2 DEF IInv, PlanInv
    <3>2. Keep(want) \subseteq Installed
      BY <3>1 DEF Current, Installed, Keep, Closure
    <3> QED BY <2>2, <3>1, <3>2 DEF Keep
  <2>3. CASE Finish \/ FinishSaveFails
    BY <2>2, <2>3 DEF Finish, FinishSaveFails, Busy
  <2>4. ASSUME NEW r \in Release, Restart(r) PROVE A
    BY <2>4 DEF Restart
  <2> QED
    BY <1>1, <2>1, <2>3, <2>4
    DEF Next, Step, install, uninstall, update, Apply, BeginApply, RefuseApply,
        SkipCurrent, GiveUp, StartInstall, SkipLost, StartUninstall, ChangeDone,
        ChangeFails, SaveChange, SaveFails, reinstall, ReinstallDone,
        ReinstallFails, setRelease, vars
<1> QED BY InductiveInvariant, <1>1, PTL DEF Spec, AnchorsMoveLast

\* The version on record goes up only, while memory and table agree.
THEOREM RecordsGoUp == Spec => NoRecordDowngrade
<1> DEFINE A == \A a \in App :
                  /\ saved.metas[a] # None /\ saved.metas[a] = metas[a]
                  /\ saved'.metas[a] # None
                  => saved.metas[a].ver <= saved'.metas[a].ver
<1>1. ASSUME IInv, [Next]_vars PROVE [A]_vars
  <2>1. TypeOK /\ CurInv
    BY <1>1 DEF IInv
  <2>2. ASSUME NEW m \in OptMeta, m # None PROVE m.ver <= m.ver
    BY <2>2 DEF OptMeta, Meta
  <2>3. CASE saved' = saved \/ saved'.metas = metas
    BY <2>1, <2>2, <2>3 DEF TypeOK
  <2>4. CASE SaveChange
    <3>1. /\ Changing /\ cur \in App /\ metas \in [App -> OptMeta]
          /\ manifest \in [App -> OptMeta]
          /\ saved'.metas = [metas EXCEPT ![cur] = Goal]
      BY <2>1, <2>4 DEF SaveChange, Changing, TypeOK
    <3>2. metas[cur] # None /\ Goal # None => metas[cur].ver <= Goal.ver
      BY <2>1, <3>1 DEF CurInv, Goal, Downgrade, OptMeta, Meta
    <3> QED BY <2>2, <3>1, <3>2
  <2>5. CASE Finish
    <3>1. saved'.metas = metas
      BY <2>5 DEF Finish
    <3> QED BY <2>3, <3>1
  <2> QED
    BY <1>1, <2>3, <2>4, <2>5
    DEF Next, Step, install, uninstall, update, Apply, BeginApply, RefuseApply,
        SkipCurrent, GiveUp, StartInstall, SkipLost, StartUninstall, ChangeDone,
        ChangeFails, SaveFails, FinishSaveFails, reinstall, ReinstallDone,
        ReinstallFails, setRelease, Restart, vars
<1> QED BY InductiveInvariant, <1>1, PTL DEF Spec, NoRecordDowngrade

-----------------------------------------------------------------------------
(* One fault, one app out of step. *)

\* The app whose change is done and not yet saved is out of step for a moment;
\* the others are covered by the faults so far.
DriftInv ==
    /\ pc # "save" => Cardinality(OutOfStep) <= faults
    /\ pc = "save" => /\ Cardinality(OutOfStep \ {cur}) <= faults
                      /\ deployed[cur] = Goal

LEMMA OneMore ==
    ASSUME NEW D \in SUBSET App, NEW E \in SUBSET App, NEW c, E \subseteq D \cup {c}
    PROVE  /\ Cardinality(D) \in Nat /\ Cardinality(E) \in Nat
           /\ Cardinality(E) <= Cardinality(D) + 1
<1>1. IsFiniteSet(D) /\ IsFiniteSet(E)
  BY AppAssumption, FS_Subset
<1>2. /\ IsFiniteSet(D \cup {c})
      /\ Cardinality(D \cup {c}) <= Cardinality(D) + 1
      /\ Cardinality(D) \in Nat
  BY <1>1, FS_AddElement, FS_CardinalityType
<1> QED BY <1>1, <1>2, FS_Subset, FS_CardinalityType

LEMMA NoMore ==
    ASSUME NEW D \in SUBSET App, NEW E \in SUBSET D
    PROVE  /\ Cardinality(D) \in Nat /\ Cardinality(E) \in Nat
           /\ Cardinality(E) <= Cardinality(D)
  BY AppAssumption, FS_Subset, FS_CardinalityType

LEMMA DriftInit == Init => DriftInv
<1> SUFFICES ASSUME Init PROVE DriftInv
  OBVIOUS
<1>1. OutOfStep = {}
  BY DEF Init, OutOfStep, NoState
<1> QED BY <1>1, FS_EmptySet DEF Init, DriftInv

LEMMA DriftStep == TypeOK /\ DriftInv /\ [Next]_vars => DriftInv'
<1> SUFFICES ASSUME TypeOK, DriftInv, [Next]_vars PROVE DriftInv'
  OBVIOUS
<1>1. TypeOK' /\ faults \in Nat /\ faults' \in Nat
  BY TypeStep DEF TypeOK
<1>2. OutOfStep \in SUBSET App /\ OutOfStep' \in SUBSET App
  BY DEF OutOfStep
<1> DEFINE Rest == OutOfStep \ {cur}
<1>3. pc = "save" => Cardinality(Rest) <= faults
  BY DEF DriftInv
<1>4. Cardinality(Rest) <= faults /\ Rest \in SUBSET App
  <2>1. Rest \in SUBSET OutOfStep
    OBVIOUS
  <2>2. Cardinality(Rest) <= Cardinality(OutOfStep)
        /\ Cardinality(Rest) \in Nat /\ Cardinality(OutOfStep) \in Nat
    BY <1>2, <2>1, NoMore
  <2> QED BY <1>1, <1>2, <1>3, <2>2 DEF DriftInv
\* A step in which only the current app can get out of step, at one fault.
<1>5. ASSUME faults' = faults + 1, pc' # "save", OutOfStep' \subseteq Rest \cup {cur}
      PROVE  DriftInv'
  <2> HIDE DEF Rest
  <2>1. Cardinality(OutOfStep') <= Cardinality(Rest) + 1
        /\ Cardinality(Rest) \in Nat /\ Cardinality(OutOfStep') \in Nat
    BY <1>2, <1>4, <1>5, OneMore
  <2> QED BY <1>1, <1>4, <1>5, <2>1 DEF DriftInv
\* A step in which no app gets out of step.
<1>6. ASSUME faults' = faults, pc' # "save", pc # "save", OutOfStep' \subseteq OutOfStep
      PROVE  DriftInv'
  <2>1. Cardinality(OutOfStep') <= Cardinality(OutOfStep)
        /\ Cardinality(OutOfStep') \in Nat /\ Cardinality(OutOfStep) \in Nat
    BY <1>2, <1>6, NoMore
  <2> QED BY <1>1, <1>6, <2>1 DEF DriftInv
<1>7. CASE ChangeDone
  <2>1. /\ pc' = "save" /\ cur' = cur /\ faults' = faults
        /\ deployed' = [deployed EXCEPT ![cur] = Goal]
        /\ metas' = metas /\ saved' = saved /\ Goal' = Goal /\ cur \in App
    BY <1>7 DEF ChangeDone, Goal, plan, TypeOK
  <2>2. OutOfStep' \ {cur} \subseteq Rest /\ deployed'[cur] = Goal
    BY <2>1 DEF OutOfStep, TypeOK
  <2>3. Cardinality(OutOfStep' \ {cur}) <= Cardinality(Rest)
        /\ Cardinality(OutOfStep' \ {cur}) \in Nat /\ Cardinality(Rest) \in Nat
    <3> HIDE DEF Rest
    <3> QED BY <1>4, <2>2, NoMore
  <2>4. (OutOfStep \ {cur})' = OutOfStep' \ {cur}
    BY <2>1
  <2> QED BY <1>1, <1>4, <2>1, <2>2, <2>3, <2>4 DEF DriftInv
<1>8. CASE ChangeFails
  <2>1. OutOfStep' \subseteq Rest \cup {cur}
    BY <1>8 DEF ChangeFails, Interrupted, OutOfStep, TypeOK
  <2> QED BY <1>5, <1>8, <2>1 DEF ChangeFails, Return, Fault
<1>9. CASE SaveChange
  <2>1. /\ pc = "save" /\ pc' = "apply" /\ faults' = faults /\ deployed' = deployed
        /\ metas' = [metas EXCEPT ![cur] = Goal] /\ saved'.metas = metas'
        /\ cur \in App
    BY <1>9 DEF SaveChange, TypeOK
  <2>2. OutOfStep' \subseteq Rest
    BY <2>1 DEF OutOfStep, TypeOK, DriftInv
  <2>3. Cardinality(OutOfStep') <= Cardinality(Rest)
        /\ Cardinality(OutOfStep') \in Nat /\ Cardinality(Rest) \in Nat
    <3> HIDE DEF Rest
    <3> QED BY <1>4, <2>2, NoMore
  <2> QED BY <1>1, <1>4, <2>1, <2>3 DEF DriftInv
<1>10. CASE SaveFails
  <2>1. OutOfStep' \subseteq Rest \cup {cur}
    BY <1>10 DEF SaveFails, OutOfStep, TypeOK
  <2> QED BY <1>5, <1>10, <2>1 DEF SaveFails, Return, Fault
<1>11. CASE Finish
  <2>1. OutOfStep' \subseteq OutOfStep
    BY <1>11 DEF Finish, OutOfStep
  <2> QED BY <1>6, <1>11, <2>1 DEF Finish, Return
<1>12. CASE FinishSaveFails
  <2>1. OutOfStep' \subseteq Rest \cup {cur}
    BY <1>12 DEF FinishSaveFails, OutOfStep
  <2> QED BY <1>5, <1>12, <2>1 DEF FinishSaveFails, Return, Fault
<1>13. CASE ReinstallDone
  <2>1. OutOfStep' \subseteq OutOfStep
    BY <1>13 DEF ReinstallDone, OutOfStep, TypeOK
  <2> QED BY <1>6, <1>13, <2>1 DEF ReinstallDone
<1>14. CASE ReinstallFails
  <2>1. OutOfStep' \subseteq Rest \cup {cur}
    BY <1>14 DEF ReinstallFails, Interrupted, OutOfStep, TypeOK
  <2> QED BY <1>5, <1>14, <2>1 DEF ReinstallFails, Fault
<1>15. ASSUME NEW r \in Release, Restart(r) PROVE DriftInv'
  <2>1. /\ metas' = saved.metas /\ saved' = saved /\ BoxAtDeath
        /\ pc' = "idle" /\ faults' = faults + 1
    BY <1>15 DEF Restart, Return, Fault
  <2>2. ASSUME NEW a \in App, a # cur PROVE deployed'[a] = deployed[a]
    BY <2>1, <2>2 DEF BoxAtDeath, Interrupted, TypeOK
  <2>3. OutOfStep' \subseteq Rest \cup {cur}
    BY <2>1, <2>2 DEF OutOfStep
  <2> QED BY <1>5, <2>1, <2>3
<1>16. CASE /\ UNCHANGED <<metas, saved, deployed, faults>>
            /\ pc' # "save" /\ pc # "save"
  BY <1>6, <1>16 DEF OutOfStep
<1>17. CASE UNCHANGED vars
  BY <1>17 DEF vars, plan, DriftInv, OutOfStep, Goal
<1> QED
  BY <1>7, <1>8, <1>9, <1>10, <1>11, <1>12, <1>13, <1>14, <1>15, <1>16, <1>17
  DEF Next, Step, install, uninstall, update, Apply, BeginApply, RefuseApply,
      SkipCurrent, GiveUp, StartInstall, SkipLost, StartUninstall, reinstall,
      setRelease, Return

\* However failures and calls follow each other, no more apps are out of step
\* than there were faults, but for the one whose save is due.
THEOREM OneFaultOneApp == Spec => []FaultsBoundDrift
<1>1. Init => TypeOK /\ DriftInv
  BY TypeInit, DriftInit
<1>2. TypeOK /\ DriftInv /\ [Next]_vars => (TypeOK /\ DriftInv)'
  BY TypeStep, DriftStep
<1>3. TypeOK /\ DriftInv => FaultsBoundDrift
  <2> SUFFICES ASSUME TypeOK, DriftInv PROVE FaultsBoundDrift
    OBVIOUS
  <2>1. OutOfStep \in SUBSET App /\ OutOfStep \ {cur} \in SUBSET App /\ faults \in Nat
    BY DEF OutOfStep, TypeOK
  <2>2. OutOfStep \subseteq (OutOfStep \ {cur}) \cup {cur}
    OBVIOUS
  <2>3. /\ Cardinality(OutOfStep) <= Cardinality(OutOfStep \ {cur}) + 1
        /\ Cardinality(OutOfStep) \in Nat
        /\ Cardinality(OutOfStep \ {cur}) \in Nat
    BY <2>1, <2>2, OneMore
  <2> QED BY <2>1, <2>3 DEF DriftInv, FaultsBoundDrift
<1> QED BY <1>1, <1>2, <1>3, PTL DEF Spec

-----------------------------------------------------------------------------
(* Every call returns: it is never stuck, and each step brings it nearer. *)

\* A set of numbers has a least one, and a greatest one if it is bounded.
LEMMA Least ==
    ASSUME NEW T \in SUBSET Nat, T # {}
    PROVE  \E x \in T : \A y \in T : x <= y
<1>1. PICK x \in T : \A y \in T : <<y, x>> \notin OpToRel(<, Nat)
  BY NatLessThanWellFounded, WFMin
<1>2. \A y \in T : ~ (y < x)
  BY <1>1 DEF OpToRel
<1> QED BY <1>2

LEMMA Greatest ==
    ASSUME NEW n \in Nat, NEW T \in SUBSET (0 .. n), T # {}
    PROVE  \E x \in T : \A y \in T : y <= x
<1> DEFINE up == {n - x : x \in T}
<1>1. up \in SUBSET Nat /\ up # {}
  <2>1. \A x \in T : n - x \in Nat
    OBVIOUS
  <2>2. PICK x \in T : TRUE
    OBVIOUS
  <2>3. n - x \in up
    OBVIOUS
  <2>4. up \in SUBSET Nat
    BY <2>1
  <2> HIDE DEF up
  <2> QED BY <2>3, <2>4
<1>2. PICK u \in up : \A v \in up : u <= v
  <2> HIDE DEF up
  <2> QED BY <1>1, Least
<1>3. PICK x \in T : u = n - x
  OBVIOUS
<1>4. ASSUME NEW y \in T PROVE y <= x
  <2>1. n - x <= n - y
    BY <1>2, <1>3
  <2> QED BY <2>1
<1> QED BY <1>4

\* No floor is higher than there are apps.
FloorsLow == \A a \in App : floor[a] \in 0 .. Cardinality(App)

LEMMA FloorsLowStep == TypeOK /\ FloorsLow /\ [Next]_vars => FloorsLow'
<1> SUFFICES ASSUME TypeOK, FloorsLow, [Next]_vars PROVE FloorsLow'
  OBVIOUS
<1>0. Cardinality(App) \in Nat
  BY AppAssumption, FS_CardinalityType
<1>1. ASSUME NEW anchors \in SUBSET App, BeginApply(anchors) PROVE FloorsLow'
  <2> DEFINE K == Keep(anchors)
             T == Tear(anchors)
  <2>1. K \in SUBSET App /\ T \in SUBSET App
    BY DEF Keep, Tear, Closure
  <2>2. PICK f \in FloorMaps(manifest, K, {}), g \in FloorMaps(manifest, T, K) :
            floor' = [a \in App |->
                IF a \in K THEN f[a] ELSE IF a \in T THEN g[a] ELSE 0]
    BY <1>1 DEF BeginApply
  <2>3. f \in [K -> 0 .. Cardinality(K)] /\ g \in [T -> 0 .. Cardinality(T)]
    BY <2>2 DEF FloorMaps
  <2> HIDE DEF K, T
  <2>4. /\ Cardinality(K) \in Nat /\ Cardinality(K) <= Cardinality(App)
        /\ Cardinality(T) \in Nat /\ Cardinality(T) <= Cardinality(App)
    BY <2>1, NoMore
  <2>5. /\ \A a \in K : f[a] \in 0 .. Cardinality(App)
        /\ \A a \in T : g[a] \in 0 .. Cardinality(App)
    BY <1>0, <2>3, <2>4
  <2> QED BY <1>0, <2>2, <2>5 DEF FloorsLow
<1>2. ASSUME floor' = floor \/ floor' = [a \in App |-> 0] PROVE FloorsLow'
  BY <1>0, <1>2 DEF FloorsLow
<1> QED
  BY <1>1, <1>2
  DEF Next, Step, install, uninstall, update, Apply, RefuseApply, SkipCurrent,
      GiveUp, StartInstall, SkipLost, StartUninstall, ChangeDone, ChangeFails,
      SaveChange, SaveFails, Finish, FinishSaveFails, reinstall, ReinstallDone,
      ReinstallFails, setRelease, Restart, Return, ClearPlan, plan, vars, TypeOK

\* There is a next step: an app to visit, on the lowest floor left or the highest, and a
\* stub for each one to be torn down.
CanGoOn ==
    \/ pc \in {"change", "save", "reinstall"}
    \/ pc = "apply" /\ todo = {} /\ undo = {}
    \/ pc = "apply" /\ \E a \in App : NextUp(a)
    \/ pc = "apply" /\ \E a \in App : NextDown(a) /\ (metas[a] = None \/ a \in stubs)

NeverStuck == pc # "idle" => CanGoOn

\* However the closures look, a call that runs has a step that it can take
\* (apps.go:148-224): the error of a missing stub is never met in the second loop.
THEOREM ApplyNeverStuck == Spec => []NeverStuck
<1>1. IInv /\ FloorsLow => NeverStuck
  <2> SUFFICES ASSUME IInv, FloorsLow, pc = "apply", ~ (todo = {} /\ undo = {})
               PROVE  CanGoOn
    BY DEF NeverStuck, CanGoOn, IInv, TypeOK
  <2>0. TypeOK /\ StubsCover
    BY DEF IInv
  <2>1. CASE todo # {}
    <3> DEFINE T == {floor[a] : a \in todo}
    <3>1. T \in SUBSET Nat /\ T # {}
      BY <2>0, <2>1 DEF TypeOK
    <3>2. PICK x \in T : \A y \in T : x <= y
      <4> HIDE DEF T
      <4> QED BY <3>1, Least
    <3>3. PICK a \in todo : x = floor[a]
      OBVIOUS
    <3>4. a \in App /\ NextUp(a)
      BY <2>0, <3>2, <3>3 DEF NextUp, TypeOK
    <3> QED BY <3>4 DEF CanGoOn
  <2>2. CASE todo = {}
    <3> DEFINE T == {floor[a] : a \in undo}
    <3>0. Cardinality(App) \in Nat
      BY AppAssumption, FS_CardinalityType
    <3>1. T \in SUBSET (0 .. Cardinality(App)) /\ T # {}
      BY <2>0, <2>2 DEF TypeOK, FloorsLow
    <3>2. PICK x \in T : \A y \in T : y <= x
      <4> HIDE DEF T
      <4> QED BY <3>0, <3>1, Greatest
    <3>3. PICK a \in undo : x = floor[a]
      OBVIOUS
    <3>4. a \in App /\ NextDown(a)
      BY <2>0, <2>2, <3>2, <3>3 DEF NextDown, TypeOK
    <3>5. metas[a] = None \/ a \in stubs
      BY <2>0, <3>4 DEF StubsCover, Installed
    <3> QED BY <3>4, <3>5 DEF CanGoOn
  <2> QED BY <2>1, <2>2
<1>2. Init => FloorsLow
  BY AppAssumption, FS_CardinalityType DEF Init, FloorsLow
<1>3. IInv => TypeOK
  BY DEF IInv
<1>4. TypeOK /\ FloorsLow /\ [Next]_vars => FloorsLow'
  BY FloorsLowStep
<1>5. Spec => []FloorsLow
  BY <1>2, <1>4, TypeCorrect, PTL DEF Spec
<1> QED BY <1>1, <1>5, InductiveInvariant, PTL

\* How many steps a call has left, at most: three for each app of its plan.
Left ==
    3 * (Cardinality(todo) + Cardinality(undo))
        + (IF pc = "apply" THEN 2 ELSE IF pc = "change" THEN 1 ELSE 0)

ComesCloser == [][pc # "idle" => pc' = "idle" \/ (Left' \in Nat /\ Left' < Left)]_vars

LEMMA PlanShrinks ==
    ASSUME TypeOK, TypeOK', todo' \subseteq todo, undo' \subseteq undo
    PROVE  /\ Cardinality(todo) \in Nat /\ Cardinality(undo) \in Nat
           /\ Cardinality(todo') \in Nat /\ Cardinality(undo') \in Nat
           /\ Cardinality(todo') <= Cardinality(todo)
           /\ Cardinality(undo') <= Cardinality(undo)
           /\ todo' # todo => Cardinality(todo') < Cardinality(todo)
           /\ undo' # undo => Cardinality(undo') < Cardinality(undo)
<1>1. todo \in SUBSET App /\ undo \in SUBSET App
  BY DEF TypeOK
<1>2. IsFiniteSet(todo) /\ IsFiniteSet(undo)
  BY <1>1, AppAssumption, FS_Subset
<1>3. /\ Cardinality(todo) \in Nat /\ Cardinality(todo') \in Nat
      /\ Cardinality(todo') <= Cardinality(todo)
      /\ Cardinality(todo') = Cardinality(todo) => todo' = todo
  BY <1>2, FS_Subset, FS_CardinalityType
<1>4. /\ Cardinality(undo) \in Nat /\ Cardinality(undo') \in Nat
      /\ Cardinality(undo') <= Cardinality(undo)
      /\ Cardinality(undo') = Cardinality(undo) => undo' = undo
  BY <1>2, FS_Subset, FS_CardinalityType
<1> QED BY <1>3, <1>4

\* A call returns after at most three steps for each app of its plan, whatever fails: no
\* app is visited twice, and none is added on the way (apps.go:148-224).
THEOREM ApplyComesCloser == Spec => ComesCloser
<1> DEFINE A == pc # "idle" => pc' = "idle" \/ (Left' \in Nat /\ Left' < Left)
<1>1. ASSUME IInv, Next PROVE A
  <2>0. TypeOK /\ TypeOK'
    BY <1>1, TypeStep DEF IInv
  <2>1. CASE pc = "idle" \/ pc' = "idle"
    BY <2>1
  <2>2. ASSUME todo' \subseteq todo, undo' \subseteq undo,
               \/ pc = "apply" /\ pc' = "change"
               \/ pc = "change" /\ pc' = "save"
               \/ /\ todo' # todo \/ undo' # undo
                  /\ pc \in {"apply", "save"} /\ pc' = "apply"
        PROVE  A
    <3>1. /\ Cardinality(todo) \in Nat /\ Cardinality(undo) \in Nat
          /\ Cardinality(todo') \in Nat /\ Cardinality(undo') \in Nat
          /\ Cardinality(todo') <= Cardinality(todo)
          /\ Cardinality(undo') <= Cardinality(undo)
          /\ todo' # todo => Cardinality(todo') < Cardinality(todo)
          /\ undo' # undo => Cardinality(undo') < Cardinality(undo)
      BY <2>0, <2>2, PlanShrinks
    <3> QED BY <2>2, <3>1 DEF Left
  <2>3. ASSUME NEW a \in App, SkipCurrent(a) PROVE A
    BY <2>2, <2>3 DEF SkipCurrent, NextUp
  <2>4. ASSUME NEW a \in App, SkipLost(a) PROVE A
    BY <2>2, <2>4 DEF SkipLost, NextDown
  <2>5. ASSUME NEW a \in App, StartInstall(a) \/ StartUninstall(a) PROVE A
    <3>1. pc = "apply" /\ pc' = "change" /\ todo' = todo /\ undo' = undo
      BY <2>5 DEF StartInstall, StartUninstall, plan, NextUp, NextDown
    <3> QED BY <2>2, <3>1
  <2>6. CASE ChangeDone
    BY <2>2, <2>6 DEF ChangeDone, plan
  <2>7. CASE SaveChange
    <3>1. cur \in todo \cup undo /\ todo' = todo \ {cur} /\ undo' = undo \ {cur}
          /\ pc = "save" /\ pc' = "apply"
      BY <2>0, <2>7 DEF SaveChange, TypeOK
    <3>2. todo' \subseteq todo /\ undo' \subseteq undo /\ (todo' # todo \/ undo' # undo)
      BY <3>1
    <3> QED BY <2>2, <3>1, <3>2
  <2> QED
    BY <1>1, <2>1, <2>3, <2>4, <2>5, <2>6, <2>7
    DEF Next, Step, install, uninstall, update, Apply, BeginApply, RefuseApply,
        GiveUp, ChangeFails, SaveFails, Finish, FinishSaveFails, reinstall,
        ReinstallDone, ReinstallFails, setRelease, Restart, Return
<1>2. IInv /\ [Next]_vars => [A]_vars
  BY <1>1
<1> QED BY <1>2, InductiveInvariant, PTL DEF Spec, ComesCloser

=============================================================================
