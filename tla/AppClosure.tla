----------------------------- MODULE AppClosure -----------------------------
(***************************************************************************)
(* The search for dependencies: appClosure.add and the loops that call it  *)
(* (jarvis/app_closure.go, apps.go:127-146).  The recursive calls are laid *)
(* out on a stack, one step for each call and each return, so that the     *)
(* half-built closure can be looked at, and proved about, in between.      *)
(***************************************************************************)
EXTENDS AppDeps, Sequences

CONSTANT Manifest   \* the manifests to be searched

ASSUME ClosureAssumption ==
    /\ IsFiniteSet(App) /\ None \notin Nat
    /\ \A m \in Manifest : \A a \in App : DepsOf(m, a) \subseteq App

VARIABLES
    q,          \* the manifest of the querier
    Roots,      \* the names that add is called with
    ignore,     \* its argument of that name
    queue,      \* the roots that are left
    trace,      \* appClosure.trace: the apps whose calls have not returned
    left,       \* the dependencies each of them still has to go through
    floor,      \* its local of that name
    apps,       \* the keys of appClosure.apps
    floorMap,   \* appClosure.floorMap, None where it has no entry
    status      \* "run", "done", or the error: "missing" or "circle"

input == <<q, Roots, ignore>>
calls == <<trace, left, floor>>
vars == <<input, queue, calls, apps, floorMap, status>>

Init ==
    /\ q \in Manifest /\ Roots \in SUBSET App /\ ignore \in SUBSET App
    /\ queue = Roots
    /\ trace = <<>>
    /\ left = [a \in App |-> {}] /\ floor = [a \in App |-> 0]
    /\ apps = {} /\ floorMap = [a \in App |-> None]
    /\ status = "run"

Last(tr) == tr[Len(tr)]

OnTrace(a) == \E i \in 1 .. Len(trace) : trace[i] = a

\* add is about to be called with a: a root, or a dependency of the innermost
\* call.  The code takes them in the order of a list.
Calling(a) ==
    /\ status = "run"
    /\ IF trace = <<>> THEN a \in queue ELSE a \in left[Last(trace)]

\* Mutant: the floor of the latest dependency counts, not that of the highest.
LiftToLatest(tr, a, f) ==
    IF tr = <<>>
    THEN queue' = queue \ {a} /\ UNCHANGED <<left, floor>>
    ELSE /\ left' = [left EXCEPT ![Last(tr)] = @ \ {a}]
         /\ floor' = [floor EXCEPT ![Last(tr)] = f + 1]
         /\ UNCHANGED queue

\* The caller has done with a; the floor that comes back lifts its own.
Return(tr, a, f) ==
    IF tr = <<>>
    THEN queue' = queue \ {a} /\ UNCHANGED <<left, floor>>
    ELSE /\ left' = [left EXCEPT ![Last(tr)] = @ \ {a}]
         /\ floor' = [floor EXCEPT ![Last(tr)] = IF @ <= f THEN f + 1 ELSE @]
         /\ UNCHANGED queue

Ignored(a) ==
    /\ Calling(a) /\ a \in ignore
    /\ Return(trace, a, 0)
    /\ UNCHANGED <<input, trace, apps, floorMap, status>>

\* Mutant: whatever was seen before is taken for a circle.
CircleSeen(a) ==
    /\ Calling(a) /\ a \notin ignore /\ a \in apps
    /\ status' = "circle"
    /\ UNCHANGED <<input, queue, calls, apps, floorMap>>

\* Mutant: circles go unnoticed; such a call does not come back.
CircleUnnoticed(a) == FALSE

Circle(a) ==
    /\ Calling(a) /\ a \notin ignore /\ OnTrace(a)
    /\ status' = "circle"
    /\ UNCHANGED <<input, queue, calls, apps, floorMap>>

Known(a) ==
    /\ Calling(a) /\ a \notin ignore /\ ~ OnTrace(a) /\ floorMap[a] # None
    /\ Return(trace, a, floorMap[a])
    /\ UNCHANGED <<input, trace, apps, floorMap, status>>

Missing(a) ==
    /\ Calling(a) /\ a \notin ignore /\ ~ OnTrace(a) /\ floorMap[a] = None
    /\ q[a] = None
    /\ status' = "missing"
    /\ UNCHANGED <<input, queue, calls, apps, floorMap>>

Enter(a) ==
    /\ Calling(a) /\ a \notin ignore /\ ~ OnTrace(a) /\ floorMap[a] = None
    /\ q[a] # None
    /\ trace' = Append(trace, a)
    /\ left' = [left EXCEPT ![a] = q[a].deps]
    /\ floor' = [floor EXCEPT ![a] = 0]
    /\ apps' = apps \cup {a}
    /\ UNCHANGED <<input, queue, floorMap, status>>

\* The innermost call has gone through its dependencies: the app gets its
\* floor, and the call returns it.
Leave ==
    /\ status = "run" /\ trace # <<>> /\ left[Last(trace)] = {}
    /\ LET a == Last(trace)
           callers == SubSeq(trace, 1, Len(trace) - 1)
       IN  /\ floorMap' = [floorMap EXCEPT ![a] = floor[a]]
           /\ trace' = callers
           /\ Return(callers, a, floor[a])
    /\ UNCHANGED <<input, apps, status>>

Done ==
    /\ status = "run" /\ trace = <<>> /\ queue = {}
    /\ status' = "done"
    /\ UNCHANGED <<input, queue, calls, apps, floorMap>>

Next ==
    \/ \E a \in App : Ignored(a) \/ Circle(a) \/ Known(a) \/ Missing(a) \/ Enter(a)
    \/ Leave \/ Done

Spec == Init /\ [][Next]_vars /\ WF_vars(Next)

-----------------------------------------------------------------------------
(* Properties. *)

TypeOK ==
    /\ q \in Manifest /\ Roots \subseteq App /\ ignore \subseteq App
    /\ queue \subseteq Roots
    /\ trace \in Seq(App)
    /\ left \in [App -> SUBSET App] /\ floor \in [App -> Nat]
    /\ apps \subseteq App
    /\ floorMap \in [App -> Nat \cup {None}]
    /\ status \in {"run", "done", "missing", "circle"}

Wanted == Closure(q, Roots, ignore)

\* A search without an error has found the closure, no more and no less, each
\* app of it with a meta and on the lowest floor above its dependencies
\* (app_closure.go:41-97): apply can rely on both, whatever the order it walks
\* the lists in.
FindsClosure ==
    status = "done" =>
        /\ apps = Wanted
        /\ \A a \in apps : q[a] # None /\ floorMap[a] # None
        /\ IsFloors(q, floorMap, apps, ignore)

\* The search refuses only what has no answer: a name without a meta in the
\* closure, or a circle in it, in which case there are no floors.
RefusesRightly ==
    /\ status = "missing" => \E a \in Wanted : q[a] = None
    /\ status = "circle" => FloorMaps(q, Wanted, ignore) = {}

\* It comes to an end, on a graph with circles as well.
Ends == <>(status # "run")
=============================================================================
