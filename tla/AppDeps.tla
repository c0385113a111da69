------------------------------ MODULE AppDeps ------------------------------
(***************************************************************************)
(* The dependencies of apps: what newAppClosure and add (app_closure.go)   *)
(* compute, by definition.  Module Apps plans with these definitions;      *)
(* module AppClosure has the search itself, which is shown to agree.       *)
(***************************************************************************)
EXTENDS Integers, FiniteSets

CONSTANTS
    App,        \* app names
    None        \* no meta: nil in the code

\* q is the querier: a manifest.
DepsOf(q, a) == IF q[a] = None THEN {} ELSE q[a].deps

\* The least set with S in it that is closed under the dependencies of the
\* manifest, leaving out the ignored apps and what only they need.
Closure(q, S, ignore) ==
    {a \in App : \A C \in SUBSET App :
        /\ S \ ignore \subseteq C
        /\ \A b \in C : DepsOf(q, b) \ ignore \subseteq C
        => a \in C}

\* f gives every app of C the lowest floor above those of its dependencies;
\* an ignored dependency counts as one on the ground floor.
IsFloors(q, f, C, ignore) ==
    \A a \in C :
        LET below == {IF d \in ignore THEN 0 ELSE f[d] : d \in DepsOf(q, a)}
        IN  /\ \A k \in below : k < f[a]
            /\ f[a] = 0 \/ f[a] - 1 \in below

\* No floors exist for a closure with a circle in it.
FloorMaps(q, C, ignore) ==
    {f \in [C -> 0 .. Cardinality(C)] : IsFloors(q, f, C, ignore)}
=============================================================================
