----------------------------- MODULE AppChange -----------------------------
(***************************************************************************)
(* What the apps manager may rely on when it calls App.Change              *)
(* (homeapp/app.go): a call works on its own app only, and when it returns *)
(* nil that app is what it was asked to be, which is then recorded.  A     *)
(* call that fails, or whose process dies, leaves its app in any state;    *)
(* such an app may still settle by itself, because Docker goes on starting *)
(* its container.                                                          *)
(***************************************************************************)
EXTENDS Naturals

CONSTANTS App, Version, None, Torn,
    Stepwise    \* the apps that are upgraded one version at a time, never back

VARIABLES
    box,    \* what the box runs of each app
    call,   \* the Change that runs: app, from and to, or None
    record, \* what the manager has recorded of each app
    top     \* the highest version each app of Stepwise was ever asked for

vars == <<box, call, record, top>>

Call == [app : App, from : Version \cup {None}, to : Version \cup {None}]

Init == /\ box = [a \in App |-> None] /\ record = [a \in App |-> None]
        /\ call = None /\ top = [a \in Stepwise |-> 0]

Begin ==
    /\ call = None
    /\ call' \in Call /\ call'.from = record[call'.app]
    /\ top' = [a \in Stepwise |->
                  IF a = call'.app /\ call'.to # None /\ call'.to > top[a]
                  THEN call'.to ELSE top[a]]
    /\ UNCHANGED <<box, record>>

Work ==
    /\ call # None
    /\ \E b \in Version \cup {None, Torn} : box' = [box EXCEPT ![call.app] = b]
    /\ UNCHANGED <<call, record, top>>

\* Nothing is promised of an app of Stepwise that was asked for a later version
\* before, be it in an upgrade that was cut off or before a rollback.
Succeed ==
    /\ call # None
    /\ \/ box[call.app] = call.to
       \/ call.app \in Stepwise /\ call.to # None /\ call.to < top[call.app]
    /\ call' = None
    /\ record' = [record EXCEPT ![call.app] = call.to]
    /\ UNCHANGED <<box, top>>

\* The call returns an error, or its process dies.
Fail == call # None /\ call' = None /\ UNCHANGED <<box, record, top>>

Settle ==
    /\ \E a \in App, b \in Version :
          box[a] = Torn /\ box' = [box EXCEPT ![a] = b]
    /\ UNCHANGED <<call, record, top>>

Next == Begin \/ Work \/ Succeed \/ Fail \/ Settle

Spec == Init /\ [][Next]_vars
=============================================================================
