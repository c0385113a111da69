------------------------------- MODULE MCApps -------------------------------
(***************************************************************************)
(* Instances of Apps for TLC: three apps, and four releases that upgrade,  *)
(* drop a dependency, lose a name, or hold a circle.                       *)
(***************************************************************************)
EXTENDS Apps

CONSTANTS db, web, extra, i1, i2

M(v, i, d) == [ver |-> v, img |-> i, deps |-> d]

\* web needs db.
First == [a \in App |->
    CASE a = db -> M(1, i1, {}) [] a = web -> M(1, i1, {db}) [] OTHER -> None]

\* Both move on, one by its version and one by its image alone; extra is new,
\* and no stub is known for it.
Second == [a \in App |->
    CASE a = db -> M(2, i1, {}) [] a = web -> M(1, i2, {db})
      [] OTHER -> M(1, i1, {web})]

\* web does without db, which is still published at its old version.
Third == [a \in App |->
    CASE a = db -> M(1, i1, {}) [] a = web -> M(2, i2, {}) [] OTHER -> None]

\* db and web need each other.
Circle == [a \in App |->
    CASE a = db -> M(2, i1, {web}) [] a = web -> M(2, i1, {db}) [] OTHER -> None]

MCApp == {db, web, extra}
MCBuiltin == {db, web}
MCRelease == {First, Second, Third, Circle}
=============================================================================
