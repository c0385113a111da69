-------------------------- MODULE AppClosureProofs --------------------------
(***************************************************************************)
(* Theorems about the search for dependencies, for any set of apps and any *)
(* graph: the types; that a search without an error finds the closure and  *)
(* its floors, the only ones there are; and that it is refused only when   *)
(* there is no answer.                                                     *)
(*                                                                         *)
(* The inductive invariant says what is known of an app: while its call    *)
(* runs, its floor is right for the dependencies gone through so far; once *)
(* it has returned, for all of them.                                       *)
(***************************************************************************)
EXTENDS AppClosure, SequenceTheorems, FiniteSetTheorems, WellFoundedInduction, TLAPS

\* d has a floor for the apps above it, given the ignored apps ig and the floor
\* map m.
Placed(ig, m, d) == d \in ig \/ m[d] \in Nat

Val(ig, m, d) == IF d \in ig THEN 0 ELSE m[d]

\* f is the lowest floor above the apps of ds.
Above(ig, m, ds, f) ==
    /\ \A d \in ds : Placed(ig, m, d) /\ Val(ig, m, d) < f
    /\ f = 0 \/ \E d \in ds : Val(ig, m, d) = f - 1

TraceInv ==
    /\ \A i, j \in 1 .. Len(trace) : trace[i] = trace[j] => i = j
    /\ \A i \in 1 .. Len(trace) - 1 : trace[i + 1] \in left[trace[i]]
    /\ trace # <<>> => trace[1] \in queue

MapInv ==
    /\ \A a \in App : OnTrace(a) => floorMap[a] = None
    /\ \A a \in App : a \in apps <=> OnTrace(a) \/ floorMap[a] # None
    /\ \A a \in apps : q[a] # None /\ a \notin ignore /\ a \in Wanted

FloorInv ==
    /\ \A a \in App : floorMap[a] # None =>
           Above(ignore, floorMap, DepsOf(q, a), floorMap[a])
    /\ \A a \in App : OnTrace(a) =>
           Above(ignore, floorMap, DepsOf(q, a) \ left[a], floor[a])
    /\ \A a \in Roots \ queue : Placed(ignore, floorMap, a)

LeftInv == \A a \in App : OnTrace(a) => left[a] \subseteq DepsOf(q, a)

DoneInv == status = "done" => trace = <<>> /\ queue = {}

IInv == TypeOK /\ TraceInv /\ MapInv /\ FloorInv /\ LeftInv /\ DoneInv

-----------------------------------------------------------------------------
LEMMA DepsType == ASSUME TypeOK, NEW a \in App PROVE DepsOf(q, a) \subseteq App
  BY ClosureAssumption DEF TypeOK

LEMMA TypeInit == Init => TypeOK
  BY DEF Init, TypeOK

LEMMA CallingType ==
    ASSUME TypeOK, NEW a, Calling(a) PROVE a \in App
<1>1. CASE trace = <<>>
  BY <1>1 DEF Calling, TypeOK
<1>2. CASE trace # <<>>
  <2>1. Last(trace) \in App
    BY <1>2 DEF TypeOK, Last
  <2> QED BY <1>2, <2>1 DEF Calling, TypeOK
<1> QED BY <1>1, <1>2

LEMMA ReturnTypes ==
    ASSUME TypeOK, NEW tr \in Seq(App), NEW a \in App, NEW f \in Nat, Return(tr, a, f)
    PROVE  /\ queue' \subseteq Roots
           /\ left' \in [App -> SUBSET App] /\ floor' \in [App -> Nat]
<1>1. CASE tr = <<>>
  BY <1>1 DEF Return, TypeOK
<1>2. CASE tr # <<>>
  <2>1. Last(tr) \in App
    BY <1>2 DEF Last
  <2>2. queue' \subseteq Roots /\ left' \in [App -> SUBSET App]
    <3>1. queue' = queue /\ left' = [left EXCEPT ![Last(tr)] = left[Last(tr)] \ {a}]
      BY <1>2 DEF Return
    <3>2. left[Last(tr)] \ {a} \in SUBSET App
      BY <2>1 DEF TypeOK
    <3> QED BY <3>1, <3>2 DEF TypeOK
  <2>3. floor[Last(tr)] \in Nat
    BY <2>1 DEF TypeOK
  <2>4. PICK g \in Nat : floor' = [floor EXCEPT ![Last(tr)] = g]
    <3>1. CASE floor[Last(tr)] <= f
      BY <1>2, <3>1 DEF Return
    <3>2. CASE ~ (floor[Last(tr)] <= f)
      BY <1>2, <2>3, <3>2 DEF Return
    <3> QED BY <3>1, <3>2
  <2> QED BY <2>1, <2>2, <2>4 DEF TypeOK
<1> QED BY <1>1, <1>2

LEMMA TypeStep == TypeOK /\ [Next]_vars => TypeOK'
<1> SUFFICES ASSUME TypeOK, [Next]_vars PROVE TypeOK'
  OBVIOUS
<1> USE DEF input, calls
<1>1. ASSUME NEW a \in App, Ignored(a) PROVE TypeOK'
  BY <1>1, ReturnTypes DEF Ignored, TypeOK
<1>2. ASSUME NEW a \in App, Circle(a) PROVE TypeOK'
  BY <1>2 DEF Circle, TypeOK
<1>3. ASSUME NEW a \in App, Known(a) PROVE TypeOK'
  <2>1. floorMap[a] \in Nat
    BY <1>3 DEF Known, TypeOK
  <2> QED BY <1>3, <2>1, ReturnTypes DEF Known, TypeOK
<1>4. ASSUME NEW a \in App, Missing(a) PROVE TypeOK'
  BY <1>4 DEF Missing, TypeOK
<1>5. ASSUME NEW a \in App, Enter(a) PROVE TypeOK'
  <2>1. q[a].deps \subseteq App
    BY <1>5, DepsType DEF Enter, DepsOf
  <2> QED BY <1>5, <2>1 DEF Enter, TypeOK
<1>6. CASE Leave
  <2> DEFINE a == Last(trace)
             callers == SubSeq(trace, 1, Len(trace) - 1)
  <2>1. a \in App /\ callers \in Seq(App) /\ floor[a] \in Nat
    BY <1>6 DEF Leave, Last, TypeOK
  <2>2. /\ floorMap' = [floorMap EXCEPT ![a] = floor[a]] /\ trace' = callers
        /\ Return(callers, a, floor[a])
        /\ UNCHANGED <<input, apps, status>>
    BY <1>6 DEF Leave
  <2>3. queue' \subseteq Roots /\ left' \in [App -> SUBSET App] /\ floor' \in [App -> Nat]
    BY <2>1, <2>2, ReturnTypes
  <2> QED BY <2>1, <2>2, <2>3 DEF TypeOK
<1>7. CASE Done
  BY <1>7 DEF Done, TypeOK
<1>8. CASE UNCHANGED vars
  BY <1>8 DEF vars, TypeOK
<1> QED BY <1>1, <1>2, <1>3, <1>4, <1>5, <1>6, <1>7, <1>8 DEF Next

\* Every variable has its type, on any graph (app_closure.go:23-39).
THEOREM TypeCorrect == Spec => []TypeOK
  BY TypeInit, TypeStep, PTL DEF Spec

-----------------------------------------------------------------------------
(* Floors. *)

\* A floor map that only gains entries keeps what was right.
LEMMA AboveStays ==
    ASSUME NEW ig, NEW m, NEW n, NEW ds, NEW f, Above(ig, m, ds, f),
           \A d \in ds : m[d] \in Nat => n[d] = m[d]
    PROVE  Above(ig, n, ds, f)
  BY DEF Above, Placed, Val

\* One more dependency, and the floor lifted above it if need be.
LEMMA AboveLifts ==
    ASSUME NEW ig, NEW m, NEW ds, NEW f \in Nat, Above(ig, m, ds, f),
           NEW d, Placed(ig, m, d)
    PROVE  Above(ig, m, ds \cup {d},
                 IF f <= Val(ig, m, d) THEN Val(ig, m, d) + 1 ELSE f)
  BY DEF Above, Placed, Val

\* The closure is closed: a dependency of one of its apps is ignored or in it.
LEMMA WantedClosed ==
    ASSUME TypeOK, NEW a \in Wanted, NEW d \in DepsOf(q, a), d \notin ignore
    PROVE  d \in Wanted
<1>1. d \in App
  BY DepsType DEF Wanted, Closure
<1>2. SUFFICES ASSUME NEW C \in SUBSET App, Roots \ ignore \subseteq C,
                      \A b \in C : DepsOf(q, b) \ ignore \subseteq C
               PROVE  d \in C
  BY <1>1 DEF Wanted, Closure
<1>3. a \in C
  BY <1>2 DEF Wanted, Closure
<1> QED BY <1>2, <1>3

LEMMA RootsWanted ==
    ASSUME TypeOK, NEW a \in Roots, a \notin ignore PROVE a \in Wanted
  BY DEF TypeOK, Wanted, Closure

LEMMA IInit == Init => IInv
<1> SUFFICES ASSUME Init PROVE IInv
  OBVIOUS
<1>1. ~ \E i \in 1 .. Len(trace) : TRUE
  BY DEF Init
<1>2. TypeOK /\ TraceInv /\ DoneInv /\ LeftInv
  BY <1>1, TypeInit DEF Init, TraceInv, DoneInv, LeftInv, OnTrace
<1>3. MapInv
  BY <1>1 DEF Init, MapInv, OnTrace
<1>4. FloorInv
  BY <1>1 DEF Init, FloorInv, OnTrace
<1> QED BY <1>2, <1>3, <1>4 DEF IInv

\* What a call leaves behind in its caller: a dependency less to go through,
\* and a floor that is right for one more.
LEMMA ReturnLifts ==
    ASSUME TypeOK, NEW tr \in Seq(App), tr # <<>>, NEW a \in App, NEW f \in Nat,
           Return(tr, a, f), NEW ig, NEW m, Placed(ig, m, a), Val(ig, m, a) = f,
           a \in left[Last(tr)], left[Last(tr)] \subseteq DepsOf(q, Last(tr)),
           Above(ig, m, DepsOf(q, Last(tr)) \ left[Last(tr)], floor[Last(tr)])
    PROVE  /\ left'[Last(tr)] = left[Last(tr)] \ {a}
           /\ \A b \in App \ {Last(tr)} : left'[b] = left[b] /\ floor'[b] = floor[b]
           /\ Above(ig, m, DepsOf(q, Last(tr)) \ left'[Last(tr)], floor'[Last(tr)])
<1> DEFINE b == Last(tr)
<1>1. b \in App
  BY DEF Last
<1>2. /\ left' = [left EXCEPT ![b] = left[b] \ {a}]
      /\ floor' = [floor EXCEPT ![b] = IF floor[b] <= f THEN f + 1 ELSE floor[b]]
  BY DEF Return
<1>3. left'[b] = left[b] \ {a} /\ floor'[b] = (IF floor[b] <= f THEN f + 1 ELSE floor[b])
  BY <1>1, <1>2 DEF TypeOK
<1>4. DepsOf(q, b) \ left'[b] = (DepsOf(q, b) \ left[b]) \cup {a}
  BY <1>3
<1>5. floor[b] \in Nat
  BY <1>1 DEF TypeOK
<1>6. Above(ig, m, (DepsOf(q, b) \ left[b]) \cup {a},
            IF floor[b] <= f THEN f + 1 ELSE floor[b])
  BY <1>5, AboveLifts
<1>7. \A c \in App \ {b} : left'[c] = left[c] /\ floor'[c] = floor[c]
  BY <1>2 DEF TypeOK
<1> QED BY <1>3, <1>4, <1>6, <1>7

\* A name that is placed already is ticked off.
LEMMA TickStep ==
    ASSUME IInv, TypeOK', NEW a \in App, NEW f \in Nat, Calling(a),
           Placed(ignore, floorMap, a), Val(ignore, floorMap, a) = f,
           Return(trace, a, f), UNCHANGED <<input, trace, apps, floorMap, status>>
    PROVE  IInv'
<1> USE DEF input
<1>1. TypeOK /\ TraceInv /\ MapInv /\ FloorInv /\ LeftInv /\ DoneInv
  BY DEF IInv
<1>2. MapInv'
  BY <1>1 DEF MapInv, OnTrace, Wanted
<1>3. DoneInv'
  BY <1>1 DEF Calling, DoneInv
<1>4. CASE trace = <<>>
  <2>1. UNCHANGED <<left, floor>> /\ queue' = queue \ {a}
    BY <1>4 DEF Return
  <2>2. TraceInv' /\ LeftInv'
    BY <1>1, <1>4, <2>1 DEF TraceInv, LeftInv, OnTrace
  <2>3. FloorInv'
    BY <1>1, <2>1 DEF FloorInv, OnTrace
  <2> QED BY <1>2, <1>3, <2>2, <2>3 DEF IInv
<1>5. CASE trace # <<>>
  <2> DEFINE b == Last(trace)
  <2>1. b \in App /\ OnTrace(b) /\ trace \in Seq(App) /\ Len(trace) \in Nat \ {0}
    BY <1>1, <1>5 DEF TypeOK, Last, OnTrace
  <2>2. a \in left[b] /\ left[b] \subseteq DepsOf(q, b) /\ queue' = queue
    BY <1>1, <1>5, <2>1 DEF Calling, LeftInv, Return
  <2>3. /\ left'[b] = left[b] \ {a}
        /\ \A c \in App \ {b} : left'[c] = left[c] /\ floor'[c] = floor[c]
        /\ Above(ignore, floorMap, DepsOf(q, b) \ left'[b], floor'[b])
    BY <1>1, <1>5, <2>1, <2>2, ReturnLifts DEF FloorInv
  <2>4. \A i \in 1 .. Len(trace) - 1 : trace[i] \in App \ {b}
    <3> SUFFICES ASSUME NEW i \in 1 .. Len(trace) - 1 PROVE trace[i] \in App \ {b}
      OBVIOUS
    <3>1. i \in 1 .. Len(trace) /\ Len(trace) \in 1 .. Len(trace) /\ i # Len(trace)
      BY <2>1
    <3>2. trace[i] # trace[Len(trace)] /\ trace[i] \in App
      BY <1>1, <2>1, <3>1 DEF TraceInv
    <3> QED BY <3>2 DEF Last
  <2>5. TraceInv'
    BY <1>1, <2>1, <2>2, <2>3, <2>4 DEF TraceInv
  <2>6. LeftInv'
    BY <1>1, <2>1, <2>2, <2>3 DEF LeftInv, OnTrace
  <2>7. FloorInv'
    BY <1>1, <2>1, <2>2, <2>3 DEF FloorInv, OnTrace
  <2> QED BY <1>2, <1>3, <2>5, <2>6, <2>7 DEF IInv
<1> QED BY <1>4, <1>5

LEMMA EnterStep == ASSUME IInv, TypeOK', NEW a \in App, Enter(a) PROVE IInv'
<1> USE DEF input
<1>1. TypeOK /\ TraceInv /\ MapInv /\ FloorInv /\ LeftInv /\ DoneInv
  BY DEF IInv
<1>2. /\ trace' = Append(trace, a) /\ apps' = apps \cup {a}
      /\ left' = [left EXCEPT ![a] = q[a].deps] /\ floor' = [floor EXCEPT ![a] = 0]
      /\ UNCHANGED <<q, Roots, ignore, queue, floorMap, status>>
      /\ status = "run" /\ a \notin ignore /\ ~ OnTrace(a) /\ floorMap[a] = None
      /\ q[a] # None
  BY DEF Enter, Calling
<1>3. trace \in Seq(App) /\ Len(trace) \in Nat
  BY <1>1 DEF TypeOK
<1>4. /\ Len(trace') = Len(trace) + 1 /\ trace'[Len(trace) + 1] = a
      /\ \A i \in 1 .. Len(trace) : trace'[i] = trace[i]
  BY <1>2, <1>3
<1>5. \A b \in App : OnTrace(b)' <=> OnTrace(b) \/ b = a
  BY <1>3, <1>4 DEF OnTrace
<1>6. \A b \in App \ {a} : left'[b] = left[b] /\ floor'[b] = floor[b]
  BY <1>1, <1>2 DEF TypeOK
<1>7. left'[a] = DepsOf(q, a) /\ floor'[a] = 0
  BY <1>1, <1>2 DEF TypeOK, DepsOf
<1>8. IF trace = <<>> THEN a \in queue ELSE a \in left[trace[Len(trace)]]
  BY DEF Enter, Calling, Last
<1>9. \A i \in 1 .. Len(trace) : trace[i] \in App \ {a}
  BY <1>2, <1>3 DEF OnTrace
<1>10. TraceInv'
  <2>1. \A i, j \in 1 .. Len(trace') : trace'[i] = trace'[j] => i = j
    BY <1>1, <1>3, <1>4, <1>9 DEF TraceInv
  <2>2. \A i \in 1 .. Len(trace') - 1 : trace'[i + 1] \in left'[trace'[i]]
    <3> SUFFICES ASSUME NEW i \in 1 .. Len(trace) PROVE trace'[i + 1] \in left'[trace'[i]]
      BY <1>3, <1>4
    <3>1. trace'[i] = trace[i] /\ left'[trace[i]] = left[trace[i]]
      BY <1>4, <1>6, <1>9
    <3>2. CASE i = Len(trace)
      BY <1>3, <1>4, <1>8, <3>1, <3>2
    <3>3. CASE i < Len(trace)
      BY <1>1, <1>3, <1>4, <3>1, <3>3 DEF TraceInv
    <3> QED BY <1>3, <3>2, <3>3
  <2>3. trace'[1] \in queue'
    BY <1>1, <1>2, <1>3, <1>4, <1>8 DEF TraceInv
  <2> QED BY <2>1, <2>2, <2>3 DEF TraceInv
<1>11. MapInv'
  <2>1. a \in Wanted
    <3>1. CASE trace = <<>>
      BY <1>1, <1>2, <1>8, <3>1, RootsWanted DEF TypeOK
    <3>2. CASE trace # <<>>
      <4> DEFINE b == trace[Len(trace)]
      <4>1. b \in App /\ OnTrace(b)
        BY <1>3, <3>2 DEF OnTrace
      <4>2. b \in Wanted /\ a \in DepsOf(q, b)
        BY <1>1, <1>8, <3>2, <4>1 DEF MapInv, LeftInv
      <4> QED BY <1>1, <1>2, <4>2, WantedClosed
    <3> QED BY <3>1, <3>2
  <2>2. Wanted' = Wanted
    BY <1>2 DEF Wanted
  <2>3. apps \subseteq App
    BY <1>1 DEF TypeOK
  <2> QED BY <1>1, <1>2, <1>5, <2>1, <2>2, <2>3 DEF MapInv
<1>12. LeftInv'
  BY <1>1, <1>2, <1>5, <1>6, <1>7 DEF LeftInv
<1>13. FloorInv'
  <2>1. Above(ignore, floorMap, DepsOf(q, a) \ left'[a], floor'[a])
    BY <1>7 DEF Above
  <2> QED BY <1>1, <1>2, <1>5, <1>6, <2>1 DEF FloorInv
<1>14. DoneInv'
  BY <1>2 DEF DoneInv
<1> QED BY <1>10, <1>11, <1>12, <1>13, <1>14 DEF IInv

\* What is left of a trace without its last entry.
LEMMA FrontOf ==
    ASSUME NEW s \in Seq(App), Len(s) # 0
    PROVE  LET t == SubSeq(s, 1, Len(s) - 1)
           IN  /\ t \in Seq(App) /\ Len(t) = Len(s) - 1
               /\ \A i \in 1 .. Len(s) - 1 : t[i] = s[i]
<1>1. Len(s) \in Nat /\ 1 \in Int /\ Len(s) - 1 \in Nat
  OBVIOUS
<1>2. \A i \in 1 .. Len(s) - 1 : s[i] \in App
  BY <1>1
<1>3. /\ SubSeq(s, 1, Len(s) - 1) \in Seq(App)
      /\ Len(SubSeq(s, 1, Len(s) - 1)) =
           IF 1 <= Len(s) - 1 THEN Len(s) - 1 - 1 + 1 ELSE 0
      /\ \A i \in 1 .. Len(s) - 1 - 1 + 1 : SubSeq(s, 1, Len(s) - 1)[i] = s[1 + i - 1]
  BY <1>1, <1>2, SubSeqProperties
<1>4. Len(SubSeq(s, 1, Len(s) - 1)) = Len(s) - 1
  <2>1. CASE 1 <= Len(s) - 1
    <3>1. Len(s) - 1 - 1 + 1 = Len(s) - 1
      BY <1>1
    <3> QED BY <1>3, <2>1, <3>1, Zenon
  <2>2. CASE ~ (1 <= Len(s) - 1)
    <3>1. \A m \in Nat : ~ (1 <= m) => m = 0
      OBVIOUS
    <3> QED BY <1>1, <1>3, <2>2, <3>1, Zenon
  <2> QED BY <2>1, <2>2
<1>5. ASSUME NEW i \in 1 .. Len(s) - 1 PROVE SubSeq(s, 1, Len(s) - 1)[i] = s[i]
  <2>1. i \in 1 .. Len(s) - 1 - 1 + 1 /\ 1 + i - 1 = i
    BY <1>1
  <2>2. SubSeq(s, 1, Len(s) - 1)[i] = s[1 + i - 1]
    BY <1>3, <2>1
  <2> QED BY <2>1, <2>2, Zenon
<1> QED BY <1>3, <1>4, <1>5, Zenon

LEMMA LeaveStep == ASSUME IInv, TypeOK', Leave PROVE IInv'
<1> USE DEF input
<1> DEFINE b == Last(trace)
           n == Len(trace)
           callers == SubSeq(trace, 1, n - 1)
<1>1. TypeOK /\ TraceInv /\ MapInv /\ FloorInv /\ LeftInv /\ DoneInv
  BY DEF IInv
<1>2. /\ status = "run" /\ trace # <<>> /\ left[b] = {}
      /\ floorMap' = [floorMap EXCEPT ![b] = floor[b]] /\ trace' = callers
      /\ Return(callers, b, floor[b])
      /\ UNCHANGED <<q, Roots, ignore, apps, status>>
  BY DEF Leave
<1>3. /\ trace \in Seq(App) /\ n \in Nat \ {0} /\ b = trace[n] /\ b \in App
      /\ floor[b] \in Nat
  BY <1>1, <1>2 DEF TypeOK, Last
<1>4. /\ callers \in Seq(App) /\ Len(callers) = n - 1
      /\ \A i \in 1 .. n - 1 : callers[i] = trace[i] /\ trace[i] \in App \ {b}
  <2>1. callers \in Seq(App) /\ Len(callers) = n - 1
    BY <1>3, FrontOf
  <2>2. ASSUME NEW i \in 1 .. n - 1 PROVE callers[i] = trace[i] /\ trace[i] \in App \ {b}
    <3>1. i \in 1 .. n /\ n \in 1 .. n /\ i # n
      BY <1>3
    <3>a. callers[i] = trace[i]
      BY <1>3, FrontOf
    <3>2. trace[i] # trace[n] /\ trace[i] \in App
      BY <1>1, <1>3, <3>1 DEF TraceInv
    <3> QED BY <1>3, <3>1, <3>a, <3>2
  <2> QED BY <2>1, <2>2
<1>5. /\ OnTrace(b) /\ floorMap[b] = None /\ b \notin ignore /\ b \in apps
  BY <1>1, <1>3 DEF OnTrace, MapInv
<1>6. \A c \in App : OnTrace(c)' <=> OnTrace(c) /\ c # b
  BY <1>2, <1>3, <1>4 DEF OnTrace
<1>7. floorMap'[b] = floor[b] /\ \A c \in App \ {b} : floorMap'[c] = floorMap[c]
  BY <1>1, <1>2, <1>3 DEF TypeOK
<1>8. \A d \in App : floorMap[d] \in Nat => floorMap'[d] = floorMap[d]
  BY <1>5, <1>7, ClosureAssumption
<1>9. ASSUME NEW ds \in SUBSET App, NEW f, Above(ignore, floorMap, ds, f)
      PROVE  Above(ignore, floorMap', ds, f)
  BY <1>8, <1>9, AboveStays
<1>10. Above(ignore, floorMap', DepsOf(q, b), floor[b])
  <2>1. DepsOf(q, b) \ left[b] = DepsOf(q, b) /\ DepsOf(q, b) \subseteq App
    BY <1>1, <1>2, <1>3, DepsType
  <2> QED BY <1>1, <1>3, <1>5, <1>9, <2>1 DEF FloorInv
<1>11. MapInv'
  <2>1. Wanted' = Wanted
    BY <1>2 DEF Wanted
  <2>2. floor[b] # None
    BY <1>3, ClosureAssumption
  <2> QED BY <1>1, <1>2, <1>5, <1>6, <1>7, <2>1, <2>2 DEF MapInv
<1>12. DoneInv'
  BY <1>2 DEF DoneInv
<1>13. \A c \in App : floorMap'[c] # None =>
            Above(ignore, floorMap', DepsOf(q, c), floorMap'[c])
  <2> SUFFICES ASSUME NEW c \in App, floorMap'[c] # None
               PROVE  Above(ignore, floorMap', DepsOf(q, c), floorMap'[c])
    OBVIOUS
  <2>1. CASE c = b
    BY <1>7, <1>10, <2>1
  <2>2. CASE c # b
    <3>1. floorMap'[c] = floorMap[c] /\ DepsOf(q, c) \subseteq App
      BY <1>1, <1>7, <2>2, DepsType
    <3> QED BY <1>1, <1>9, <3>1 DEF FloorInv
  <2> QED BY <2>1, <2>2
<1>14. Placed(ignore, floorMap', b) /\ Val(ignore, floorMap', b) = floor[b]
  BY <1>3, <1>5, <1>7 DEF Placed, Val
<1>15. \A a \in Roots : Placed(ignore, floorMap, a) => Placed(ignore, floorMap', a)
  BY <1>1, <1>8 DEF Placed, TypeOK
<1>16. CASE callers = <<>>
  <2>1. UNCHANGED <<left, floor>> /\ queue' = queue \ {b}
    BY <1>2, <1>16 DEF Return
  <2>2. Len(trace') = 0 /\ \A c \in App : ~ OnTrace(c)'
    <3>1. trace' = <<>>
      BY <1>2, <1>16
    <3> QED BY <3>1 DEF OnTrace
  <2>3. TraceInv' /\ LeftInv'
    <3>1. trace' = <<>>
      BY <1>2, <1>16
    <3> QED BY <2>2, <3>1 DEF TraceInv, LeftInv
  <2>4. \A a \in Roots \ queue' : Placed(ignore, floorMap', a)
    BY <1>1, <1>14, <1>15, <2>1 DEF FloorInv
  <2>5. FloorInv'
    BY <1>2, <1>13, <2>2, <2>4 DEF FloorInv
  <2> QED BY <1>11, <1>12, <2>3, <2>5 DEF IInv
<1>17. CASE callers # <<>>
  <2> DEFINE p == Last(callers)
  <2>1. p = trace[n - 1] /\ p \in App \ {b} /\ n - 1 \in 1 .. n - 1 /\ OnTrace(p)
    BY <1>3, <1>4, <1>17 DEF Last, OnTrace
  <2>2. b \in left[p] /\ left[p] \subseteq DepsOf(q, p) /\ queue' = queue
    BY <1>1, <1>2, <1>3, <1>17, <2>1 DEF TraceInv, LeftInv, Return
  <2>3. Above(ignore, floorMap', DepsOf(q, p) \ left[p], floor[p])
    <3>1. DepsOf(q, p) \ left[p] \subseteq App
      BY <1>1, <2>1, DepsType
    <3> QED BY <1>1, <1>9, <2>1, <3>1 DEF FloorInv
  <2>4. /\ left'[p] = left[p] \ {b}
        /\ \A c \in App \ {p} : left'[c] = left[c] /\ floor'[c] = floor[c]
        /\ Above(ignore, floorMap', DepsOf(q, p) \ left'[p], floor'[p])
    <3>1. /\ TypeOK /\ callers \in Seq(App) /\ callers # <<>> /\ b \in App
          /\ floor[b] \in Nat /\ Return(callers, b, floor[b])
      BY <1>1, <1>2, <1>3, <1>4, <1>17
    <3> HIDE DEF b, n, callers
    <3> QED BY <1>14, <2>2, <2>3, <3>1, ReturnLifts
  <2>5. TraceInv'
    <3>1. \A i, j \in 1 .. Len(trace') : trace'[i] = trace'[j] => i = j
      BY <1>1, <1>2, <1>3, <1>4 DEF TraceInv
    <3>2. \A i \in 1 .. n - 2 : trace[i] \in App \ {p}
      BY <1>1, <1>3, <1>4, <2>1 DEF TraceInv
    <3>3. \A i \in 1 .. Len(trace') - 1 : trace'[i + 1] \in left'[trace'[i]]
      <4> SUFFICES ASSUME NEW i \in 1 .. n - 2
                   PROVE  callers[i + 1] \in left'[callers[i]]
        BY <1>2, <1>3, <1>4
      <4>1. /\ i \in 1 .. n - 1 /\ i + 1 \in 1 .. n - 1
            /\ callers[i] = trace[i] /\ callers[i + 1] = trace[i + 1]
        BY <1>3, <1>4
      <4>2. left'[trace[i]] = left[trace[i]]
        BY <2>4, <3>2
      <4> QED BY <1>1, <4>1, <4>2 DEF TraceInv
    <3>4. trace'[1] \in queue'
      BY <1>1, <1>2, <1>3, <1>4, <2>1, <2>2 DEF TraceInv
    <3> QED BY <3>1, <3>3, <3>4 DEF TraceInv
  <2>6. LeftInv'
    BY <1>1, <1>2, <1>6, <2>2, <2>4 DEF LeftInv
  <2>7. \A c \in App : OnTrace(c)' =>
             Above(ignore, floorMap', DepsOf(q, c) \ left'[c], floor'[c])
    <3> SUFFICES ASSUME NEW c \in App, OnTrace(c)'
                 PROVE  Above(ignore, floorMap', DepsOf(q, c) \ left'[c], floor'[c])
      OBVIOUS
    <3>1. CASE c = p
      BY <2>4, <3>1
    <3>2. CASE c # p
      <4>1. /\ left'[c] = left[c] /\ floor'[c] = floor[c] /\ OnTrace(c)
            /\ DepsOf(q, c) \ left[c] \subseteq App
        BY <1>1, <1>6, <2>4, <3>2, DepsType
      <4> QED BY <1>1, <1>9, <4>1 DEF FloorInv
    <3> QED BY <3>1, <3>2
  <2>8. \A a \in Roots \ queue' : Placed(ignore, floorMap', a)
    BY <1>1, <1>15, <2>2 DEF FloorInv
  <2>9. FloorInv'
    BY <1>2, <1>13, <2>7, <2>8 DEF FloorInv
  <2> QED BY <1>11, <1>12, <2>5, <2>6, <2>9 DEF IInv
<1> QED BY <1>16, <1>17

LEMMA IStep == IInv /\ [Next]_vars => IInv'
<1> SUFFICES ASSUME IInv, [Next]_vars PROVE IInv'
  OBVIOUS
<1>1. TypeOK /\ TypeOK'
  BY TypeStep DEF IInv
<1>2. ASSUME NEW a \in App, Ignored(a) PROVE IInv'
  <2>1. Placed(ignore, floorMap, a) /\ Val(ignore, floorMap, a) = 0
    BY <1>2 DEF Ignored, Placed, Val
  <2> QED BY <1>1, <1>2, <2>1, TickStep DEF Ignored
<1>3. ASSUME NEW a \in App, Known(a) PROVE IInv'
  <2>1. /\ floorMap[a] \in Nat /\ Placed(ignore, floorMap, a)
        /\ Val(ignore, floorMap, a) = floorMap[a]
    BY <1>1, <1>3 DEF Known, Placed, Val, TypeOK
  <2> QED BY <1>1, <1>3, <2>1, TickStep DEF Known
<1>4. ASSUME NEW a \in App, Enter(a) PROVE IInv'
  BY <1>1, <1>4, EnterStep
<1>5. CASE Leave
  BY <1>1, <1>5, LeaveStep
<1>6. CASE /\ UNCHANGED <<q, Roots, ignore, queue, trace, left, floor, apps, floorMap>>
           /\ status' = "done" => trace = <<>> /\ queue = {}
  BY <1>1, <1>6 DEF IInv, TraceInv, MapInv, FloorInv, LeftInv, DoneInv, OnTrace, Wanted
<1>7. ASSUME NEW a \in App, Circle(a) \/ Missing(a) PROVE IInv'
  BY <1>6, <1>7 DEF Circle, Missing, input, calls
<1>8. CASE Done
  BY <1>6, <1>8 DEF Done, input, calls
<1>9. CASE UNCHANGED vars
  BY <1>6, <1>9 DEF vars, input, calls, IInv, DoneInv
<1> QED BY <1>2, <1>3, <1>4, <1>5, <1>7, <1>8, <1>9 DEF Next

\* Where the search ends, the invariant says what it has found.
LEMMA SearchFinds == IInv => FindsClosure
<1> SUFFICES ASSUME IInv, status = "done" PROVE FindsClosure
  BY DEF FindsClosure
<1>1. /\ TypeOK /\ MapInv /\ FloorInv /\ trace = <<>> /\ queue = {}
      /\ \A a \in App : ~ OnTrace(a)
  BY DEF IInv, DoneInv, OnTrace
<1>2. apps \subseteq App /\ \A a \in App : a \in apps <=> floorMap[a] \in Nat
  BY <1>1, ClosureAssumption DEF TypeOK, MapInv
<1>3. \A a \in apps : /\ q[a] # None /\ floorMap[a] # None /\ a \in Wanted
                     /\ Above(ignore, floorMap, DepsOf(q, a), floorMap[a])
  BY <1>1, <1>2, ClosureAssumption DEF MapInv, FloorInv
<1>4. Roots \ ignore \subseteq apps
  BY <1>1, <1>2 DEF FloorInv, Placed, TypeOK
<1>5. \A a \in apps : DepsOf(q, a) \ ignore \subseteq apps
  <2> SUFFICES ASSUME NEW a \in apps, NEW d \in DepsOf(q, a), d \notin ignore
               PROVE  d \in apps
    OBVIOUS
  <2>1. d \in App
    BY <1>1, <1>2, DepsType
  <2> QED BY <1>2, <1>3, <2>1 DEF Above, Placed
<1>6. Wanted \subseteq apps
  BY <1>2, <1>4, <1>5 DEF Wanted, Closure
<1>7. IsFloors(q, floorMap, apps, ignore)
  BY <1>3 DEF IsFloors, Above, Val
<1> QED BY <1>3, <1>6, <1>7 DEF FindsClosure

\* A search that ends without an error has found the closure of the roots, with
\* each app on the lowest floor above its dependencies, on any graph and in any
\* order of the lists (app_closure.go:41-97): what apply walks along.
THEOREM SearchIsRight == Spec => []FindsClosure
BY SearchFinds, IInit, IStep, PTL DEF Spec

-----------------------------------------------------------------------------
(* Refusals. *)

\* A set of numbers has a least one.
LEMMA Least ==
    ASSUME NEW T \in SUBSET Nat, T # {}
    PROVE  \E x \in T : \A y \in T : x <= y
<1>1. PICK x \in T : \A y \in T : <<y, x>> \notin OpToRel(<, Nat)
  BY NatLessThanWellFounded, WFMin
<1>2. \A y \in T : ~ (y < x)
  BY <1>1 DEF OpToRel
<1> QED BY <1>2

\* A name that add is called with is in the closure, unless it is ignored.
LEMMA CalledWanted ==
    ASSUME IInv, NEW a \in App, Calling(a), a \notin ignore PROVE a \in Wanted
<1>1. TypeOK /\ MapInv /\ LeftInv
  BY DEF IInv
<1>2. CASE trace = <<>>
  BY <1>1, <1>2, RootsWanted DEF Calling, TypeOK
<1>3. CASE trace # <<>>
  <2>1. Last(trace) \in App /\ OnTrace(Last(trace))
    BY <1>1, <1>3 DEF TypeOK, Last, OnTrace
  <2>2. Last(trace) \in Wanted /\ a \in DepsOf(q, Last(trace))
    BY <1>1, <1>3, <2>1 DEF MapInv, LeftInv, Calling
  <2> QED BY <1>1, <2>2, WantedClosed
<1> QED BY <1>2, <1>3

\* Floors fall along the calls that have not returned: the first of them that is lowest
\* has nothing below it, so none depends on another that was called before.
LEMMA CircleHasNoFloors ==
    ASSUME IInv, NEW a \in App, Circle(a)
    PROVE  FloorMaps(q, Wanted, ignore) = {}
<1> SUFFICES ASSUME NEW f \in FloorMaps(q, Wanted, ignore) PROVE FALSE
  OBVIOUS
<1>1. TypeOK /\ TraceInv /\ MapInv /\ LeftInv
  BY DEF IInv
<1>2. f \in [Wanted -> Nat] /\ IsFloors(q, f, Wanted, ignore)
  <2>1. Wanted \subseteq App
    BY DEF Wanted, Closure
  <2>2. IsFiniteSet(Wanted)
    BY <2>1, ClosureAssumption, FS_Subset
  <2>3. Cardinality(Wanted) \in Nat
    BY <2>2, FS_CardinalityType
  <2>4. 0 .. Cardinality(Wanted) \subseteq Nat
    BY <2>3
  <2> HIDE DEF Wanted
  <2> QED BY <2>4 DEF FloorMaps
<1> DEFINE n == Len(trace)
<1>3. trace \in Seq(App) /\ n \in Nat
  BY <1>1 DEF TypeOK
<1>4. PICK i \in 1 .. n : trace[i] = a
  BY DEF Circle, OnTrace
<1>5. n # 0 /\ trace # <<>> /\ a \in left[trace[n]]
  BY <1>3, <1>4 DEF Circle, Calling, Last
<1>6. \A k \in 1 .. n : trace[k] \in Wanted /\ trace[k] \notin ignore /\ OnTrace(trace[k])
  BY <1>1, <1>3 DEF MapInv, OnTrace
<1>7. ASSUME NEW b \in Wanted, NEW d \in DepsOf(q, b), d \notin ignore PROVE f[d] < f[b]
  BY <1>2, <1>7 DEF IsFloors
<1> DEFINE floors == {f[trace[k]] : k \in i .. n}
<1>8. floors \in SUBSET Nat /\ floors # {}
  BY <1>2, <1>3, <1>4, <1>6
<1>9. PICK k \in i .. n : \A j \in i .. n : f[trace[k]] <= f[trace[j]]
  <2>1. PICK x \in floors : \A y \in floors : x <= y
    <3> HIDE DEF floors
    <3> QED BY <1>8, Least
  <2> QED BY <2>1
<1>10. k \in 1 .. n /\ trace[k] \in App /\ left[trace[k]] \subseteq DepsOf(q, trace[k])
  BY <1>1, <1>3, <1>4, <1>6 DEF LeftInv
<1>11. CASE k = n
  <2>1. f[a] < f[trace[n]]
    BY <1>5, <1>6, <1>7, <1>10, <1>11, <1>4
  <2>2. f[trace[n]] <= f[a]
    BY <1>3, <1>4, <1>9, <1>11
  <2> QED BY <1>2, <1>4, <1>6, <1>10, <1>11, <2>1, <2>2
<1>12. CASE k # n
  <2>1. k + 1 \in i .. n /\ k + 1 \in 1 .. n /\ k \in 1 .. n - 1
    BY <1>3, <1>4, <1>12
  <2>2. trace[k + 1] \in DepsOf(q, trace[k])
    BY <1>1, <1>10, <2>1 DEF TraceInv
  <2>3. f[trace[k + 1]] < f[trace[k]]
    BY <1>6, <1>7, <1>10, <2>1, <2>2
  <2>4. f[trace[k]] <= f[trace[k + 1]]
    BY <1>9, <2>1
  <2>5. f[trace[k]] \in Nat /\ f[trace[k + 1]] \in Nat
    BY <1>2, <1>6, <1>10, <2>1
  <2> QED BY <2>3, <2>4, <2>5
<1> QED BY <1>11, <1>12

\* A search is refused only for what has no answer: a name of the closure without a meta,
\* or a circle, and then no floors exist at all, on any graph and in any order of the lists
\* (app_closure.go:53-69).
THEOREM SearchRefusesRightly == Spec => []RefusesRightly
<1>1. Init => IInv /\ RefusesRightly
  BY IInit DEF Init, RefusesRightly
<1>2. IInv /\ RefusesRightly /\ [Next]_vars => (IInv /\ RefusesRightly)'
  <2> SUFFICES ASSUME IInv, RefusesRightly, [Next]_vars PROVE IInv' /\ RefusesRightly'
    OBVIOUS
  <2>1. IInv'
    BY IStep
  <2>2. UNCHANGED <<q, Roots, ignore>> /\ Wanted' = Wanted
    <3>1. UNCHANGED <<q, Roots, ignore>>
      BY DEF Next, Ignored, Circle, Known, Missing, Enter, Leave, Done, vars, input
    <3> QED BY <3>1 DEF Wanted
  <2>3. ASSUME NEW a \in App, Missing(a) PROVE RefusesRightly'
    <3>1. status' = "missing" /\ q[a] = None /\ a \in Wanted
      BY <2>3, CalledWanted DEF Missing
    <3> QED BY <2>2, <3>1 DEF RefusesRightly
  <2>4. ASSUME NEW a \in App, Circle(a) PROVE RefusesRightly'
    <3>1. status' = "circle" /\ FloorMaps(q, Wanted, ignore) = {}
      BY <2>4, CircleHasNoFloors DEF Circle
    <3>2. FloorMaps(q, Wanted, ignore)' = {}
      BY <2>2, <3>1 DEF FloorMaps, IsFloors, DepsOf
    <3> QED BY <3>1, <3>2 DEF RefusesRightly
  <2>5. ASSUME status' = status PROVE RefusesRightly'
    <3>1. FloorMaps(q, Wanted, ignore)' = FloorMaps(q, Wanted, ignore)
      BY <2>2 DEF FloorMaps, IsFloors, DepsOf
    <3> QED BY <2>2, <2>5, <3>1 DEF RefusesRightly
  <2>6. ASSUME status' = "done" PROVE RefusesRightly'
    BY <2>6 DEF RefusesRightly
  <2>7. ASSUME NEW a \in App, Ignored(a) \/ Known(a) \/ Enter(a) PROVE status' = status
    BY <2>7 DEF Ignored, Known, Enter
  <2>8. ASSUME Leave \/ UNCHANGED vars PROVE RefusesRightly'
    BY <2>5, <2>8 DEF Leave, vars
  <2>9. ASSUME Done PROVE RefusesRightly'
    BY <2>6, <2>9 DEF Done
  <2> QED BY <2>1, <2>3, <2>4, <2>5, <2>7, <2>8, <2>9 DEF Next
<1> QED BY <1>1, <1>2, PTL DEF Spec

-----------------------------------------------------------------------------
(* One answer: module Apps plans with any floors that there are. *)

\* Two floor maps of a closed set of apps agree: on the lowest app where they did not,
\* they would have the same floors below.
LEMMA FloorsUnique ==
    ASSUME NEW m, NEW ig, NEW C, \A a \in C : DepsOf(m, a) \ ig \subseteq C,
           NEW f \in [C -> Nat], NEW g \in [C -> Nat],
           IsFloors(m, f, C, ig), IsFloors(m, g, C, ig)
    PROVE  f = g
<1> SUFFICES ASSUME NEW z \in C, f[z] # g[z] PROVE FALSE
  OBVIOUS
<1> DEFINE differ == {f[a] : a \in {b \in C : f[b] # g[b]}}
           below(h, a) == {IF d \in ig THEN 0 ELSE h[d] : d \in DepsOf(m, a)}
<1>1. PICK a \in C : f[a] # g[a] /\ \A b \in C : f[b] # g[b] => f[a] <= f[b]
  <2>1. differ \in SUBSET Nat /\ differ # {}
    OBVIOUS
  <2>2. PICK x \in differ : \A y \in differ : x <= y
    <3> HIDE DEF differ
    <3> QED BY <2>1, Least
  <2> QED BY <2>2
<1>2. f[a] \in Nat /\ g[a] \in Nat
  OBVIOUS
<1>3. /\ \A k \in below(f, a) : k < f[a]
      /\ f[a] = 0 \/ f[a] - 1 \in below(f, a)
      /\ \A k \in below(g, a) : k < g[a]
      /\ g[a] = 0 \/ g[a] - 1 \in below(g, a)
  BY DEF IsFloors
<1>4. \A d \in DepsOf(m, a) : d \notin ig => f[d] = g[d] /\ f[d] \in Nat
  <2> SUFFICES ASSUME NEW d \in DepsOf(m, a), d \notin ig
               PROVE  f[d] = g[d] /\ f[d] \in Nat
    OBVIOUS
  <2>1. d \in C /\ f[d] \in Nat
    OBVIOUS
  <2>2. f[d] < f[a]
    BY <1>3
  <2> QED BY <1>1, <1>2, <2>1, <2>2
<1>5. below(f, a) = below(g, a) /\ below(f, a) \subseteq Nat
  BY <1>4
<1> HIDE DEF below
<1>6. f[a] = g[a]
  <2>1. ASSUME f[a] < g[a] PROVE FALSE
    <3>1. g[a] - 1 \in below(f, a)
      BY <1>2, <1>3, <1>5, <2>1
    <3>2. g[a] - 1 < f[a]
      BY <1>3, <3>1
    <3> QED BY <1>2, <2>1, <3>2
  <2>2. ASSUME g[a] < f[a] PROVE FALSE
    <3>1. f[a] - 1 \in below(g, a)
      BY <1>2, <1>3, <1>5, <2>2
    <3>2. f[a] - 1 < g[a]
      BY <1>3, <3>1
    <3> QED BY <1>2, <2>2, <3>2
  <2> QED BY <1>2, <2>1, <2>2
<1> QED BY <1>1, <1>6

\* No app is on a higher floor than there are apps: no floor up to it is left out, save
\* the ground floor when only ignored apps are on it.
LEMMA FloorsBound ==
    ASSUME NEW m, NEW ig, NEW C, IsFiniteSet(C),
           \A a \in C : DepsOf(m, a) \ ig \subseteq C,
           NEW f \in [C -> Nat], IsFloors(m, f, C, ig), NEW a \in C
    PROVE  f[a] <= Cardinality(C)
<1> DEFINE V == {f[b] : b \in C}
<1>1. f[a] \in Nat
  OBVIOUS
<1>2. ASSUME NEW k \in 0 .. f[a], k \notin V \cup {0} PROVE FALSE
  <2> DEFINE J == {j \in V : j > k}
  <2>1. J \in SUBSET Nat
    OBVIOUS
  <2>2. f[a] \in J
    BY <1>1, <1>2
  <2>3. PICK j \in J : \A i \in J : j <= i
    <3> HIDE DEF J
    <3> QED BY <2>1, <2>2, Least
  <2>4. PICK b \in C : f[b] = j
    OBVIOUS
  <2>5. k \in Nat /\ j \in Nat /\ j > k /\ k # 0
    BY <1>2
  <2>6. \E d \in DepsOf(m, b) : j - 1 = IF d \in ig THEN 0 ELSE f[d]
    BY <2>4, <2>5 DEF IsFloors
  <2>7. j - 1 \in V \cup {0}
    BY <2>6
  <2>8. j - 1 \in J
    BY <1>2, <2>5, <2>7
  <2> QED BY <2>3, <2>5, <2>8
<1>3. 0 .. f[a] \subseteq V \cup {0}
  BY <1>2
<1>4. IsFiniteSet(V) /\ Cardinality(V) <= Cardinality(C)
  <2>1. f \in Surjection(C, V)
    BY DEF Surjection
  <2> QED BY <2>1, FS_Surjection
<1>5. Cardinality(V) \in Nat /\ Cardinality(C) \in Nat
  BY <1>4, FS_CardinalityType
<1>6. IsFiniteSet(V \cup {0}) /\ Cardinality(V \cup {0}) <= Cardinality(V) + 1
  <2> HIDE DEF V
  <2>1. /\ IsFiniteSet(V \cup {0})
        /\ Cardinality(V \cup {0}) = IF 0 \in V THEN Cardinality(V) ELSE Cardinality(V) + 1
    BY <1>4, FS_AddElement
  <2> QED BY <1>5, <2>1
<1>7. Cardinality(0 .. f[a]) = f[a] + 1
  BY <1>1, FS_Interval
<1>8. Cardinality(0 .. f[a]) <= Cardinality(V \cup {0})
  BY <1>3, <1>6, FS_Subset
<1>9. Cardinality(V \cup {0}) \in Nat
  BY <1>6, FS_CardinalityType
<1> HIDE DEF V
<1> QED BY <1>1, <1>4, <1>5, <1>6, <1>7, <1>8, <1>9

\* The floors that the search has found are the only ones there are: planning with any
\* floor map, as module Apps does, is planning with what newAppClosure returns
\* (app_closure.go:23-97).
OneAnswer ==
    status = "done" => FloorMaps(q, Wanted, ignore) = {[a \in Wanted |-> floorMap[a]]}

THEOREM SearchHasOneAnswer == Spec => []OneAnswer
<1>1. ASSUME IInv, status = "done"
      PROVE  FloorMaps(q, Wanted, ignore) = {[a \in Wanted |-> floorMap[a]]}
  <2> DEFINE C == Wanted
             h == [a \in C |-> floorMap[a]]
  <2>1. TypeOK /\ apps = C /\ IsFloors(q, floorMap, C, ignore)
        /\ \A a \in C : floorMap[a] # None
    BY <1>1, SearchFinds DEF IInv, FindsClosure
  <2>2. C \subseteq App
    BY DEF Wanted, Closure
  <2>3. IsFiniteSet(C)
    BY <2>2, ClosureAssumption, FS_Subset
  <2>4. \A a \in C : DepsOf(q, a) \ ignore \subseteq C
    BY <2>1, WantedClosed
  <2> HIDE DEF C
  <2>5. h \in [C -> Nat]
    BY <2>1, <2>2 DEF TypeOK
  <2>6. IsFloors(q, h, C, ignore)
    <3>1. ASSUME NEW a \in C
          PROVE  {IF d \in ignore THEN 0 ELSE h[d] : d \in DepsOf(q, a)}
                 = {IF d \in ignore THEN 0 ELSE floorMap[d] : d \in DepsOf(q, a)}
      <4>1. \A d \in DepsOf(q, a) : d \notin ignore => h[d] = floorMap[d]
        BY <2>4
      <4> QED BY <4>1
    <3> QED BY <2>1, <3>1 DEF IsFloors
  <2>7. Cardinality(C) \in Nat
    BY <2>3, FS_CardinalityType
  <2>8. h \in FloorMaps(q, C, ignore)
    <3> HIDE DEF h
    <3>1. \A a \in C : h[a] \in 0 .. Cardinality(C)
      BY <2>3, <2>4, <2>5, <2>6, <2>7, FloorsBound
    <3> QED BY <2>5, <2>6, <3>1 DEF FloorMaps
  <2>9. ASSUME NEW f \in FloorMaps(q, C, ignore) PROVE f = h
    <3>1. f \in [C -> Nat] /\ IsFloors(q, f, C, ignore)
      BY <2>7 DEF FloorMaps
    <3> HIDE DEF h
    <3> QED BY <2>4, <2>5, <2>6, <3>1, FloorsUnique
  <2> QED BY <2>8, <2>9 DEF C
<1>2. IInv => OneAnswer
  BY <1>1 DEF OneAnswer
<1> QED BY <1>2, IInit, IStep, PTL DEF Spec

-----------------------------------------------------------------------------
(* The way to the end. *)

\* What the calls that have not returned still have to go through.
Owed == {p \in App \X App : OnTrace(p[1]) /\ p[2] \in left[p[1]]}

Pending ==
    Cardinality(queue) + Cardinality(Owed) + Len(trace) + (IF status = "run" THEN 1 ELSE 0)

\* A step of the search finds an app that was not seen before, of which there are only
\* so many, or leaves less to do for those that were.
Advances ==
    \/ apps \subseteq apps' /\ apps' # apps
    \/ apps' = apps /\ Pending' \in Nat /\ Pending' < Pending

LEMMA PendingFinite ==
    ASSUME TypeOK
    PROVE  IsFiniteSet(queue) /\ IsFiniteSet(Owed) /\ Len(trace) \in Nat
<1>1. queue \subseteq App /\ IsFiniteSet(App) /\ trace \in Seq(App)
  BY ClosureAssumption DEF TypeOK
<1>2. IsFiniteSet(App \X App) /\ Owed \subseteq App \X App
  BY <1>1, FS_Product DEF Owed
<1> QED BY <1>1, <1>2, FS_Subset

\* Nothing is added, and something is taken away.
LEMMA PendingLess ==
    ASSUME TypeOK, TypeOK', queue' \subseteq queue, Owed' \subseteq Owed,
           Len(trace') <= Len(trace), status = "run",
           \/ queue' # queue
           \/ Owed' # Owed
           \/ Len(trace') < Len(trace)
           \/ status' # "run"
    PROVE  Pending' \in Nat /\ Pending' < Pending
<1> DEFINE run == IF status = "run" THEN 1 ELSE 0
<1>1. IsFiniteSet(queue) /\ IsFiniteSet(Owed) /\ Len(trace) \in Nat /\ Len(trace') \in Nat
  BY PendingFinite DEF TypeOK
<1>2. /\ Cardinality(queue') \in Nat /\ Cardinality(queue) \in Nat
      /\ Cardinality(queue') <= Cardinality(queue)
      /\ Cardinality(queue') = Cardinality(queue) => queue' = queue
  BY <1>1, FS_Subset, FS_CardinalityType
<1>3. /\ Cardinality(Owed') \in Nat /\ Cardinality(Owed) \in Nat
      /\ Cardinality(Owed') <= Cardinality(Owed)
      /\ Cardinality(Owed') = Cardinality(Owed) => Owed' = Owed
  BY <1>1, FS_Subset, FS_CardinalityType
<1>4. run = 1 /\ run' \in {0, 1} /\ (status' # "run" => run' = 0)
  OBVIOUS
<1>5. Pending = Cardinality(queue) + Cardinality(Owed) + Len(trace) + run
  BY DEF Pending
<1>6. Pending' = Cardinality(queue') + Cardinality(Owed') + Len(trace') + run'
  BY DEF Pending
<1> HIDE DEF run
<1> QED BY <1>1, <1>2, <1>3, <1>4, <1>5, <1>6

\* Ticking off a name.
LEMMA TickAdvances ==
    ASSUME TypeOK, TypeOK', NEW a \in App, NEW f \in Nat, Calling(a),
           Return(trace, a, f), UNCHANGED <<input, trace, apps, floorMap, status>>
    PROVE  Advances
<1>1. status = "run" /\ apps' = apps /\ trace' = trace /\ Len(trace) \in Nat
  BY DEF Calling, TypeOK
<1>2. CASE trace = <<>>
  <2>1. a \in queue /\ queue' = queue \ {a} /\ left' = left
    BY <1>2 DEF Calling, Return
  <2>2. Owed' = Owed
    BY <1>1, <2>1 DEF Owed, OnTrace
  <2> QED BY <1>1, <2>1, <2>2, PendingLess DEF Advances
<1>3. CASE trace # <<>>
  <2> DEFINE b == Last(trace)
  <2>1. b \in App /\ OnTrace(b) /\ a \in left[b]
    BY <1>3 DEF TypeOK, Last, OnTrace, Calling
  <2>2. queue' = queue /\ left' = [left EXCEPT ![b] = left[b] \ {a}]
    BY <1>3 DEF Return
  <2>3. /\ left'[b] = left[b] \ {a}
        /\ \A c \in App : left'[c] \subseteq left[c]
    BY <2>1, <2>2 DEF TypeOK
  <2> HIDE DEF b
  <2>4. \A c \in App : OnTrace(c)' <=> OnTrace(c)
    BY <1>1 DEF OnTrace
  <2>5. Owed' \subseteq Owed
    BY <2>3, <2>4 DEF Owed
  <2>6. <<b, a>> \in Owed /\ <<b, a>> \notin Owed'
    BY <2>1, <2>3 DEF Owed
  <2> QED BY <1>1, <2>2, <2>5, <2>6, PendingLess DEF Advances
<1> QED BY <1>2, <1>3

LEMMA LeaveAdvances == ASSUME IInv, TypeOK', Leave PROVE Advances
<1> DEFINE b == Last(trace)
           n == Len(trace)
           callers == SubSeq(trace, 1, n - 1)
<1>1. TypeOK
  BY DEF IInv
<1>2. /\ status = "run" /\ trace # <<>> /\ trace' = callers
      /\ Return(callers, b, floor[b]) /\ apps' = apps
  BY DEF Leave
<1>3. trace \in Seq(App) /\ n \in Nat \ {0}
  BY <1>1, <1>2 DEF TypeOK
<1>4. callers \in Seq(App) /\ Len(callers) = n - 1 /\ \A i \in 1 .. n - 1 : callers[i] = trace[i]
  BY <1>3, FrontOf
<1>5. \A c \in App : OnTrace(c)' => OnTrace(c)
  <2>1. \A i \in 1 .. n - 1 : i \in 1 .. n
    BY <1>3
  <2> QED BY <1>2, <1>4, <2>1 DEF OnTrace
<1>6. queue' \subseteq queue /\ \A c \in App : left'[c] \subseteq left[c]
  <2>1. CASE callers = <<>>
    BY <1>2, <2>1 DEF Return
  <2>2. CASE callers # <<>>
    <3>1. /\ queue' = queue
          /\ left' = [left EXCEPT ![Last(callers)] = left[Last(callers)] \ {b}]
      BY <1>2, <2>2 DEF Return
    <3> HIDE DEF callers, b
    <3> QED BY <1>1, <3>1 DEF TypeOK
  <2> QED BY <2>1, <2>2
<1>7. Owed' \subseteq Owed
  BY <1>5, <1>6 DEF Owed
<1>8. Len(trace') < Len(trace) /\ Len(trace') <= Len(trace)
  <2>1. Len(trace') = n - 1
    BY <1>2, <1>4
  <2> QED BY <1>3, <2>1
<1> QED BY <1>1, <1>2, <1>6, <1>7, <1>8, PendingLess DEF Advances

\* Whatever the graph, every step brings the search nearer to its end: it goes round no
\* circle and walks no app twice, however often the app is reached (app_closure.go:41-97).
THEOREM SearchAdvances == Spec => [][Advances]_vars
<1>1. IInv /\ [Next]_vars => [Advances]_vars
  <2> SUFFICES ASSUME IInv, Next PROVE Advances
    OBVIOUS
  <2>1. TypeOK /\ TypeOK' /\ MapInv
    BY TypeStep DEF IInv
  <2>2. ASSUME NEW a \in App, Ignored(a) PROVE Advances
    BY <2>1, <2>2, TickAdvances DEF Ignored
  <2>3. ASSUME NEW a \in App, Known(a) PROVE Advances
    <3>1. floorMap[a] \in Nat
      BY <2>1, <2>3 DEF Known, TypeOK
    <3> QED BY <2>1, <2>3, <3>1, TickAdvances DEF Known
  <2>4. ASSUME NEW a \in App, Enter(a) PROVE Advances
    BY <2>1, <2>4 DEF Enter, MapInv, Advances
  <2>5. CASE Leave
    BY <2>1, <2>5, LeaveAdvances
  <2>6. CASE Done \/ \E a \in App : Circle(a) \/ Missing(a)
    <3>1. /\ status = "run" /\ status' # "run"
          /\ UNCHANGED <<queue, trace, left, apps>>
      BY <2>6 DEF Done, Circle, Missing, Calling, calls
    <3>2. Owed' = Owed
      BY <3>1 DEF Owed, OnTrace
    <3>3. Len(trace') <= Len(trace)
      BY <2>1, <3>1 DEF TypeOK
    <3> QED BY <2>1, <3>1, <3>2, <3>3, PendingLess DEF Advances
  <2> QED BY <2>2, <2>3, <2>4, <2>5, <2>6 DEF Next
<1> QED BY <1>1, IInit, IStep, PTL DEF Spec
=============================================================================
