---------------------------- MODULE TasksProofs ----------------------------
(***************************************************************************)
(* Theorems about the task loop and its submitters, for any number of      *)
(* requests and pushes, any capacity of the channel, and any faults: the   *)
(* types, that answers and waiters match, that the cron has one task at    *)
(* most, and that the build pushed last is the one that stays.             *)
(***************************************************************************)
EXTENDS Tasks, SequenceTheorems, TLAPS

In(s, q) == \E i \in 1 .. Len(q) : q[i] = s

Distinct(q) == \A i, j \in 1 .. Len(q) : q[i] = q[j] => i = j

Updater == Pusher \cup {"update"}

\* The worker holds a task from the time it takes it to the time it has given
\* the answer, and of the tasks only updates reach "apply" and "swap".
LoopInv ==
    /\ current = None <=> loop \in {"starting", "idle"}
    /\ loop \in {"apply", "swap"} => current \in Updater
    /\ loop = "swap" => updating # None
    /\ loop = "starting" => cron = "off"

\* WaitersKnown, in other words.
WaitInv ==
    /\ \A s \in Submitter : sub[s] = "wait" <=> s = current \/ In(s, queue)
    /\ ~ In(current, queue)
    /\ Distinct(queue)

\* Who submits an update knows to which release.
TargetInv ==
    /\ \A s \in Updater : sub[s] \in {"send", "wait"} => target[s] # None
    /\ \A s \in Submitter : sub[s] = "read" => s \in Pusher /\ manualBuild # None

\* A push is still to be served: it has not fetched the release yet, and it
\* will get the latest one then.
Ahead ==
    \E p \in Pusher : \/ sub[p] \in {"read", "send"}
                      \/ sub[p] = "wait" /\ current # p
                      \/ current = p /\ loop = "run"

\* What is under way will bring the box to the build pushed last.
Landing ==
    \/ Ahead
    \/ loop = "apply" /\ got = manualBuild
    \/ loop = "swap"
    \/ loop = "starting" /\ updating # None

PushInv ==
    manualBuild # None /\ clean =>
        \/ Landing
        \/ build = manualBuild /\ loop # "apply"

IInv ==
    TypeOK /\ LoopInv /\ WaitInv /\ TargetInv /\ CronOneTask /\ PushInv

-----------------------------------------------------------------------------
(* Sequences. *)

\* What is in a queue after a send.
LEMMA AppendIn ==
    ASSUME NEW S, NEW q \in Seq(S), NEW x \in S
    PROVE  /\ Append(q, x) \in Seq(S) /\ Len(Append(q, x)) = Len(q) + 1
           /\ \A s : In(s, Append(q, x)) <=> In(s, q) \/ s = x
           /\ Distinct(q) /\ ~ In(x, q) => Distinct(Append(q, x))
<1> DEFINE r == Append(q, x)
<1>1. /\ r \in Seq(S) /\ Len(q) \in Nat /\ Len(r) = Len(q) + 1
      /\ \A i \in 1 .. Len(q) : r[i] = q[i]
      /\ r[Len(q) + 1] = x
  BY AppendProperties
<1>2. 1 .. Len(r) = 1 .. Len(q) \cup {Len(q) + 1}
  BY <1>1
<1> HIDE DEF r
<1>3. ASSUME NEW s PROVE In(s, r) <=> In(s, q) \/ s = x
  BY <1>1, <1>2 DEF In
<1>4. ASSUME Distinct(q), ~ In(x, q) PROVE Distinct(r)
  BY <1>1, <1>2, <1>4 DEF In, Distinct
<1> QED BY <1>1, <1>3, <1>4 DEF r

\* What is in a queue after the worker has taken its first entry.
LEMMA TailIn ==
    ASSUME NEW S, NEW q \in Seq(S), q # <<>>, Distinct(q)
    PROVE  /\ Head(q) \in S /\ Tail(q) \in Seq(S) /\ Len(Tail(q)) <= Len(q)
           /\ \A s : In(s, q) <=> In(s, Tail(q)) \/ s = Head(q)
           /\ ~ In(Head(q), Tail(q))
           /\ Distinct(Tail(q))
<1> DEFINE r == Tail(q)
<1>1. /\ r \in Seq(S) /\ Head(q) \in S /\ Len(q) \in Nat /\ Len(r) = Len(q) - 1
      /\ \A i \in 1 .. Len(r) : r[i] = q[i + 1]
  BY HeadTailProperties
<1>2. Len(r) \in Nat /\ Head(q) = q[1]
  BY <1>1
<1> HIDE DEF r
<1>3. /\ 1 \in 1 .. Len(q) /\ \A i \in 1 .. Len(r) : i + 1 \in 1 .. Len(q) /\ i + 1 # 1
      /\ \A j \in 1 .. Len(q) : j = 1 \/ (j - 1 \in 1 .. Len(r) /\ (j - 1) + 1 = j)
  BY <1>1, <1>2
<1>4. ASSUME NEW s PROVE In(s, q) <=> In(s, r) \/ s = Head(q)
  <2>1. ASSUME NEW j \in 1 .. Len(q), q[j] = s PROVE In(s, r) \/ s = Head(q)
    <3>1. CASE j = 1
      BY <1>2, <2>1, <3>1
    <3>2. CASE j - 1 \in 1 .. Len(r) /\ (j - 1) + 1 = j
      <4>1. r[j - 1] = q[(j - 1) + 1]
        BY <1>1, <3>2
      <4> QED BY <2>1, <3>2, <4>1 DEF In
    <3> QED BY <1>3, <3>1, <3>2
  <2>2. ASSUME NEW i \in 1 .. Len(r), r[i] = s PROVE In(s, q)
    BY <1>1, <1>3, <2>2 DEF In
  <2>3. In(Head(q), q)
    BY <1>2, <1>3 DEF In
  <2> QED BY <2>1, <2>2, <2>3 DEF In
<1>5. ~ In(Head(q), r)
  BY <1>1, <1>2, <1>3 DEF In, Distinct
<1>6. ASSUME NEW i \in 1 .. Len(r), NEW j \in 1 .. Len(r), r[i] = r[j] PROVE i = j
  <2>1. i + 1 \in 1 .. Len(q) /\ j + 1 \in 1 .. Len(q) /\ q[i + 1] = q[j + 1]
    BY <1>1, <1>3, <1>6
  <2>2. i + 1 = j + 1
    BY <2>1 DEF Distinct
  <2> QED BY <1>2, <2>2
<1> QED BY <1>1, <1>2, <1>4, <1>5, <1>6 DEF r, Distinct

-----------------------------------------------------------------------------
(* Types. *)

\* A build pushed by hand overrides the release that was offered
\* (downloader.go:43-78).
LEMMA FetchType ==
    ASSUME TypeOK, NEW r \in Build \cup {None}
    PROVE  /\ FetchBuild(r) \in Build \cup {None}
           /\ r # None => FetchBuild(r) \in Build
           /\ manualBuild # None => FetchBuild(r) = manualBuild
  BY DEF TypeOK, FetchBuild, Build

\* The submitters are told apart.
LEMMA Names ==
    /\ None \notin Submitter /\ None \notin Build /\ None \notin Updater
    /\ Updater \subseteq Submitter /\ Pusher \subseteq Updater /\ Caller \subseteq Submitter
    /\ "nextcloud" \in Submitter \ Updater /\ "update" \in Updater \ Pusher
    /\ \A c \in Caller : c \notin Updater
  BY BuildAssumption, SubmitterAssumption DEF Submitter, Cron, Build, Updater

\* The task that runs is waited for, and an update that runs knows its target.
LEMMA CurrentKnown ==
    IInv /\ current # None =>
        /\ current \in Submitter /\ sub[current] = "wait"
        /\ current \in Updater => target[current] \in Build
  BY Names DEF IInv, TypeOK, WaitInv, TargetInv

\* Init has it, for a box that starts for the first time.
LEMMA IInit == Init => IInv
<1> SUFFICES ASSUME Init PROVE IInv
  OBVIOUS
<1>1. TypeOK
  <2>1. <<>> \in Seq(Submitter) /\ Len(<<>>) = 0
    OBVIOUS
  <2>2. manual \in BOOLEAN /\ clean \in BOOLEAN
    BY Zenon DEF Init, NewProcess
  <2> QED BY <2>1, <2>2, CapAssumption DEF Init, NewProcess, TypeOK, Build
<1>2. LoopInv /\ TargetInv /\ CronOneTask /\ PushInv
  BY Names DEF Init, NewProcess, LoopInv, TargetInv, CronOneTask, PushInv,
     Updater
<1>3. WaitInv
  BY Names DEF Init, NewProcess, WaitInv, In, Distinct
<1> QED BY <1>1, <1>2, <1>3 DEF IInv

\* Each step keeps the types; a send needs a place in the channel (Send's guard).
LEMMA TypeStep == ASSUME IInv, [Next]_vars PROVE TypeOK'
<1>1. IInv /\ TypeOK
  BY DEF IInv
<1>2. CASE Background
  <2>1. updating # None => FetchBuild(updating) \in Build
    BY <1>1, FetchType DEF TypeOK
  <2>b. clean' \in BOOLEAN
    BY <1>1, <1>2, Zenon DEF TypeOK, Background, Fault, ghosts
  <2> QED BY <1>1, <1>2, <2>1, <2>b, Names DEF TypeOK, Background, Fault,
         table, work, subs, crons, ghosts, Build
<1>3. CASE Take
  <2>1. /\ Head(queue) \in Submitter /\ Tail(queue) \in Seq(Submitter)
        /\ Len(Tail(queue)) <= Len(queue) /\ Len(Tail(queue)) \in Nat
    BY <1>1, <1>3, TailIn DEF TypeOK, Take, IInv, WaitInv
  <2> QED BY <1>1, <1>3, <2>1, CapAssumption DEF TypeOK, Take, table, work,
         subs, crons, ghosts
<1>4. CASE Refetch
  <2>1. target[current] \in Build /\ FetchBuild(target[current]) \in Build
    BY <1>1, <1>4, CurrentKnown, FetchType, Names DEF Refetch, Updater
  <2> QED BY <1>1, <1>4, <2>1, Names DEF TypeOK, Refetch, table, work, subs,
         crons, ghosts
<1>5. CASE UpdateDone
  BY <1>1, <1>5 DEF TypeOK, UpdateDone, table, work, subs, crons, ghosts
<1>6. CASE UpdateFails
  <2>b. clean' \in BOOLEAN
    BY <1>6, Zenon DEF UpdateFails, Fault
  <2> QED BY <1>1, <1>6, <2>b DEF TypeOK, UpdateFails, table, work, subs,
         crons, ghosts, Fault
<1>7. CASE NoDownload
  BY <1>1, <1>7 DEF TypeOK, NoDownload, table, work, subs, crons, ghosts
<1>8. CASE Swap
  <2>1. target[current] \in Build
    BY <1>1, <1>8, CurrentKnown, Names DEF Swap, Updater
  <2> QED BY <1>1, <1>8, <2>1 DEF TypeOK, Swap, table, work, subs, crons,
         ghosts
<1>9. CASE OtherTask
  BY <1>1, <1>9 DEF TypeOK, OtherTask, table, work, subs, crons, ghosts
<1>10. CASE Answer
  BY <1>1, <1>10 DEF TypeOK, Answer, table, work, subs, crons, ghosts, Resume
<1>11. CASE Swapped
  <2>1. <<>> \in Seq(Submitter) /\ Len(<<>>) = 0
    OBVIOUS
  <2>b. manual' \in BOOLEAN
    BY <1>11, Zenon DEF Swapped, Replace
  <2> QED BY <1>1, <1>11, <2>1, <2>b, CapAssumption DEF TypeOK, Swapped,
         Replace, table, work, subs, crons, ghosts
<1>12. CASE CronCheck
  BY <1>1, <1>12 DEF TypeOK, CronCheck, table, work, subs, crons, ghosts
<1>13. CASE UpToDate
  BY <1>1, <1>13 DEF TypeOK, UpToDate, table, work, subs, crons, ghosts
<1>14. CASE SubmitUpdate
  BY <1>1, <1>14, Names DEF TypeOK, SubmitUpdate, table, work, subs, crons,
     ghosts, Build
<1>15. CASE Timer
  BY <1>1, <1>15 DEF TypeOK, Timer, table, work, subs, crons, ghosts
<1>16. CASE CheckFails
  BY <1>1, <1>16 DEF TypeOK, CheckFails, table, work, subs, crons, ghosts,
     Fault
<1>17. CASE QueryFails
  BY <1>1, <1>17 DEF TypeOK, QueryFails, table, work, subs, crons, ghosts,
     Fault
<1>18. CASE CronNextcloud
  BY <1>1, <1>18, Names DEF TypeOK, CronNextcloud, Submit, table, work, subs,
     crons, ghosts
<1>19. ASSUME NEW c \in Caller, Call(c) PROVE TypeOK'
  BY <1>1, <1>19, Names DEF TypeOK, Call, Submit, table, work, subs, crons,
     ghosts
<1>20. ASSUME NEW s \in Submitter, Send(s) PROVE TypeOK'
  <2>1. /\ Append(queue, s) \in Seq(Submitter)
        /\ Len(Append(queue, s)) = Len(queue) + 1
    BY <1>1, <1>20, AppendIn DEF TypeOK, Send
  <2> QED BY <1>1, <1>20, <2>1, CapAssumption DEF TypeOK, Send, table, work,
         subs, crons, ghosts
<1>21. ASSUME NEW p \in Pusher, ReadManual(p) PROVE TypeOK'
  BY <1>1, <1>21, Names DEF TypeOK, ReadManual, table, work, subs, crons,
     ghosts, Build
<1>22. ASSUME NEW p \in Pusher, NEW m \in Manual, pushManualUpdate(p, m)
       PROVE  TypeOK'
  BY <1>1, <1>22 DEF TypeOK, pushManualUpdate, table, work, subs, crons, ghosts
<1>23. ASSUME NEW a \in Asker, apiUpdate(a) PROVE TypeOK'
  BY <1>1, <1>23 DEF TypeOK, apiUpdate, table, work, subs, crons, ghosts
<1>24. ASSUME NEW a \in Asker, Signal(a) PROVE TypeOK'
  BY <1>1, <1>24 DEF TypeOK, Signal, table, work, subs, crons, ghosts
<1>25. ASSUME NEW r \in Release, Publish(r) PROVE TypeOK'
  BY <1>1, <1>25 DEF TypeOK, Publish, table, work, subs, crons, ghosts
<1>26. CASE Die
  <2>1. <<>> \in Seq(Submitter) /\ Len(<<>>) = 0
    OBVIOUS
  <2>b. manual' \in BOOLEAN /\ clean' \in BOOLEAN
    BY <1>26, Zenon DEF Die, Fault, Replace
  <2> QED BY <1>1, <1>26, <2>1, <2>b, CapAssumption DEF TypeOK, Die, Replace,
         table, work, subs, crons, ghosts, Fault
<1>27. CASE UNCHANGED vars
  BY <1>1, <1>27 DEF TypeOK, vars, table, work, subs, crons, ghosts
<1> QED
  BY <1>2, <1>3, <1>4, <1>5, <1>6, <1>7, <1>8, <1>9, <1>10, <1>11, <1>12,
     <1>13, <1>14, <1>15, <1>16, <1>17, <1>18, <1>19, <1>20, <1>21, <1>22,
     <1>23, <1>24, <1>25, <1>26, <1>27
     DEF Next, Worker, UpdateCron

\* Only the worker moves the task it holds, and a swap writes build-updating first.
LEMMA LoopStep == ASSUME IInv, TypeOK', [Next]_vars PROVE LoopInv'
<1>1. TypeOK /\ LoopInv /\ WaitInv /\ TargetInv /\ CronOneTask /\ PushInv
  BY DEF IInv
<1>2. CASE Background
  BY <1>1, <1>2, Names DEF LoopInv, Updater, Background, table, work, subs,
     crons, ghosts
<1>3. CASE Take
  <2>1. Head(queue) \in Submitter
    BY <1>1, <1>3, TailIn DEF TypeOK, Take, WaitInv
  <2> QED BY <1>1, <1>3, <2>1, Names DEF LoopInv, Take, table, work, subs,
         crons, ghosts
<1>4. CASE Refetch
  BY <1>1, <1>4, Names DEF LoopInv, Updater, Refetch, table, work, subs,
     crons, ghosts
<1>5. CASE UpdateDone
  BY <1>1, <1>5, Names DEF LoopInv, Updater, UpdateDone, table, work, subs,
     crons, ghosts
<1>6. CASE UpdateFails
  BY <1>1, <1>6, Names DEF LoopInv, Updater, UpdateFails, table, work, subs,
     crons, ghosts
<1>7. CASE NoDownload
  BY <1>1, <1>7, Names DEF LoopInv, Updater, NoDownload, table, work, subs,
     crons, ghosts
<1>8. CASE Swap
  <2>1. target[current] \in Build /\ current # None
    BY <1>8, CurrentKnown, Names DEF Swap, Updater
  <2> QED BY <1>1, <1>8, <2>1, Names DEF LoopInv, Swap, Updater, table, work,
         subs, crons, ghosts
<1>9. CASE OtherTask
  BY <1>1, <1>9, Names DEF LoopInv, Updater, OtherTask, table, work, subs,
     crons, ghosts
<1>10. CASE Answer
  BY <1>1, <1>10, Names DEF LoopInv, Updater, Answer, table, work, subs,
     crons, ghosts
<1>11. CASE Swapped
  BY <1>1, <1>11, Names DEF LoopInv, Updater, Swapped, Replace, table, work,
     subs, crons, ghosts
<1>12. CASE CronCheck
  BY <1>1, <1>12, Names DEF LoopInv, Updater, CronCheck, table, work, subs,
     crons, ghosts
<1>13. CASE UpToDate
  BY <1>1, <1>13, Names DEF LoopInv, Updater, UpToDate, table, work, subs,
     crons, ghosts
<1>14. CASE SubmitUpdate
  BY <1>1, <1>14, Names DEF LoopInv, Updater, SubmitUpdate, table, work,
     subs, crons, ghosts
<1>15. CASE Timer
  BY <1>1, <1>15, Names DEF LoopInv, Updater, Timer, table, work, subs,
     crons, ghosts
<1>16. CASE CheckFails
  BY <1>1, <1>16, Names DEF LoopInv, Updater, CheckFails, table, work, subs,
     crons, ghosts
<1>17. CASE QueryFails
  BY <1>1, <1>17, Names DEF LoopInv, Updater, QueryFails, table, work, subs,
     crons, ghosts
<1>18. CASE CronNextcloud
  BY <1>1, <1>18, Names DEF LoopInv, Updater, CronNextcloud, Submit, table,
     work, subs, crons, ghosts
<1>19. ASSUME NEW c \in Caller, Call(c) PROVE LoopInv'
  BY <1>1, <1>19, Names DEF LoopInv, Updater, Call, Submit, table, work,
     subs, crons, ghosts
<1>20. ASSUME NEW s \in Submitter, Send(s) PROVE LoopInv'
  BY <1>1, <1>20, Names DEF LoopInv, Updater, Send, table, work, subs, crons,
     ghosts
<1>21. ASSUME NEW p \in Pusher, ReadManual(p) PROVE LoopInv'
  BY <1>1, <1>21, Names DEF LoopInv, Updater, ReadManual, table, work, subs,
     crons, ghosts
<1>22. ASSUME NEW p \in Pusher, NEW m \in Manual, pushManualUpdate(p, m)
       PROVE  LoopInv'
  BY <1>1, <1>22, Names DEF LoopInv, Updater, pushManualUpdate, table, work,
     subs, crons, ghosts
<1>23. ASSUME NEW a \in Asker, apiUpdate(a) PROVE LoopInv'
  BY <1>1, <1>23, Names DEF LoopInv, Updater, apiUpdate, table, work, subs,
     crons, ghosts
<1>24. ASSUME NEW a \in Asker, Signal(a) PROVE LoopInv'
  BY <1>1, <1>24, Names DEF LoopInv, Updater, Signal, table, work, subs,
     crons, ghosts
<1>25. ASSUME NEW r \in Release, Publish(r) PROVE LoopInv'
  BY <1>1, <1>25, Names DEF LoopInv, Updater, Publish, table, work, subs,
     crons, ghosts
<1>26. CASE Die
  BY <1>1, <1>26, Names DEF LoopInv, Updater, Die, Replace, table, work,
     subs, crons, ghosts
<1>27. CASE UNCHANGED vars
  BY <1>1, <1>27 DEF LoopInv, vars, table, work, subs, crons, ghosts
<1> QED
  BY <1>2, <1>3, <1>4, <1>5, <1>6, <1>7, <1>8, <1>9, <1>10, <1>11, <1>12,
     <1>13, <1>14, <1>15, <1>16, <1>17, <1>18, <1>19, <1>20, <1>21, <1>22,
     <1>23, <1>24, <1>25, <1>26, <1>27
     DEF Next, Worker, UpdateCron

\* Nobody starts or stops waiting.
SameWaits ==
    /\ queue' = queue /\ current' = current
    /\ \A s \in Submitter : sub'[s] = "wait" <=> sub[s] = "wait"

\* Steps that leave sub, current and queue alone.
LEMMA WaitStay == WaitInv /\ SameWaits => WaitInv'
  BY DEF WaitInv, SameWaits

\* A new process: nothing is submitted.
LEMMA WaitReplace == Replace => WaitInv' /\ TargetInv' /\ CronOneTask'
<1> SUFFICES ASSUME Replace PROVE WaitInv' /\ TargetInv' /\ CronOneTask'
  OBVIOUS
<1>1. WaitInv'
  BY Names DEF Replace, WaitInv, In, Distinct
<1>2. TargetInv' /\ CronOneTask'
  BY Names DEF Replace, TargetInv, CronOneTask
<1> QED BY <1>1, <1>2

\* A task enters the queue when its submitter starts to wait, and leaves the worker
\* when it is answered.
LEMMA WaitStep == ASSUME IInv, TypeOK', [Next]_vars PROVE WaitInv'
<1>1. TypeOK /\ LoopInv /\ WaitInv /\ TargetInv /\ CronOneTask /\ PushInv
  BY DEF IInv
<1>2. CASE Background
  <2>1. SameWaits
    BY <1>1, <1>2, Names DEF SameWaits, TypeOK, Background, table, work,
       subs, crons, ghosts
  <2> QED BY <1>1, <2>1, WaitStay
<1>3. CASE Take
  <2>1. current = None /\ queue # <<>> /\ queue \in Seq(Submitter) /\ Distinct(queue)
    BY <1>1, <1>3 DEF TypeOK, LoopInv, Take, WaitInv
  <2>2. /\ Head(queue) \in Submitter
        /\ \A s : In(s, queue) <=> In(s, Tail(queue)) \/ s = Head(queue)
        /\ ~ In(Head(queue), Tail(queue)) /\ Distinct(Tail(queue))
    BY <2>1, TailIn
  <2> QED BY <1>1, <1>3, <2>1, <2>2, Names DEF WaitInv, Take, table, work,
         subs, crons, ghosts
<1>4. CASE Refetch
  <2>1. SameWaits
    BY <1>1, <1>4, Names DEF SameWaits, TypeOK, Refetch, table, work, subs,
       crons, ghosts
  <2> QED BY <1>1, <2>1, WaitStay
<1>5. CASE UpdateDone
  <2>1. SameWaits
    BY <1>1, <1>5, Names DEF SameWaits, TypeOK, UpdateDone, table, work,
       subs, crons, ghosts
  <2> QED BY <1>1, <2>1, WaitStay
<1>6. CASE UpdateFails
  <2>1. SameWaits
    BY <1>1, <1>6, Names DEF SameWaits, TypeOK, UpdateFails, table, work,
       subs, crons, ghosts
  <2> QED BY <1>1, <2>1, WaitStay
<1>7. CASE NoDownload
  <2>1. SameWaits
    BY <1>1, <1>7, Names DEF SameWaits, TypeOK, NoDownload, table, work,
       subs, crons, ghosts
  <2> QED BY <1>1, <2>1, WaitStay
<1>8. CASE Swap
  <2>1. SameWaits
    BY <1>1, <1>8, Names DEF SameWaits, TypeOK, Swap, table, work, subs,
       crons, ghosts
  <2> QED BY <1>1, <2>1, WaitStay
<1>9. CASE OtherTask
  <2>1. SameWaits
    BY <1>1, <1>9, Names DEF SameWaits, TypeOK, OtherTask, table, work, subs,
       crons, ghosts
  <2> QED BY <1>1, <2>1, WaitStay
<1>10. CASE Answer
  <2>1. current \in Submitter /\ queue' = queue /\ current' = None
        /\ sub' = [sub EXCEPT ![current] = "idle"]
    BY <1>1, <1>10, CurrentKnown DEF LoopInv, Answer
  <2>2. ~ In(None, queue)
    BY <1>1, Names DEF TypeOK, In
  <2> QED BY <1>1, <2>1, <2>2, Names DEF TypeOK, WaitInv
<1>11. CASE Swapped
  BY <1>11, WaitReplace DEF Swapped
<1>12. CASE CronCheck
  <2>1. SameWaits
    BY <1>1, <1>12, Names DEF SameWaits, TypeOK, CronCheck, table, work,
       subs, crons, ghosts
  <2> QED BY <1>1, <2>1, WaitStay
<1>13. CASE UpToDate
  <2>1. SameWaits
    BY <1>1, <1>13, Names DEF SameWaits, TypeOK, UpToDate, table, work, subs,
       crons, ghosts
  <2> QED BY <1>1, <2>1, WaitStay
<1>14. CASE SubmitUpdate
  <2>1. SameWaits
    BY <1>1, <1>14, Names DEF SameWaits, CronOneTask, TypeOK, SubmitUpdate,
       table, work, subs, crons, ghosts
  <2> QED BY <1>1, <2>1, WaitStay
<1>15. CASE Timer
  <2>1. SameWaits
    BY <1>1, <1>15, Names DEF SameWaits, TypeOK, Timer, table, work, subs,
       crons, ghosts
  <2> QED BY <1>1, <2>1, WaitStay
<1>16. CASE CheckFails
  <2>1. SameWaits
    BY <1>1, <1>16, Names DEF SameWaits, TypeOK, CheckFails, table, work,
       subs, crons, ghosts
  <2> QED BY <1>1, <2>1, WaitStay
<1>17. CASE QueryFails
  <2>1. SameWaits
    BY <1>1, <1>17, Names DEF SameWaits, TypeOK, QueryFails, table, work,
       subs, crons, ghosts
  <2> QED BY <1>1, <2>1, WaitStay
<1>18. CASE CronNextcloud
  <2>1. SameWaits
    BY <1>1, <1>18, Names DEF SameWaits, TypeOK, CronNextcloud, Submit,
       table, work, subs, crons, ghosts
  <2> QED BY <1>1, <2>1, WaitStay
<1>19. ASSUME NEW c \in Caller, Call(c) PROVE WaitInv'
  <2>1. SameWaits
    BY <1>1, <1>19, Names DEF SameWaits, TypeOK, Call, Submit, table, work,
       subs, crons, ghosts
  <2> QED BY <1>1, <2>1, WaitStay
<1>20. ASSUME NEW s \in Submitter, Send(s) PROVE WaitInv'
  <2>1. s # current /\ ~ In(s, queue) /\ queue \in Seq(Submitter)
    BY <1>1, <1>20 DEF TypeOK, WaitInv, Send
  <2>2. /\ \A t : In(t, Append(queue, s)) <=> In(t, queue) \/ t = s
        /\ Distinct(Append(queue, s))
    BY <1>1, <2>1, AppendIn DEF WaitInv
  <2>3. queue' = Append(queue, s) /\ current' = current
        /\ sub' = [sub EXCEPT ![s] = "wait"]
    BY <1>20 DEF Send, work
  <2> QED BY <1>1, <2>1, <2>2, <2>3 DEF TypeOK, WaitInv
<1>21. ASSUME NEW p \in Pusher, ReadManual(p) PROVE WaitInv'
  <2>1. SameWaits
    BY <1>1, <1>21, Names DEF SameWaits, TypeOK, ReadManual, table, work,
       subs, crons, ghosts
  <2> QED BY <1>1, <2>1, WaitStay
<1>22. ASSUME NEW p \in Pusher, NEW m \in Manual, pushManualUpdate(p, m)
       PROVE  WaitInv'
  <2>1. SameWaits
    BY <1>1, <1>22, Names DEF SameWaits, TypeOK, pushManualUpdate, table,
       work, subs, crons, ghosts
  <2> QED BY <1>1, <2>1, WaitStay
<1>23. ASSUME NEW a \in Asker, apiUpdate(a) PROVE WaitInv'
  <2>1. SameWaits
    BY <1>1, <1>23, Names DEF SameWaits, TypeOK, apiUpdate, table, work,
       subs, crons, ghosts
  <2> QED BY <1>1, <2>1, WaitStay
<1>24. ASSUME NEW a \in Asker, Signal(a) PROVE WaitInv'
  <2>1. SameWaits
    BY <1>1, <1>24, Names DEF SameWaits, TypeOK, Signal, table, work, subs,
       crons, ghosts
  <2> QED BY <1>1, <2>1, WaitStay
<1>25. ASSUME NEW r \in Release, Publish(r) PROVE WaitInv'
  <2>1. SameWaits
    BY <1>1, <1>25, Names DEF SameWaits, TypeOK, Publish, table, work, subs,
       crons, ghosts
  <2> QED BY <1>1, <2>1, WaitStay
<1>26. CASE Die
  BY <1>26, WaitReplace DEF Die
<1>27. CASE UNCHANGED vars
  <2>1. SameWaits
    BY <1>27 DEF SameWaits, vars, table, work, subs, crons, ghosts
  <2> QED BY <1>1, <2>1, WaitStay
<1> QED
  BY <1>2, <1>3, <1>4, <1>5, <1>6, <1>7, <1>8, <1>9, <1>10, <1>11, <1>12,
     <1>13, <1>14, <1>15, <1>16, <1>17, <1>18, <1>19, <1>20, <1>21, <1>22,
     <1>23, <1>24, <1>25, <1>26, <1>27
     DEF Next, Worker, UpdateCron

\* A submitter sets its target before it sends.
LEMMA TargetStep == ASSUME IInv, TypeOK', [Next]_vars PROVE TargetInv'
<1>1. TypeOK /\ LoopInv /\ WaitInv /\ TargetInv /\ CronOneTask /\ PushInv
  BY DEF IInv
<1>2. CASE Background
  BY <1>1, <1>2, Names DEF TargetInv, TypeOK, Background, table, work, subs,
     crons, ghosts
<1>3. CASE Take
  BY <1>1, <1>3, Names DEF TargetInv, TypeOK, Take, table, work, subs, crons,
     ghosts
<1>4. CASE Refetch
  BY <1>1, <1>4, Names DEF TargetInv, TypeOK, Refetch, table, work, subs,
     crons, ghosts
<1>5. CASE UpdateDone
  BY <1>1, <1>5, Names DEF TargetInv, TypeOK, UpdateDone, table, work, subs,
     crons, ghosts
<1>6. CASE UpdateFails
  BY <1>1, <1>6, Names DEF TargetInv, TypeOK, UpdateFails, table, work, subs,
     crons, ghosts
<1>7. CASE NoDownload
  BY <1>1, <1>7, Names DEF TargetInv, TypeOK, NoDownload, table, work, subs,
     crons, ghosts
<1>8. CASE Swap
  BY <1>1, <1>8, Names DEF TargetInv, TypeOK, Swap, table, work, subs, crons,
     ghosts
<1>9. CASE OtherTask
  BY <1>1, <1>9, Names DEF TargetInv, TypeOK, OtherTask, table, work, subs,
     crons, ghosts
<1>10. CASE Answer
  BY <1>1, <1>10, Names DEF TargetInv, TypeOK, Answer, table, work, subs,
     crons, ghosts
<1>11. CASE Swapped
  BY <1>11, WaitReplace DEF Swapped
<1>12. CASE CronCheck
  BY <1>1, <1>12, Names DEF TargetInv, TypeOK, CronCheck, table, work, subs,
     crons, ghosts
<1>13. CASE UpToDate
  BY <1>1, <1>13, Names DEF TargetInv, TypeOK, UpToDate, table, work, subs,
     crons, ghosts
<1>14. CASE SubmitUpdate
  BY <1>1, <1>14, Names DEF TargetInv, TypeOK, Build, SubmitUpdate, table,
     work, subs, crons, ghosts
<1>15. CASE Timer
  BY <1>1, <1>15, Names DEF TargetInv, TypeOK, Timer, table, work, subs,
     crons, ghosts
<1>16. CASE CheckFails
  BY <1>1, <1>16, Names DEF TargetInv, TypeOK, CheckFails, table, work, subs,
     crons, ghosts
<1>17. CASE QueryFails
  BY <1>1, <1>17, Names DEF TargetInv, TypeOK, QueryFails, table, work, subs,
     crons, ghosts
<1>18. CASE CronNextcloud
  BY <1>1, <1>18, Names DEF TargetInv, TypeOK, CronNextcloud, Submit, table,
     work, subs, crons, ghosts
<1>19. ASSUME NEW c \in Caller, Call(c) PROVE TargetInv'
  BY <1>1, <1>19, Names DEF TargetInv, TypeOK, Call, Submit, table, work,
     subs, crons, ghosts
<1>20. ASSUME NEW s \in Submitter, Send(s) PROVE TargetInv'
  BY <1>1, <1>20, Names DEF TargetInv, TypeOK, Send, table, work, subs,
     crons, ghosts
<1>21. ASSUME NEW p \in Pusher, ReadManual(p) PROVE TargetInv'
  BY <1>1, <1>21, Names DEF TargetInv, TypeOK, ReadManual, table, work, subs,
     crons, ghosts
<1>22. ASSUME NEW p \in Pusher, NEW m \in Manual, pushManualUpdate(p, m)
       PROVE  TargetInv'
  BY <1>1, <1>22, Names DEF TargetInv, TypeOK, Build, pushManualUpdate,
     table, work, subs, crons, ghosts
<1>23. ASSUME NEW a \in Asker, apiUpdate(a) PROVE TargetInv'
  BY <1>1, <1>23, Names DEF TargetInv, TypeOK, apiUpdate, table, work, subs,
     crons, ghosts
<1>24. ASSUME NEW a \in Asker, Signal(a) PROVE TargetInv'
  BY <1>1, <1>24, Names DEF TargetInv, TypeOK, Signal, table, work, subs,
     crons, ghosts
<1>25. ASSUME NEW r \in Release, Publish(r) PROVE TargetInv'
  BY <1>1, <1>25, Names DEF TargetInv, TypeOK, Publish, table, work, subs,
     crons, ghosts
<1>26. CASE Die
  BY <1>26, WaitReplace DEF Die
<1>27. CASE UNCHANGED vars
  BY <1>1, <1>27 DEF TargetInv, vars, table, work, subs, crons, ghosts
<1> QED
  BY <1>2, <1>3, <1>4, <1>5, <1>6, <1>7, <1>8, <1>9, <1>10, <1>11, <1>12,
     <1>13, <1>14, <1>15, <1>16, <1>17, <1>18, <1>19, <1>20, <1>21, <1>22,
     <1>23, <1>24, <1>25, <1>26, <1>27
     DEF Next, Worker, UpdateCron

\* The cron submits an update only when its last one has been answered.
LEMMA CronStep == ASSUME IInv, TypeOK', [Next]_vars PROVE CronOneTask'
<1>1. TypeOK /\ LoopInv /\ WaitInv /\ TargetInv /\ CronOneTask /\ PushInv
  BY DEF IInv
<1>2. CASE Background
  BY <1>1, <1>2 DEF CronOneTask, LoopInv, Background, table, work, subs,
     crons, ghosts
<1>3. CASE Take
  BY <1>1, <1>3, Names DEF CronOneTask, TypeOK, Take, table, work, subs,
     crons, ghosts
<1>4. CASE Refetch
  BY <1>1, <1>4, Names DEF CronOneTask, TypeOK, Refetch, table, work, subs,
     crons, ghosts
<1>5. CASE UpdateDone
  BY <1>1, <1>5, Names DEF CronOneTask, TypeOK, UpdateDone, table, work,
     subs, crons, ghosts
<1>6. CASE UpdateFails
  BY <1>1, <1>6, Names DEF CronOneTask, TypeOK, UpdateFails, table, work,
     subs, crons, ghosts
<1>7. CASE NoDownload
  BY <1>1, <1>7, Names DEF CronOneTask, TypeOK, NoDownload, table, work,
     subs, crons, ghosts
<1>8. CASE Swap
  BY <1>1, <1>8, Names DEF CronOneTask, TypeOK, Swap, table, work, subs,
     crons, ghosts
<1>9. CASE OtherTask
  BY <1>1, <1>9, Names DEF CronOneTask, TypeOK, OtherTask, table, work, subs,
     crons, ghosts
<1>10. CASE Answer
  <2>1. CASE current = "update"
    BY <1>1, <1>10, <2>1, Names DEF CronOneTask, TypeOK, Answer, Resume
  <2>2. CASE current # "update"
    BY <1>1, <1>10, <2>2, Names DEF CronOneTask, TypeOK, Answer, Resume, crons
  <2> QED BY <2>1, <2>2
<1>11. CASE Swapped
  BY <1>11, WaitReplace DEF Swapped
<1>12. CASE CronCheck
  BY <1>1, <1>12, Names DEF CronOneTask, TypeOK, CronCheck, table, work,
     subs, crons, ghosts
<1>13. CASE UpToDate
  BY <1>1, <1>13, Names DEF CronOneTask, TypeOK, UpToDate, table, work, subs,
     crons, ghosts
<1>14. CASE SubmitUpdate
  BY <1>1, <1>14, Names DEF CronOneTask, TypeOK, SubmitUpdate, table, work,
     subs, crons, ghosts
<1>15. CASE Timer
  BY <1>1, <1>15, Names DEF CronOneTask, TypeOK, Timer, table, work, subs,
     crons, ghosts
<1>16. CASE CheckFails
  BY <1>1, <1>16, Names DEF CronOneTask, TypeOK, CheckFails, table, work,
     subs, crons, ghosts
<1>17. CASE QueryFails
  BY <1>1, <1>17, Names DEF CronOneTask, TypeOK, QueryFails, table, work,
     subs, crons, ghosts
<1>18. CASE CronNextcloud
  BY <1>1, <1>18, Names DEF CronOneTask, TypeOK, CronNextcloud, Submit,
     table, work, subs, crons, ghosts
<1>19. ASSUME NEW c \in Caller, Call(c) PROVE CronOneTask'
  BY <1>1, <1>19, Names DEF CronOneTask, TypeOK, Call, Submit, table, work,
     subs, crons, ghosts
<1>20. ASSUME NEW s \in Submitter, Send(s) PROVE CronOneTask'
  BY <1>1, <1>20, Names DEF CronOneTask, TypeOK, Send, table, work, subs,
     crons, ghosts
<1>21. ASSUME NEW p \in Pusher, ReadManual(p) PROVE CronOneTask'
  BY <1>1, <1>21, Names DEF CronOneTask, TypeOK, ReadManual, table, work,
     subs, crons, ghosts
<1>22. ASSUME NEW p \in Pusher, NEW m \in Manual, pushManualUpdate(p, m)
       PROVE  CronOneTask'
  BY <1>1, <1>22, Names DEF CronOneTask, TypeOK, pushManualUpdate, table,
     work, subs, crons, ghosts
<1>23. ASSUME NEW a \in Asker, apiUpdate(a) PROVE CronOneTask'
  BY <1>1, <1>23, Names DEF CronOneTask, TypeOK, apiUpdate, table, work,
     subs, crons, ghosts
<1>24. ASSUME NEW a \in Asker, Signal(a) PROVE CronOneTask'
  BY <1>1, <1>24, Names DEF CronOneTask, TypeOK, Signal, table, work, subs,
     crons, ghosts
<1>25. ASSUME NEW r \in Release, Publish(r) PROVE CronOneTask'
  BY <1>1, <1>25, Names DEF CronOneTask, TypeOK, Publish, table, work, subs,
     crons, ghosts
<1>26. CASE Die
  BY <1>26, WaitReplace DEF Die
<1>27. CASE UNCHANGED vars
  BY <1>1, <1>27 DEF CronOneTask, vars, table, work, subs, crons, ghosts
<1> QED
  BY <1>2, <1>3, <1>4, <1>5, <1>6, <1>7, <1>8, <1>9, <1>10, <1>11, <1>12,
     <1>13, <1>14, <1>15, <1>16, <1>17, <1>18, <1>19, <1>20, <1>21, <1>22,
     <1>23, <1>24, <1>25, <1>26, <1>27
     DEF Next, Worker, UpdateCron

\* A push that has just written manual-build is ahead; every update that fetches the
\* release from then on gets it.
LEMMA PushStep == ASSUME IInv, TypeOK', [Next]_vars PROVE PushInv'
<1>1. TypeOK /\ LoopInv /\ WaitInv /\ TargetInv /\ CronOneTask /\ PushInv
  BY DEF IInv
<1>2. CASE Background
  <2>1. updating # None /\ manualBuild # None => FetchBuild(updating) = manualBuild
    BY <1>1, FetchType DEF TypeOK
  <2> QED BY <1>1, <1>2, <2>1, Names DEF PushInv, Landing, Ahead, TypeOK,
         Background, Fault, table, work, subs, crons, ghosts
<1>3. CASE Take
  BY <1>1, <1>3, Names DEF PushInv, Landing, Ahead, TypeOK, Take, table,
     work, subs, crons, ghosts
<1>4. CASE Refetch
  <2>1. manualBuild # None => FetchBuild(target[current]) = manualBuild
    BY <1>1, <1>4, FetchType, CurrentKnown, Names DEF Refetch, Updater
  <2> QED BY <1>1, <1>4, <2>1, Names DEF PushInv, Landing, Ahead, TypeOK,
         Refetch, table, work, subs, crons, ghosts
<1>5. CASE UpdateDone
  BY <1>1, <1>5, Names DEF PushInv, Landing, Ahead, TypeOK, UpdateDone,
     table, work, subs, crons, ghosts
<1>6. CASE UpdateFails
  BY <1>6 DEF PushInv, UpdateFails, Fault
<1>7. CASE NoDownload
  BY <1>1, <1>7, Names DEF PushInv, Landing, Ahead, TypeOK, NoDownload,
     table, work, subs, crons, ghosts
<1>8. CASE Swap
  BY <1>1, <1>8, Names DEF PushInv, Landing, Ahead, TypeOK, Swap, table,
     work, subs, crons, ghosts
<1>9. CASE OtherTask
  BY <1>1, <1>9, Names DEF PushInv, Landing, Ahead, TypeOK, OtherTask, table,
     work, subs, crons, ghosts
<1>10. CASE Answer
  BY <1>1, <1>10, Names DEF PushInv, Landing, Ahead, TypeOK, Answer, table,
     work, subs, crons, ghosts
<1>11. CASE Swapped
  <2>1. updating # None /\ loop' = "starting" /\ updating' = updating
    BY <1>1, <1>11 DEF LoopInv, Swapped, Replace, table
  <2> QED BY <2>1 DEF PushInv, Landing
<1>12. CASE CronCheck
  BY <1>1, <1>12, Names DEF PushInv, Landing, Ahead, TypeOK, CronCheck,
     table, work, subs, crons, ghosts
<1>13. CASE UpToDate
  BY <1>1, <1>13, Names DEF PushInv, Landing, Ahead, TypeOK, UpToDate, table,
     work, subs, crons, ghosts
<1>14. CASE SubmitUpdate
  BY <1>1, <1>14, Names DEF PushInv, Landing, Ahead, TypeOK, SubmitUpdate,
     table, work, subs, crons, ghosts
<1>15. CASE Timer
  BY <1>1, <1>15, Names DEF PushInv, Landing, Ahead, TypeOK, Timer, table,
     work, subs, crons, ghosts
<1>16. CASE CheckFails
  BY <1>1, <1>16, Names DEF PushInv, Landing, Ahead, TypeOK, CheckFails,
     table, work, subs, crons, ghosts
<1>17. CASE QueryFails
  BY <1>1, <1>17, Names DEF PushInv, Landing, Ahead, TypeOK, QueryFails,
     table, work, subs, crons, ghosts
<1>18. CASE CronNextcloud
  BY <1>1, <1>18, Names DEF PushInv, Landing, Ahead, TypeOK, CronNextcloud,
     Submit, table, work, subs, crons, ghosts
<1>19. ASSUME NEW c \in Caller, Call(c) PROVE PushInv'
  BY <1>1, <1>19, Names DEF PushInv, Landing, Ahead, TypeOK, Call, Submit,
     table, work, subs, crons, ghosts
<1>20. ASSUME NEW s \in Submitter, Send(s) PROVE PushInv'
  <2>1. s # current
    BY <1>1, <1>20 DEF WaitInv, Send
  <2> QED BY <1>1, <1>20, <2>1, Names DEF PushInv, Landing, Ahead, TypeOK,
         Send, table, work, subs, crons, ghosts
<1>21. ASSUME NEW p \in Pusher, ReadManual(p) PROVE PushInv'
  BY <1>1, <1>21, Names DEF PushInv, Landing, Ahead, TypeOK, ReadManual,
     table, work, subs, crons, ghosts
<1>22. ASSUME NEW p \in Pusher, NEW m \in Manual, pushManualUpdate(p, m)
       PROVE  PushInv'
  BY <1>1, <1>22, Names DEF PushInv, Landing, Ahead, TypeOK,
     pushManualUpdate, table, work, subs, crons, ghosts
<1>23. ASSUME NEW a \in Asker, apiUpdate(a) PROVE PushInv'
  BY <1>1, <1>23, Names DEF PushInv, Landing, Ahead, TypeOK, apiUpdate,
     table, work, subs, crons, ghosts
<1>24. ASSUME NEW a \in Asker, Signal(a) PROVE PushInv'
  BY <1>1, <1>24, Names DEF PushInv, Landing, Ahead, TypeOK, Signal, table,
     work, subs, crons, ghosts
<1>25. ASSUME NEW r \in Release, Publish(r) PROVE PushInv'
  BY <1>1, <1>25, Names DEF PushInv, Landing, Ahead, TypeOK, Publish, table,
     work, subs, crons, ghosts
<1>26. CASE Die
  BY <1>26 DEF PushInv, Die, Fault
<1>27. CASE UNCHANGED vars
  BY <1>1, <1>27 DEF PushInv, Landing, Ahead, vars, table, work, subs, crons,
     ghosts
<1> QED
  BY <1>2, <1>3, <1>4, <1>5, <1>6, <1>7, <1>8, <1>9, <1>10, <1>11, <1>12,
     <1>13, <1>14, <1>15, <1>16, <1>17, <1>18, <1>19, <1>20, <1>21, <1>22,
     <1>23, <1>24, <1>25, <1>26, <1>27
     DEF Next, Worker, UpdateCron

\* The invariant is inductive.
LEMMA IStep == IInv /\ [Next]_vars => IInv'
<1> SUFFICES ASSUME IInv, [Next]_vars PROVE IInv'
  OBVIOUS
<1>1. TypeOK'
  BY TypeStep
<1>2. LoopInv' /\ WaitInv' /\ TargetInv' /\ CronOneTask' /\ PushInv'
  BY <1>1, LoopStep, WaitStep, TargetStep, CronStep, PushStep
<1> QED BY <1>1, <1>2 DEF IInv

\* The inductive invariant holds in every state (task_loop.go, update.go).
THEOREM InductiveInvariant == Spec => []IInv
<1>1. Init => IInv
  BY IInit
<1>2. IInv /\ [Next]_vars => IInv'
  BY IStep
<1> QED BY <1>1, <1>2, PTL DEF Spec

\* The variables have their types: there is a release whenever one is written
\* to the table, and the channel never holds more than its capacity.
THEOREM TypeCorrect == Spec => []TypeOK
<1>1. IInv => TypeOK
  BY DEF IInv
<1> QED BY <1>1, InductiveInvariant, PTL

\* A submitter waits exactly as long as its task is queued or run, and is there
\* once (task_loop.go:38-52).
THEOREM WaitersMatch == Spec => []WaitersKnown
<1>1. IInv => WaitersKnown
  BY DEF IInv, WaitInv, WaitersKnown, In, Distinct
<1> QED BY <1>1, InductiveInvariant, PTL

\* The update cron has one task outstanding at most (update.go:204-247).
THEOREM OneCronTask == Spec => []CronOneTask
<1>1. IInv => CronOneTask
  BY DEF IInv
<1> QED BY <1>1, InductiveInvariant, PTL

\* The build pushed last is the one that stays, unless a fault comes in between
\* (update.go:37-44, 128-147).
THEOREM LastPushStays == Spec => []LastPushLands
<1>1. IInv => LastPushLands
  <2> SUFFICES ASSUME IInv, manualBuild # None, clean, AtRest
               PROVE  build = manualBuild
    BY DEF LastPushLands
  <2>1. ~ Landing
    BY Names DEF AtRest, Landing, Ahead, Updater
  <2> QED BY <2>1 DEF IInv, PushInv
<1> QED BY <1>1, InductiveInvariant, PTL
=============================================================================
