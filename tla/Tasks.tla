------------------------------- MODULE Tasks -------------------------------
(***************************************************************************)
(* Who gives work to the core, and who waits for whom (jarvis/task_loop.go, *)
(* update.go, admin_tasks.go, nextcloud_cron.go, main.go).                 *)
(*                                                                         *)
(* HTTP requests, the goroutines of pushed updates and two crons submit    *)
(* tasks through a bounded channel to a single worker, and each waits on a *)
(* channel of its own for the answer.  Requests to look for an update now  *)
(* wait on an unbuffered channel until the update cron takes the signal.   *)
(* A task that swaps the core never returns: a new process takes over.     *)
(*                                                                         *)
(* The box is installed and belongs to a channel.  What an update does     *)
(* with containers is in CoreUpdate; here it brings "build" to a release.  *)
(***************************************************************************)
EXTENDS Integers, Sequences, FiniteSets

CONSTANTS
    Caller,     \* HTTP requests that submit a task and wait for it
    Pusher,     \* pushed updates, each with its goroutine
    Asker,      \* HTTP requests of apiUpdate
    Release,    \* what the channel offers, one after the other
    Manual,     \* builds that are pushed by hand
    None,
    Cap,        \* capacity of the channel of tasks (10 in the code)
    MaxFaults   \* bound on failed updates, failed queries and deaths

ASSUME CapAssumption == Cap \in Nat \ {0}

ASSUME BuildAssumption ==
    /\ Release \cap Manual = {}
    /\ None \notin Release \cup Manual
    /\ MaxFaults \in Nat

Cron == {"update", "nextcloud"}

ASSUME SubmitterAssumption ==
    /\ Caller \cap Cron = {} /\ Pusher \cap Cron = {} /\ Caller \cap Pusher = {}
    /\ None \notin Caller \cup Pusher \cup Cron

Submitter == Caller \cup Pusher \cup Cron

Build == Release \cup Manual

VARIABLES
    build, updating, manualBuild,  \* the settings
    latest,     \* what the channel offers
    loop,       \* where the worker is
    queue,      \* the buffer of taskLoop.tasks
    current,    \* the submitter of the task that runs
    got,        \* the release that task has fetched
    result,     \* how it ended
    sub,        \* where each submitter is
    target,     \* the release it wants the box to go to
    cron,       \* where the update cron is
    manual,     \* its local of that name
    ask,        \* where each request of apiUpdate is
    clean,      \* no fault since the latest push
    faults

table == <<build, updating, manualBuild>>
work == <<loop, queue, current, got, result>>
subs == <<sub, target>>
crons == <<cron, manual>>
ghosts == <<clean, faults>>
vars == <<table, latest, work, subs, crons, ask, ghosts>>

Fault == faults < MaxFaults /\ faults' = faults + 1 /\ clean' = FALSE

\* Mutant: manual mode is assumed without a look at the setting.
FetchManual(r) == manualBuild

\* What a downloader gets when it asks for release r.
FetchBuild(r) == IF manualBuild # None THEN manualBuild ELSE r

\* The variables of a process that starts.
NewProcess ==
    /\ loop = "starting" /\ queue = <<>>
    /\ current = None /\ got = None /\ result = "none"
    /\ sub = [s \in Submitter |-> "idle"]
    /\ target = [s \in Submitter |-> None]
    /\ cron = "off" /\ manual = FALSE
    /\ ask = [a \in Asker |-> "idle"]

Init ==
    /\ build \in Release /\ latest \in Release
    /\ updating = None /\ manualBuild = None
    /\ NewProcess
    /\ clean = TRUE /\ faults = 0

-----------------------------------------------------------------------------
(* bg: the worker, from the start of the process. *)

\* The crons and the loop start after an update was finished, or failed to.
Background ==
    /\ loop = "starting"
    /\ \/ /\ updating = None
          /\ UNCHANGED <<table, ghosts>>
       \/ /\ updating # None
          /\ build' = FetchBuild(updating) /\ updating' = None
          /\ UNCHANGED <<manualBuild, ghosts>>
       \/ /\ updating # None
          /\ Fault
          /\ UNCHANGED table
    /\ loop' = "idle" /\ cron' = "check"
    /\ UNCHANGED <<latest, queue, current, got, result, subs, manual, ask>>

Take ==
    /\ loop = "idle" /\ queue # <<>>
    /\ current' = Head(queue) /\ queue' = Tail(queue)
    /\ loop' = "run"
    /\ UNCHANGED <<table, latest, got, result, subs, crons, ask, ghosts>>

\* Mutant: the release that the submitter had at hand is good enough.
FetchTarget ==
    /\ loop = "run" /\ current \in Pusher \cup {"update"}
    /\ got' = target[current]
    /\ updating' = target[current]
    /\ loop' = "apply"
    /\ UNCHANGED <<build, manualBuild, latest, queue, current, result, subs, crons,
                   ask, ghosts>>

\* taskUpdate.run: the intent is set, the core is that of the release already,
\* and updateAppsAndDoorway has fetched the release once more.
Refetch ==
    /\ loop = "run" /\ current \in Pusher \cup {"update"}
    /\ got' = FetchBuild(target[current])
    /\ updating' = target[current]
    /\ loop' = "apply"
    /\ UNCHANGED <<build, manualBuild, latest, queue, current, result, subs, crons,
                   ask, ghosts>>

UpdateDone ==
    /\ loop = "apply"
    /\ build' = got /\ updating' = None
    /\ got' = None /\ loop' = "answer" /\ result' = "ok"
    /\ UNCHANGED <<manualBuild, latest, queue, current, subs, crons, ask, ghosts>>

\* Mutant: an update that fails is logged, and not answered.
UpdateFailsSilently ==
    /\ loop \in {"run", "apply"} /\ current \in Pusher \cup {"update"}
    /\ Fault
    /\ got' = None /\ loop' = "idle" /\ current' = None
    /\ UNCHANGED <<table, latest, queue, result, subs, crons, ask>>

\* The update fails, before the intent is set or after.
UpdateFails ==
    /\ loop \in {"run", "apply"} /\ current \in Pusher \cup {"update"}
    /\ Fault
    /\ got' = None /\ loop' = "answer" /\ result' = "err"
    /\ UNCHANGED <<table, latest, queue, current, subs, crons, ask>>

\* In manual mode nothing can be downloaded for a release of the channel.
NoDownload ==
    /\ loop = "run" /\ current = "update" /\ manualBuild # None
    /\ loop' = "answer" /\ result' = "err"
    /\ UNCHANGED <<table, latest, queue, current, got, subs, crons, ask, ghosts>>

\* The release comes with another core: restartAs does not return.
Swap ==
    /\ loop = "run" /\ current \in Pusher \cup {"update"}
    /\ updating' = target[current]
    /\ loop' = "swap"
    /\ UNCHANGED <<build, manualBuild, latest, queue, current, got, result, subs,
                   crons, ask, ghosts>>

\* Any other task: a reinstall, the doorway, the cron of nextcloud.
OtherTask ==
    /\ loop = "run" /\ current \in Caller \cup {"nextcloud"}
    /\ loop' = "answer" /\ result' \in {"ok", "err"}
    /\ UNCHANGED <<table, latest, queue, current, got, subs, crons, ask, ghosts>>

\* What the submitter does with the answer; only the update cron minds.
Resume(s) ==
    IF s # "update" THEN UNCHANGED crons
    ELSE IF result = "ok" THEN cron' = "select" /\ manual' = FALSE
    ELSE cron' = "backoff" /\ UNCHANGED manual

\* The send on entry.done, which waits for its receiver.
Answer ==
    /\ loop = "answer" /\ sub[current] = "wait"
    /\ sub' = [sub EXCEPT ![current] = "idle"]
    /\ target' = [target EXCEPT ![current] = None]
    /\ Resume(current)
    /\ current' = None /\ loop' = "idle" /\ result' = "none"
    /\ UNCHANGED <<table, latest, queue, got, ask, ghosts>>

-----------------------------------------------------------------------------
(* The submitters: taskLoop.run. *)

Submit(s) ==
    /\ sub[s] = "idle"
    /\ sub' = [sub EXCEPT ![s] = "send"]
    /\ UNCHANGED <<table, latest, work, target, crons, ask, ghosts>>

Call(c) == Submit(c)

\* A ticker drops the ticks that come while its cron waits for an answer.
CronNextcloud == loop # "starting" /\ Submit("nextcloud")

Send(s) ==
    /\ sub[s] = "send" /\ Len(queue) < Cap
    /\ queue' = Append(queue, s)
    /\ sub' = [sub EXCEPT ![s] = "wait"]
    /\ UNCHANGED <<table, latest, loop, current, got, result, target, crons, ask,
                   ghosts>>

\* pushManualUpdate answers the request at once; its goroutine goes on.
\* Bound: as many goroutines as Pusher has members.
pushManualUpdate(p, m) ==
    /\ sub[p] = "idle"
    /\ manualBuild' = m
    /\ sub' = [sub EXCEPT ![p] = "read"]
    /\ clean' = TRUE
    /\ UNCHANGED <<build, updating, latest, work, target, crons, ask, faults>>

\* updateDriveToManualBuild: by now another push may have come.
ReadManual(p) ==
    /\ sub[p] = "read"
    /\ target' = [target EXCEPT ![p] = manualBuild]
    /\ sub' = [sub EXCEPT ![p] = "send"]
    /\ UNCHANGED <<table, latest, work, crons, ask, ghosts>>

-----------------------------------------------------------------------------
(* cronUpdateOnChannel *)

CronCheck ==
    /\ cron = "check"
    /\ cron' = IF manualBuild # None THEN "quit" ELSE "query"
    /\ UNCHANGED <<table, latest, work, subs, manual, ask, ghosts>>

\* The check itself fails: that is logged, and the update goes ahead.
CheckFails ==
    /\ cron = "check"
    /\ faults < MaxFaults /\ faults' = faults + 1
    /\ cron' = "query"
    /\ UNCHANGED <<table, latest, work, subs, manual, ask, clean>>

UpToDate ==
    /\ cron = "query" /\ build = latest
    /\ cron' = "select" /\ manual' = FALSE
    /\ UNCHANGED <<table, latest, work, subs, ask, ghosts>>

SubmitUpdate ==
    /\ cron = "query" /\ build # latest
    /\ target' = [target EXCEPT !["update"] = latest]
    /\ sub' = [sub EXCEPT !["update"] = "send"]
    /\ cron' = "submitted"
    /\ UNCHANGED <<table, latest, work, manual, ask, ghosts>>

QueryFails ==
    /\ cron = "query"
    /\ faults < MaxFaults /\ faults' = faults + 1
    /\ cron' = "backoff"
    /\ UNCHANGED <<table, latest, work, subs, manual, ask, clean>>

\* The timer of sleepOrSignal, or the ticker.
Timer ==
    /\ cron \in {"backoff", "select"}
    /\ cron' = IF cron = "backoff" THEN "query" ELSE "check"
    /\ UNCHANGED <<table, latest, work, subs, manual, ask, ghosts>>

apiUpdate(a) ==
    /\ ask[a] = "idle"
    /\ ask' = [ask EXCEPT ![a] = "send"]
    /\ UNCHANGED <<table, latest, work, subs, crons, ghosts>>

\* Mutant: the signal is taken at the select alone.
SignalAtSelect(a) ==
    /\ ask[a] = "send" /\ cron = "select"
    /\ ask' = [ask EXCEPT ![a] = "idle"]
    /\ cron' = "check" /\ manual' = TRUE
    /\ UNCHANGED <<table, latest, work, subs, ghosts>>

\* The cron takes a signal.  In sleepOrSignal that ends the sleep, no more.
Signal(a) ==
    /\ ask[a] = "send" /\ cron \in {"backoff", "select"}
    /\ ask' = [ask EXCEPT ![a] = "idle"]
    /\ IF cron = "backoff" THEN cron' = "query" /\ UNCHANGED manual
       ELSE cron' = "check" /\ manual' = TRUE
    /\ UNCHANGED <<table, latest, work, subs, ghosts>>

-----------------------------------------------------------------------------
\* A new process takes over: the goroutines and channels of the old one are
\* gone, and the requests it served have failed.
Replace ==
    /\ loop' = "starting" /\ queue' = <<>>
    /\ current' = None /\ got' = None /\ result' = "none"
    /\ sub' = [s \in Submitter |-> "idle"]
    /\ target' = [s \in Submitter |-> None]
    /\ cron' = "off" /\ manual' = FALSE
    /\ ask' = [a \in Asker |-> "idle"]
    /\ UNCHANGED <<table, latest>>

\* The new core has come up and killed this one.
Swapped == loop = "swap" /\ Replace /\ UNCHANGED ghosts

Die == Fault /\ Replace

Publish(r) ==
    /\ latest' = r
    /\ UNCHANGED <<table, work, subs, crons, ask, ghosts>>

Worker ==
    \/ Background \/ Take \/ Refetch \/ UpdateDone \/ UpdateFails \/ NoDownload
    \/ Swap \/ OtherTask \/ Answer \/ Swapped

UpdateCron == CronCheck \/ UpToDate \/ SubmitUpdate \/ Timer

Next ==
    \/ Worker \/ UpdateCron \/ CheckFails \/ QueryFails
    \/ CronNextcloud
    \/ \E c \in Caller : Call(c)
    \/ \E s \in Submitter : Send(s)
    \/ \E p \in Pusher : ReadManual(p) \/ \E m \in Manual : pushManualUpdate(p, m)
    \/ \E a \in Asker : apiUpdate(a) \/ Signal(a)
    \/ \E r \in Release : Publish(r)
    \/ Die

\* Goroutines run; one that can send or be received from again and again is
\* served at some time (senders queue up in a channel, select is random).
Spec == /\ Init /\ [][Next]_vars
        /\ WF_vars(Worker) /\ WF_vars(UpdateCron)
        /\ \A s \in Submitter : SF_vars(Send(s))
        /\ \A p \in Pusher : WF_vars(ReadManual(p))
        /\ \A a \in Asker : SF_vars(Signal(a))

-----------------------------------------------------------------------------
(* Properties. *)

TypeOK ==
    /\ build \in Build /\ updating \in Build \cup {None}
    /\ manualBuild \in Manual \cup {None} /\ latest \in Release
    /\ loop \in {"starting", "idle", "run", "apply", "answer", "swap"}
    /\ queue \in Seq(Submitter) /\ Len(queue) <= Cap
    /\ current \in Submitter \cup {None}
    /\ got \in Build \cup {None} /\ result \in {"none", "ok", "err"}
    /\ sub \in [Submitter -> {"idle", "read", "send", "wait"}]
    /\ target \in [Submitter -> Build \cup {None}]
    /\ cron \in {"off", "check", "query", "submitted", "backoff", "select", "quit"}
    /\ manual \in BOOLEAN
    /\ ask \in [Asker -> {"idle", "send"}]
    /\ clean \in BOOLEAN /\ faults \in Nat
    /\ loop = "apply" => got # None

\* A submitter waits for an answer exactly when its task is in the channel or
\* being run, and it is there once: the worker is never stuck on an answer that
\* nobody takes, and nobody waits for a task that is gone (task_loop.go:38-52).
WaitersKnown ==
    /\ \A s \in Submitter :
           sub[s] = "wait" <=> s = current \/ \E i \in 1 .. Len(queue) : queue[i] = s
    /\ \A i \in 1 .. Len(queue) :
           /\ queue[i] # current
           /\ \A j \in 1 .. Len(queue) : queue[i] = queue[j] => i = j

\* However signals, tickers and errors come in, the update cron has one task
\* outstanding at most, and makes no other query before it is answered
\* (update.go:204-247).
CronOneTask == cron = "submitted" <=> sub["update"] # "idle"

\* No update is under way, nor about to be resumed or submitted.
AtRest ==
    /\ loop \in {"idle", "run", "answer"}
    /\ current \notin Pusher \cup {"update"}
    /\ \A s \in Pusher \cup {"update"} : sub[s] = "idle"

\* The build pushed last is the one the box ends up with, in whatever order the
\* goroutines of several pushes get their tasks in, with an update of the
\* channel in between or a core swap on the way, unless an update failed or the
\* process died since that push (update.go:37-44, 128-147).
LastPushLands ==
    manualBuild # None /\ clean /\ AtRest => build = manualBuild

\* Every submitter gets its answer, or its process is replaced.
Answered == \A s \in Submitter : sub[s] = "send" ~> sub[s] = "idle"

\* A request to look for updates is let go in the end, unless the cron has quit
\* for good: in manual mode such a request hangs (admin_tasks.go:30-33).
SignalServed == \A a \in Asker : ask[a] = "send" ~> ask[a] = "idle" \/ cron = "quit"
=============================================================================
