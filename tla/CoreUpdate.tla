----------------------------- MODULE CoreUpdate -----------------------------
(***************************************************************************)
(* How a box is installed and updated (jarvis/main.go, install.go,         *)
(* update.go, update_core.go; homeboot/core.go).  The core that runs in a  *)
(* container replaces itself: it renames its own container, starts a new   *)
(* one under the old name, and waits to be killed by it.  The new core     *)
(* then finishes the update of apps and doorway.  All that one core hands  *)
(* to the next is in the settings table.                                   *)
(*                                                                         *)
(* Processes die and come back, the box reboots, Docker calls and settings *)
(* writes fail (at times after having had their effect), releases move on. *)
(* Apps and doorway are one variable here, "system"; module Apps tells     *)
(* what goes on inside.  The box belongs to a channel and is not External. *)
(***************************************************************************)
EXTENDS Integers, FiniteSets

CONSTANTS
    Cont,       \* container ids
    Release,    \* releases, by name
    Manual,     \* the releases that are pushed by hand
    Image,      \* images of the core
    Jarvis,     \* the core image of each release
    None, Mixed,
    Empty,      \* the release without a name that clears "build-updating"
    MaxFaults   \* bound on deaths, reboots and failed calls

ASSUME ReleaseAssumption ==
    /\ Manual \subseteq Release
    /\ Jarvis \in [Release -> Image]
    /\ None \notin Release \cup Image
    /\ Mixed \notin Release
    /\ Empty \notin Release /\ Empty # None
    /\ MaxFaults \in Nat

VARIABLES
    build, updating, manual,  \* the settings of these names
    system,     \* the release apps and doorway are at; Mixed in between
    doorway,    \* whether the doorway container exists
    latest,     \* the release the channel offers
    name,       \* the name of each container: "none", "core" or "old"
    img,        \* its image
    pc,         \* what its main worker does; "new" and "down" without a process
    rel,        \* the release the worker deals with
    job,        \* who waits for the worker: "bg", "cron", "push" or "none"
    cron,       \* where the update cron of the process is
    asked,      \* the release the cron has submitted a task for
    push,       \* the release a push has submitted a task for
    broken,     \* a core swap was cut short before the new core ran
    faults      \* faults so far

table == <<build, updating, manual>>
box == <<system, doorway>>
conts == <<name, img>>
worker == <<pc, rel, job>>
asking == <<cron, asked, push>>
vars == <<table, box, latest, conts, worker, asking, broken, faults>>

Idle(c) == pc[c] = "loop"

\* The process serves requests from here on.
Serving(c) == pc[c] \notin {"new", "down", "boot", "os", "osup"}

Fault == faults < MaxFaults /\ faults' = faults + 1

Put(f, c, v) == f' = [f EXCEPT ![c] = v]

\* A box as homeboot leaves it: one core, just started.
Init ==
    /\ build = None /\ updating = None /\ manual = None
    /\ system = Mixed /\ doorway = FALSE
    /\ latest \in Release \ Manual
    /\ \E c \in Cont :
        /\ name = [d \in Cont |-> IF d = c THEN "core" ELSE "none"]
        /\ img = [d \in Cont |-> IF d = c THEN Jarvis[latest] ELSE None]
        /\ pc = [d \in Cont |-> IF d = c THEN "boot" ELSE "down"]
    /\ rel = [d \in Cont |-> None] /\ job = [d \in Cont |-> "none"]
    /\ cron = [d \in Cont |-> "off"]
    /\ asked = [d \in Cont |-> None] /\ push = [d \in Cont |-> None]
    /\ broken = FALSE /\ faults = 0

-----------------------------------------------------------------------------
(* Processes and containers. *)

\* What is left of the box when c stops in the middle of its work.
Torn(c) ==
    IF pc[c] \in {"iapps", "apps"}
    THEN /\ system' \in {system, Mixed, rel[c]}
         /\ doorway' \in {doorway, TRUE}
    ELSE UNCHANGED box

\* A swap that stops between the rename and the start leaves the box without a
\* container that runs the core: the one named "old" kills itself on its start.
Swapping(c) == pc[c] \in {"start", "start2"}

\* The process of c is gone, and its goroutines and channels with it.
Gone(c, to) ==
    /\ Put(pc, c, to)
    /\ Put(rel, c, None) /\ Put(job, c, "none")
    /\ Put(cron, c, "off") /\ Put(asked, c, None) /\ Put(push, c, None)

\* The process dies or exits; Docker starts it again (AutoRestart).
Die(c) ==
    /\ pc[c] \notin {"new", "down"}
    /\ Fault
    /\ Torn(c) /\ Gone(c, "boot")
    /\ broken' = (broken \/ Swapping(c))
    /\ UNCHANGED <<table, latest, conts>>

\* The box reboots.  A stopped container may come back as well; one that was
\* never started does not.
Reboot ==
    /\ Fault
    /\ \E up \in SUBSET {c \in Cont : name[c] # "none" /\ pc[c] = "down"} :
        pc' = [c \in Cont |->
                  IF c \in up \/ pc[c] \notin {"new", "down"} THEN "boot" ELSE pc[c]]
    /\ \/ \E c \in Cont : Torn(c)
       \/ UNCHANGED box
    /\ rel' = [c \in Cont |-> None] /\ job' = [c \in Cont |-> "none"]
    /\ cron' = [c \in Cont |-> "off"]
    /\ asked' = [c \in Cont |-> None] /\ push' = [c \in Cont |-> None]
    /\ broken' = (broken \/ \E c \in Cont : Swapping(c))
    /\ UNCHANGED <<table, latest, conts>>
-----------------------------------------------------------------------------
(* The start of a process: run() in main.go. *)

NoOld == \A d \in Cont : name[d] # "old"

\* Mutant: the old core is not looked for.
KillNothing(c) ==
    /\ pc[c] \in {"boot", "kill"}
    /\ Put(pc, c, IF pc[c] = "boot" THEN "os" ELSE "rename")
    /\ UNCHANGED <<table, box, latest, conts, rel, job, asking, broken, faults>>

\* killOldCoreIfExist finds no container of that name.
NothingToKill(c) ==
    /\ pc[c] \in {"boot", "kill"} /\ NoOld
    /\ Put(pc, c, IF pc[c] = "boot" THEN "os" ELSE "rename")
    /\ UNCHANGED <<table, box, latest, conts, rel, job, asking, broken, faults>>

\* d is stopped and removed, wherever its work was.
KillOld(c, d) ==
    /\ pc[c] \in {"boot", "kill"} /\ name[d] = "old" /\ d # c
    /\ Torn(d)
    /\ Put(name, d, "none") /\ Put(img, d, None)
    /\ pc' = [pc EXCEPT ![d] = "down",
                        ![c] = IF pc[c] = "boot" THEN "os" ELSE "rename"]
    /\ Put(rel, d, None) /\ Put(job, d, "none")
    /\ Put(cron, d, "off") /\ Put(asked, d, None) /\ Put(push, d, None)
    /\ UNCHANGED <<table, latest, broken, faults>>

\* Mutant: the container to kill is looked up by the name of the core.
KillByCoreName(c) ==
    /\ pc[c] \in {"boot", "kill"} /\ name[c] = "core"
    /\ Gone(c, "down")
    /\ UNCHANGED <<table, box, latest, conts, broken, faults>>

\* The container named "old" is the process' own: it stops itself, and is never
\* removed, since that would have been its next call.
KillSelf(c) ==
    /\ pc[c] \in {"boot", "kill"} /\ name[c] = "old"
    /\ Gone(c, "down")
    /\ UNCHANGED <<table, box, latest, conts, broken, faults>>

\* An error of Drop ends the process, even if ForceRemove then succeeds.
BootKillFails(c, d) ==
    /\ pc[c] = "boot" /\ name[d] = "old" /\ d # c
    /\ Fault
    /\ \/ UNCHANGED <<name, img, pc, box>>
       \/ Torn(d) /\ Put(pc, d, "down") /\ UNCHANGED conts
       \/ Torn(d) /\ Put(pc, d, "down") /\ Put(name, d, "none") /\ Put(img, d, None)
    /\ IF pc'[d] = pc[d] THEN UNCHANGED <<rel, job, asking>>
       ELSE /\ Put(rel, d, None) /\ Put(job, d, "none")
            /\ Put(cron, d, "off") /\ Put(asked, d, None) /\ Put(push, d, None)
    /\ UNCHANGED <<table, latest, broken>>

\* maybeUpdateOS, on a box whose OS it supports: both settings are asked for
\* their presence only.
OSCheck(c) ==
    /\ pc[c] = "os"
    /\ Put(pc, c, IF build = None \/ updating # None THEN "osup" ELSE "bg")
    /\ Put(job, c, "bg")
    /\ UNCHANGED <<table, box, latest, conts, rel, asking, broken, faults>>

\* An upgrade that fails or reboots ends the process (Die, Reboot).
OSUpdated(c) ==
    /\ pc[c] = "osup"
    /\ Put(pc, c, "bg")
    /\ UNCHANGED <<table, box, latest, conts, rel, job, asking, broken, faults>>

\* Mutant: the cron ends at the first error.
ToLoopCronEnds(c, result) ==
    /\ Put(pc, c, "loop") /\ Put(rel, c, None) /\ Put(job, c, "none")
    /\ cron' = IF job[c] = "bg" THEN [cron EXCEPT ![c] = "check"]
               ELSE IF job[c] = "cron"
               THEN [cron EXCEPT ![c] = IF result = "ok" THEN "check" ELSE "off"]
               ELSE cron
    /\ UNCHANGED <<asked, push>>

\* The worker goes to the task loop, with the cron beside it from then on, or
\* is back there and the one who waited for it gets the result.
ToLoop(c, result) ==
    /\ Put(pc, c, "loop") /\ Put(rel, c, None) /\ Put(job, c, "none")
    /\ cron' = IF job[c] = "bg" THEN [cron EXCEPT ![c] = "check"]
               ELSE IF job[c] = "cron"
               THEN [cron EXCEPT ![c] = IF result = "ok" THEN "check" ELSE "query"]
               ELSE cron
    /\ UNCHANGED <<asked, push>>

\* Mutant: the cleared "build-updating" is taken for an update to finish.
BackgroundNoName(c) ==
    /\ pc[c] = "bg"
    /\ Put(pc, c, IF build = None THEN "install"
                  ELSE IF updating # None THEN "fetch" ELSE "done")
    /\ Put(rel, c, IF build # None /\ updating # None THEN updating ELSE None)
    /\ UNCHANGED <<table, box, latest, conts, job, asking, broken, faults>>

\* bg: install, or finish what an earlier core has begun (maybeFinishUpdate).
Background(c) ==
    /\ pc[c] = "bg"
    /\ Put(pc, c, IF build = None THEN "install"
                  ELSE IF updating \in Release THEN "fetch" ELSE "done")
    /\ Put(rel, c, IF build # None /\ updating \in Release THEN updating ELSE None)
    /\ UNCHANGED <<table, box, latest, conts, job, asking, broken, faults>>

\* Nothing is left to do before the task loop.
BackgroundDone(c) ==
    /\ pc[c] = "done"
    /\ ToLoop(c, "ok")
    /\ UNCHANGED <<table, box, latest, conts, broken, faults>>

-----------------------------------------------------------------------------
(* downloadAndInstall *)

DownloadLatest(c) ==
    /\ pc[c] = "install"
    /\ Put(rel, c, IF manual # None THEN manual ELSE latest)
    /\ Put(pc, c, "iapps")
    /\ UNCHANGED <<table, box, latest, conts, job, asking, broken, faults>>

InstallApps(c) ==
    /\ pc[c] = "iapps" /\ ~ doorway
    /\ system' = rel[c] /\ doorway' = TRUE
    /\ Put(pc, c, "icommit")
    /\ UNCHANGED <<table, latest, conts, rel, job, asking, broken, faults>>

\* doorway.install, unlike update, cannot replace a container that exists.
InstallBlocked(c) ==
    /\ pc[c] = "iapps" /\ doorway
    /\ system' = Mixed
    /\ ToLoop(c, "err")
    /\ UNCHANGED <<table, doorway, latest, conts, broken, faults>>

InstallCommit(c) ==
    /\ pc[c] = "icommit"
    /\ build' = rel[c]
    /\ ToLoop(c, "ok")
    /\ UNCHANGED <<updating, manual, box, latest, conts, broken, faults>>

-----------------------------------------------------------------------------
(* taskUpdate.run *)

TakeCron(c) ==
    /\ Idle(c) /\ asked[c] # None
    /\ Put(pc, c, "task") /\ Put(rel, c, asked[c]) /\ Put(job, c, "cron")
    /\ Put(asked, c, None)
    /\ UNCHANGED <<table, box, latest, conts, cron, push, broken, faults>>

TakePush(c) ==
    /\ Idle(c) /\ push[c] # None
    /\ Put(pc, c, "task") /\ Put(rel, c, push[c]) /\ Put(job, c, "push")
    /\ Put(push, c, None)
    /\ UNCHANGED <<table, box, latest, conts, cron, asked, broken, faults>>

\* Mutant: the intent is not written down before the core is updated.
DownloadOnly(c) ==
    /\ pc[c] = "task"
    /\ Put(pc, c, "upcore")
    /\ UNCHANGED <<table, box, latest, conts, rel, job, asking, broken, faults>>

Download(c) ==
    /\ pc[c] = "task"
    /\ updating' = rel[c]
    /\ Put(pc, c, "upcore")
    /\ UNCHANGED <<build, manual, box, latest, conts, rel, job, asking, broken,
                   faults>>

\* updateCore looks at the container named "core", which it takes for its own.
CheckCore(c, d) ==
    /\ pc[c] = "upcore" /\ name[d] = "core"
    /\ Put(pc, c, IF img[d] = Jarvis[rel[c]] THEN "fetch" ELSE "kill")
    /\ UNCHANGED <<table, box, latest, conts, rel, job, asking, broken, faults>>

CoreMissing(c) ==
    /\ pc[c] = "upcore" /\ \A d \in Cont : name[d] # "core"
    /\ ToLoop(c, "err")
    /\ UNCHANGED <<table, box, latest, conts, broken, faults>>

RenameCore(c, d) ==
    /\ pc[c] = "rename" /\ name[d] = "core"
    /\ Put(name, d, "old")
    /\ Put(pc, c, "start")
    /\ UNCHANGED <<table, box, latest, img, rel, job, asking, broken, faults>>

\* StartCore, its call to create the container ...
Create(c, d) ==
    /\ name[d] = "none" /\ \A e \in Cont : name[e] # "core"
    /\ Put(name, d, "core") /\ Put(img, d, Jarvis[rel[c]])

CreateCore(c, d) ==
    /\ pc[c] = "start"
    /\ Create(c, d)
    /\ pc' = [pc EXCEPT ![c] = "start2", ![d] = "new"]
    /\ UNCHANGED <<table, box, latest, rel, job, asking, broken, faults>>

\* ... and its call to start it.
StartNew(c, d) ==
    /\ pc[c] = "start2" /\ name[d] = "core" /\ pc[d] = "new"
    /\ pc' = [pc EXCEPT ![c] = "wait", ![d] = "boot"]
    /\ UNCHANGED <<table, box, latest, conts, rel, job, asking, broken, faults>>

\* The worker is back in the task loop with an error, while the call it made
\* had its effect: d is at state.
ErrorAfter(c, d, state) ==
    /\ pc' = [pc EXCEPT ![c] = "loop", ![d] = state]
    /\ Put(rel, c, None) /\ Put(job, c, "none")
    /\ cron' = IF job[c] = "cron" THEN [cron EXCEPT ![c] = "query"] ELSE cron
    /\ UNCHANGED <<asked, push>>

\* Either call fails, or its answer is lost.  The process goes on, in a
\* container that is now named "old".
CreateFails(c) ==
    /\ pc[c] = "start"
    /\ Fault
    /\ \/ ToLoop(c, "err") /\ UNCHANGED conts
       \/ \E d \in Cont : Create(c, d) /\ ErrorAfter(c, d, "new")
    /\ broken' = TRUE
    /\ UNCHANGED <<table, box, latest>>

\* If the start had its effect there are two cores for a while: the old one is
\* back in its loop, and takes tasks, until the new one has killed it.
StartFails(c) ==
    /\ pc[c] = "start2"
    /\ Fault
    /\ \/ ToLoop(c, "err") /\ broken' = TRUE
       \/ \E d \in Cont :
            /\ name[d] = "core" /\ pc[d] = "new"
            /\ ErrorAfter(c, d, "boot")
            /\ UNCHANGED broken
    /\ UNCHANGED <<table, box, latest, conts>>

-----------------------------------------------------------------------------
(* updateAppsAndDoorway *)

\* The release is fetched again; in manual mode that is the pushed one.
Refetch(c) ==
    /\ pc[c] = "fetch"
    /\ Put(rel, c, IF manual # None THEN manual ELSE rel[c])
    /\ Put(pc, c, "apps")
    /\ UNCHANGED <<table, box, latest, conts, job, asking, broken, faults>>

\* Mutant: "build-updating" is cleared before "build" is set.
UpdateAppsAndClear(c) ==
    /\ pc[c] = "apps"
    /\ system' = rel[c] /\ doorway' = TRUE
    /\ updating' = Empty
    /\ Put(pc, c, "setbuild")
    /\ UNCHANGED <<build, manual, latest, conts, rel, job, asking, broken, faults>>

UpdateApps(c) ==
    /\ pc[c] = "apps"
    /\ system' = rel[c] /\ doorway' = TRUE
    /\ Put(pc, c, "setbuild")
    /\ UNCHANGED <<table, latest, conts, rel, job, asking, broken, faults>>

SetBuild(c) ==
    /\ pc[c] = "setbuild"
    /\ build' = rel[c]
    /\ Put(pc, c, "clear")
    /\ UNCHANGED <<updating, manual, box, latest, conts, rel, job, asking, broken,
                   faults>>

ClearUpdating(c) ==
    /\ pc[c] = "clear"
    /\ updating' = Empty
    /\ ToLoop(c, "ok")
    /\ UNCHANGED <<build, manual, box, latest, conts, broken, faults>>

\* Any other call of the worker fails: its job ends with an error, and leaves
\* the settings as they are.  At start-up that is logged, and no more.
StepFails(c) ==
    /\ pc[c] \in {"bg", "install", "iapps", "icommit", "task", "upcore", "kill",
                  "rename", "fetch", "apps", "setbuild", "clear"}
    /\ Fault
    /\ Torn(c)
    /\ ToLoop(c, "err")
    /\ UNCHANGED <<table, latest, conts, broken>>

-----------------------------------------------------------------------------
(* The update cron, pushed updates, and the channel. *)

CronCheck(c) ==
    /\ cron[c] = "check"
    /\ Put(cron, c, IF manual # None THEN "off" ELSE "query")
    /\ UNCHANGED <<table, box, latest, conts, worker, asked, push, broken, faults>>

\* The check itself fails: that is logged, and the update goes ahead.
CronCheckFails(c) ==
    /\ cron[c] = "check"
    /\ Fault
    /\ Put(cron, c, "query")
    /\ UNCHANGED <<table, box, latest, conts, worker, asked, push, broken>>

\* updateDriveOnChannel.  Without a build on record it fails and is retried.
CronQuery(c) ==
    /\ cron[c] = "query" /\ build # None
    /\ IF latest = build
       THEN Put(cron, c, "check") /\ UNCHANGED asked
       ELSE Put(cron, c, "wait") /\ Put(asked, c, latest)
    /\ UNCHANGED <<table, box, latest, conts, worker, push, broken, faults>>

\* Bound: a process has one pushed update waiting at a time.
pushManualUpdate(c, m) ==
    /\ Serving(c) /\ push[c] = None
    /\ manual' = m
    /\ Put(push, c, m)
    /\ UNCHANGED <<build, updating, box, latest, conts, worker, cron, asked, broken,
                   faults>>

Publish(r) ==
    /\ latest' = r
    /\ UNCHANGED <<table, box, conts, worker, asking, broken, faults>>

-----------------------------------------------------------------------------
\* A step of the worker of c in which every call succeeds.
Work(c) ==
    \/ NothingToKill(c) \/ KillSelf(c) \/ OSCheck(c) \/ OSUpdated(c)
    \/ Background(c) \/ BackgroundDone(c)
    \/ DownloadLatest(c) \/ InstallApps(c) \/ InstallBlocked(c) \/ InstallCommit(c)
    \/ TakeCron(c) \/ TakePush(c) \/ Download(c) \/ CoreMissing(c)
    \/ Refetch(c) \/ UpdateApps(c) \/ SetBuild(c) \/ ClearUpdating(c)
    \/ \E d \in Cont :
        \/ KillOld(c, d) \/ CheckCore(c, d) \/ RenameCore(c, d)
        \/ CreateCore(c, d) \/ StartNew(c, d)

Cron(c) == CronCheck(c) \/ CronQuery(c)

Fail(c) ==
    \/ Die(c) \/ CreateFails(c) \/ StartFails(c) \/ StepFails(c) \/ CronCheckFails(c)
    \/ \E d \in Cont : BootKillFails(c, d)

Next ==
    \/ \E c \in Cont : Work(c) \/ Cron(c) \/ Fail(c)
    \/ \E c \in Cont : \E m \in Manual : pushManualUpdate(c, m)
    \/ \E r \in Release \ Manual : Publish(r)
    \/ Reboot

Spec == /\ Init /\ [][Next]_vars
        /\ \A c \in Cont : WF_vars(Work(c)) /\ WF_vars(Cron(c))

-----------------------------------------------------------------------------
(* Properties. *)

\* Past the killing of the old core.
Working == {"os", "osup", "bg", "done", "install", "iapps", "icommit", "loop",
            "task", "upcore", "kill", "rename", "start", "start2", "wait",
            "fetch", "apps", "setbuild", "clear"}

TypeOK ==
    /\ build \in Release \cup {None}
    /\ updating \in Release \cup {None, Empty}
    /\ manual \in Manual \cup {None}
    /\ system \in Release \cup {Mixed} /\ doorway \in BOOLEAN
    /\ latest \in Release \ Manual
    /\ name \in [Cont -> {"none", "core", "old"}]
    /\ img \in [Cont -> Image \cup {None}]
    /\ pc \in [Cont -> Working \cup {"new", "down", "boot"}]
    /\ rel \in [Cont -> Release \cup {None}]
    /\ job \in [Cont -> {"none", "bg", "cron", "push"}]
    /\ cron \in [Cont -> {"off", "check", "query", "wait"}]
    /\ asked \in [Cont -> Release \cup {None}]
    /\ push \in [Cont -> Manual \cup {None}]
    /\ broken \in BOOLEAN /\ faults \in Nat

\* No two cores ever work on the box: a core does nothing before the container
\* named "old" is gone, whoever died or failed meanwhile (main.go:103-107,
\* update_core.go:47-81).
OneWorker == \A c, d \in Cont : pc[c] \in Working /\ pc[d] \in Working => c = d

\* Unless a swap was cut short, some container runs the core or is being
\* restarted: an update that goes well, a failed call before the rename, a
\* death or a reboot at any other time never take the last core away.
CoreAlive == ~ broken => \E c \in Cont : pc[c] \notin {"new", "down"}

Journal == INSTANCE UpdateJournal WITH
    committed <- build,
    intent <- IF updating \in Release THEN updating ELSE None

\* The settings table is a redo log for apps and doorway across cores.
JournalSpec == Journal!JSpec

\* Where "build" and the box disagree, "build-updating" says so: what a core
\* leaves half done its successor finds (update.go:68-75, 105, 249-268).
JournalCovers == Journal!JournalCovers

\* A release that the channel keeps offering gets installed in the end, if no
\* build is pushed by hand and no swap is cut short.
UpdateLands ==
    \A r \in Release \ Manual :
        latest = r /\ build \notin {None, r}
            ~> build = r \/ latest # r \/ manual # None \/ broken

-----------------------------------------------------------------------------
(* What comments say, and the code does not do. *)

\* "We only upgrade os when it is not installed (first time run) or when it is
\* updating" (update_os.go:222-223).
OSUpgradesOnlyInUpdate ==
    \A c \in Cont : pc[c] = "osup" => build = None \/ updating \in Release

=============================================================================
