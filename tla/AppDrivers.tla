----------------------------- MODULE AppDrivers -----------------------------
(***************************************************************************)
(* The drivers of the four apps (homeapp/): App.Change of redis, postgres, *)
(* ncfront and nextcloud, one Docker, database or settings call at a time, *)
(* with the upgrade ladder of nextcloud.  A Change may be cut off between  *)
(* any two calls, by an error or by the death of the process; what is      *)
(* tried next finds what it left.                                          *)
(*                                                                         *)
(* A version is a major version.  The other images are numbered by the     *)
(* release they belong to.  What Docker, postgres and nextcloud do by      *)
(* themselves is external: Boot and Reboot.                                *)
(***************************************************************************)
EXTENDS Integers, FiniteSets

CONSTANTS
    MinVersion, MaxVersion,     \* rungs of the ladders that are ever released
    App,                        \* the apps of the release, of those there are
    None, Torn, Empty,
    MaxTroubles                 \* bound on faults, removals and rollbacks together

Version == MinVersion .. MaxVersion
OptVersion == Version \cup {None}

\* A container: its image, and how far it got.
Container == [image : Version, state : {"created", "started", "up", "refused"}]

\* What a Change is called with.
Job == [app : App, from : OptVersion, to : OptVersion]

ASSUME VersionAssumption ==
    /\ App \subseteq {"redis", "postgres", "ncfront", "nextcloud"}
    /\ {"redis", "postgres", "nextcloud"} \subseteq App
    /\ MinVersion \in Nat /\ MaxVersion \in Nat
    /\ None \notin Int /\ Torn \notin Int /\ Empty \notin Int
    /\ None \notin Container \cup Job
    /\ None # Torn /\ None # Empty
    /\ MaxTroubles \in Nat

\* The apps the meta of nextcloud depends on.
Deps(a) == IF a = "nextcloud" THEN App \ {"nextcloud"} ELSE {}

\* A release carries every rung from the oldest one on.
Ladder(v) == MinVersion .. v

VARIABLES
    rel,        \* version of the release that the registry is at
    rec,        \* the record of each app: the version of appsState.Metas
    cont,       \* the container of each app
    vol,        \* what its volume holds: the version that wrote it, or nothing yet
    db,         \* what postgres has for nextcloud: its database, its role
    secrets,    \* apps with a password in the settings table
    hint,       \* settings: nextcloud.version-hint
    flags,      \* settings: nextcloud-%d-fixed
    routed,     \* nextcloud's domains are registered
    pc,         \* the next call of the Change that runs
    job,        \* its arguments
    rung,       \* nextcloud: the rung of the ladder it is at
    faults,
    removals,   \* history: how many removals were begun
    raced,      \* history: a retry has read the version of a nextcloud that
                \* had not come up
    rollbacks,  \* history: how often an earlier release was set
    lowered,    \* history: a rollback has set back the record of nextcloud
    top         \* history: the highest version nextcloud was ever asked for

settings == <<secrets, hint, flags>>
worker == <<pc, job, rung>>
history == <<faults, removals, raced, rollbacks, lowered, top>>
vars == <<rel, rec, cont, vol, db, settings, routed, worker, history>>

NoJob == [app |-> None, from |-> None, to |-> None]

Init ==
    /\ rel \in Version
    /\ rec = [a \in App |-> None] /\ cont = [a \in App |-> None]
    /\ vol = [a \in App |-> None] /\ db = {}
    /\ secrets = {} /\ hint = None /\ flags = {}
    /\ routed = FALSE
    /\ pc = "idle" /\ job = NoJob /\ rung = None
    /\ faults = 0 /\ removals = 0 /\ raced = FALSE
    /\ rollbacks = 0 /\ lowered = FALSE /\ top = 0

\* Faults are failed calls, deaths of the process and restarts of the machine.
MoreTrouble == faults + removals + rollbacks < MaxTroubles

-----------------------------------------------------------------------------
(* What runs. *)

Running(a) == cont[a] # None /\ cont[a].state = "up"
Launched(a) == cont[a] # None /\ cont[a].state # "created"
Refused(a) == cont[a] # None /\ cont[a].state = "refused"
HasVolume(a) == a \in {"postgres", "nextcloud"}

\* What the box runs of an app, seen from outside: what has been started, over
\* data of its own version.
Deployed(a) ==
    IF cont[a] = None
    THEN IF vol[a] = None THEN None ELSE Torn
    ELSE IF Launched(a) /\ (a = "nextcloud" => vol[a] = cont[a].image)
         THEN cont[a].image ELSE Torn

-----------------------------------------------------------------------------
(* Calls of the apps manager. *)

\* The first call of Change.
Entry(a, from, to) ==
    IF a = "nextcloud"
    THEN IF to = None THEN "undomain" ELSE "config"
    ELSE IF from # None THEN "drop"
    ELSE IF a = "ncfront" THEN "create" ELSE "password"

\* What Change does next when it has dropped the old container.
AfterDrop(a, to) ==
    IF to = None
    THEN IF a = "nextcloud" THEN "dropdb" ELSE IF a = "ncfront" THEN "done" ELSE "rmvol"
    ELSE IF a \in {"redis", "postgres"} THEN "password" ELSE "create"

Begin(a, from, to) ==
    /\ pc = "idle"
    /\ pc' = Entry(a, from, to)
    /\ job' = [app |-> a, from |-> from, to |-> to]
    /\ rung' = None
    /\ removals' = IF to = None THEN removals + 1 ELSE removals
    /\ top' = IF a = "nextcloud" /\ to # None /\ to > top THEN to ELSE top
    /\ UNCHANGED <<rel, rec, cont, vol, db, settings, routed, faults, raced, rollbacks,
                   lowered>>

\* Dependencies first (Apps): install or upgrade to the release.
Update(a) ==
    /\ rec[a] # rel
    /\ \A d \in Deps(a) : rec[d] = rel
    /\ Begin(a, rec[a], rel)

Reinstall(a) == rec[a] # None /\ Begin(a, rec[a], rec[a])

\* Dependents first (Apps).
Uninstall(a) ==
    /\ rec[a] # None /\ MoreTrouble
    /\ \A b \in App : a \in Deps(b) => rec[b] = None
    /\ Begin(a, rec[a], None)

\* The registry is given another release between two calls: a later one, or an
\* earlier one.  No release that is built has a Version above 0, and so none is
\* refused as a downgrade (apps.go:156).
setRelease ==
    /\ pc = "idle"
    /\ \E v \in Version \ {rel} :
        /\ rel' = v
        /\ v < rel => MoreTrouble
        /\ rollbacks' = IF v < rel THEN rollbacks + 1 ELSE rollbacks
    /\ UNCHANGED <<rec, cont, vol, db, settings, routed, worker, faults, removals,
                   raced, lowered, top>>

-----------------------------------------------------------------------------
(* Steps that the drivers share. *)

At(p) == pc = p

Goto(p) == pc' = p /\ UNCHANGED <<job, rung>>

\* Mutant: the job is not given back.
stopOnly == pc' = "idle" /\ rung' = None /\ UNCHANGED job

Stop == pc' = "idle" /\ job' = NoJob /\ rung' = None

\* The rung nextcloud is put on, or the image of the app.
Target == IF rung # None THEN rung ELSE job.to

\* Mutant: only a container that runs is dropped.
dropRunning ==
    /\ At("drop")
    /\ cont' = IF Running(job.app) THEN [cont EXCEPT ![job.app] = None] ELSE cont
    /\ Goto(AfterDrop(job.app, job.to))
    /\ UNCHANGED <<rel, rec, vol, db, settings, routed, history>>

DropIfExists ==
    /\ At("drop")
    /\ cont' = [cont EXCEPT ![job.app] = None]
    /\ Goto(AfterDrop(job.app, job.to))
    /\ UNCHANGED <<rel, rec, vol, db, settings, routed, history>>

ReadPasswordOrSetRandom ==
    /\ At("password")
    /\ secrets' = secrets \cup {job.app}
    /\ Goto("create")
    /\ UNCHANGED <<rel, rec, cont, vol, db, hint, flags, routed, history>>

\* Mutant: a container of that name is taken for the new one.
createOrKeep ==
    /\ At("create")
    /\ cont' = IF cont[job.app] # None THEN cont
               ELSE [cont EXCEPT ![job.app] = [image |-> Target, state |-> "created"]]
    /\ vol' = IF HasVolume(job.app) /\ vol[job.app] = None
              THEN [vol EXCEPT ![job.app] = Empty] ELSE vol
    /\ Goto(IF job.app = "redis" THEN "copy" ELSE "start")
    /\ UNCHANGED <<rel, rec, db, settings, routed, history>>

\* CreateVolumeIfNotExist and CreateCont; a name that is taken is an error, see
\* Blocked.
createCont ==
    /\ At("create")
    /\ cont[job.app] = None
    /\ cont' = [cont EXCEPT ![job.app] = [image |-> Target, state |-> "created"]]
    /\ vol' = IF HasVolume(job.app) /\ vol[job.app] = None
              THEN [vol EXCEPT ![job.app] = Empty] ELSE vol
    /\ Goto(IF job.app = "redis" THEN "copy" ELSE "start")
    /\ UNCHANGED <<rel, rec, db, settings, routed, history>>

\* redis gets its password in a file; when it can not be written, the container
\* is dropped again.
writeConfig ==
    /\ \/ At("copy") /\ Goto("start") /\ UNCHANGED <<cont, faults>>
       \/ At("copy") /\ MoreTrouble
          /\ faults' = faults + 1 /\ Goto("undo") /\ UNCHANGED cont
       \/ At("undo") /\ cont' = [cont EXCEPT !["redis"] = None]
          /\ Goto("failed") /\ UNCHANGED faults
    /\ UNCHANGED <<rel, rec, vol, db, settings, routed, removals, raced, rollbacks,
                   lowered, top>>

\* Nobody waits for redis and ncfront.
Start ==
    /\ At("start")
    /\ cont' = [cont EXCEPT ![job.app].state =
                   IF HasVolume(job.app) THEN "started" ELSE "up"]
    /\ Goto(IF HasVolume(job.app) THEN "wait" ELSE "done")
    /\ UNCHANGED <<rel, rec, vol, db, settings, routed, history>>

RemoveVolume ==
    /\ At("rmvol")
    /\ vol' = [vol EXCEPT ![job.app] = None]
    /\ db' = IF job.app = "postgres" THEN {} ELSE db
    /\ Goto("done")
    /\ UNCHANGED <<rel, rec, cont, settings, routed, history>>

waitDB ==
    /\ At("wait") /\ job.app = "postgres" /\ Running("postgres")
    /\ Goto("done")
    /\ UNCHANGED <<rel, rec, cont, vol, db, settings, routed, history>>

\* Change has returned nil; the manager saves the record, of a reinstallation
\* it saves none.
Save ==
    /\ At("done")
    /\ rec' = [rec EXCEPT ![job.app] = job.to]
    /\ lowered' = (lowered \/ (job.app = "nextcloud" /\ None \notin {job.from, job.to}
                                 /\ job.to < job.from))
    /\ Stop
    /\ UNCHANGED <<rel, cont, vol, db, settings, routed, faults, removals,
                   raced, rollbacks, top>>

-----------------------------------------------------------------------------
(* nextcloud. *)

\* On to a rung of the ladder, or off its top, or off it altogether: then the
\* upgrade is over.
Climb == pc' = IF rung' \in Ladder(job.to) THEN "drop" ELSE "domains"

\* upgrade1 and install: what follows the start.
AfterReady == IF job.from = None THEN "fix" ELSE "redispass"
AfterFix == IF job.from = None THEN "domains" ELSE "hint"

\* redis must have its password; a database password is made up if missing.
loadConfig ==
    /\ At("config") /\ "redis" \in secrets
    /\ secrets' = secrets \cup {"nextcloud"}
    /\ Goto(IF job.from = None THEN "createdb" ELSE "read")
    /\ UNCHANGED <<rel, rec, cont, vol, db, hint, flags, routed, history>>

\* Mutant: straight to the top of the ladder.
readTop ==
    /\ At("read")
    /\ rung' = job.to
    /\ Climb
    /\ UNCHANGED <<rel, rec, cont, vol, db, settings, routed, job, history>>

\* Mutant: the container's own version is not asked for.
readHint ==
    /\ At("read")
    /\ rung' = (IF hint # None THEN hint ELSE job.from)
    /\ Climb
    /\ UNCHANGED <<rel, rec, cont, vol, db, settings, routed, job, history>>

\* The version that the container reports.  The hint, or without one the record,
\* when there is no container, when it is not up, and when the question fails.
readVersion ==
    /\ At("read")
    /\ LET fallback == IF hint # None THEN hint ELSE job.from
           starting == Launched("nextcloud") /\ cont["nextcloud"].state = "started"
       IN  \/ /\ Running("nextcloud") \/ starting
              /\ vol["nextcloud"] \in Version
              /\ rung' = vol["nextcloud"] /\ UNCHANGED faults
           \/ /\ ~ Running("nextcloud")
              /\ rung' = fallback /\ UNCHANGED faults
           \/ /\ Running("nextcloud") /\ MoreTrouble
              /\ rung' = fallback /\ faults' = faults + 1
    /\ raced' = (raced \/ (Launched("nextcloud") /\ ~ Running("nextcloud")))
    /\ Climb
    /\ UNCHANGED <<rel, rec, cont, vol, db, settings, routed, job, removals,
                   rollbacks, lowered, top>>

\* All checks passed, at the version asked for if any.
waitReady ==
    /\ At("wait") /\ job.app = "nextcloud" /\ Running("nextcloud")
    /\ vol["nextcloud"] = Target
    /\ Goto(AfterReady)
    /\ UNCHANGED <<rel, rec, cont, vol, db, settings, routed, history>>

setRedisPassword ==
    /\ At("redispass") /\ Running("nextcloud")
    /\ Goto("fix")
    /\ UNCHANGED <<rel, rec, cont, vol, db, settings, routed, history>>

\* The repairs that a flag marks as done, once per version.
fixVersion ==
    /\ Running("nextcloud")
    /\ LET v == vol["nextcloud"]
       IN  \/ /\ At("fix") /\ v \notin flags
              /\ flags' = flags /\ Goto("flag")
           \/ /\ \/ At("fix") /\ v \in flags
                 \/ At("flag")
              /\ flags' = flags \cup {v}
              /\ Goto(AfterFix)
    /\ UNCHANGED <<rel, rec, cont, vol, db, secrets, hint, routed, history>>

setVersionHint ==
    /\ At("hint")
    /\ hint' = rung
    /\ rung' = rung + 1
    /\ Climb
    /\ UNCHANGED <<rel, rec, cont, vol, db, secrets, flags, routed, job, history>>

registerDomains ==
    /\ pc \in {"domains", "undomain"}
    /\ routed' = (job.to # None)
    /\ Goto(IF job.to = None THEN "drop" ELSE "done")
    /\ UNCHANGED <<rel, rec, cont, vol, db, settings, history>>

\* create database, then create role; neither may exist.
createDB ==
    /\ Running("postgres")
    /\ \/ At("createdb") /\ "database" \notin db
          /\ db' = db \cup {"database"} /\ Goto("createrole")
       \/ At("createrole") /\ "role" \notin db
          /\ db' = db \cup {"role"} /\ Goto("create")
    /\ UNCHANGED <<rel, rec, cont, vol, settings, routed, history>>

\* drop database if exists, then drop role if exists.
dropDB ==
    /\ Running("postgres")
    /\ \/ At("dropdb") /\ db' = db \ {"database"} /\ Goto("droprole")
       \/ At("droprole") /\ db' = db \ {"role"} /\ Goto("rmvol")
    /\ UNCHANGED <<rel, rec, cont, vol, settings, routed, history>>

-----------------------------------------------------------------------------
(* Errors and faults. *)

\* What is left behind makes the call fail, however often it is tried.
Blocked ==
    \/ At("failed")
    \/ At("create") /\ cont[job.app] # None
    \/ At("config") /\ "redis" \notin secrets
    \/ At("createdb") /\ "database" \in db
    \/ At("createrole") /\ "role" \in db
    \/ At("wait") /\ (Refused(job.app) \/ ~ Launched("postgres"))
    \/ pc \in {"redispass", "fix", "flag"} /\ ~ Running("nextcloud")
    \/ pc \in {"createdb", "createrole", "dropdb", "droprole"} /\ ~ Running("postgres")

Error ==
    /\ Blocked
    /\ Stop
    /\ UNCHANGED <<rel, rec, cont, vol, db, settings, routed, history>>

\* A call fails, before or after it had its effect, or the process dies.
CutOff ==
    /\ pc # "idle" /\ MoreTrouble
    /\ faults' = faults + 1
    /\ Stop
    /\ UNCHANGED <<rel, rec, cont, vol, db, settings, routed, removals, raced, rollbacks,
                   lowered, top>>

\* The machine restarts, and Docker restarts what ran.
Reboot ==
    /\ MoreTrouble
    /\ faults' = faults + 1
    /\ cont' = [a \in App |-> IF Running(a) /\ HasVolume(a)
                              THEN [cont[a] EXCEPT !.state = "started"] ELSE cont[a]]
    /\ Stop
    /\ UNCHANGED <<rel, rec, vol, db, settings, routed, removals, raced, rollbacks,
                   lowered, top>>

\* A container comes up.  nextcloud installs itself on an empty volume, upgrades
\* a volume of the version before, and refuses any other.
Boot(a) ==
    /\ cont[a] # None /\ cont[a].state = "started"
    /\ LET k == cont[a].image
           fits == a # "nextcloud" \/ (db = {"database", "role"}
                                       /\ vol[a] \in {Empty, k, k - 1})
       IN  /\ a = "nextcloud" => Running("postgres")
           /\ cont' = [cont EXCEPT ![a].state = IF fits THEN "up" ELSE "refused"]
           /\ vol' = IF a = "nextcloud" /\ fits THEN [vol EXCEPT ![a] = k] ELSE vol
    /\ UNCHANGED <<rel, rec, db, settings, routed, worker, history>>

-----------------------------------------------------------------------------
Step ==
    \/ DropIfExists \/ ReadPasswordOrSetRandom \/ createCont \/ writeConfig
    \/ Start \/ RemoveVolume \/ waitDB \/ Save
    \/ loadConfig \/ readVersion \/ waitReady \/ setRedisPassword \/ fixVersion
    \/ setVersionHint \/ registerDomains \/ createDB \/ dropDB \/ Error

Next ==
    \/ \E a \in App : Update(a) \/ Reinstall(a) \/ Uninstall(a) \/ Boot(a)
    \/ setRelease \/ Step \/ CutOff \/ Reboot

\* Go on with what is begun, boot what is started, and, as the update cron does,
\* try again as long as some app is not at the release.  Not: faults, releases,
\* other calls.
Fairness ==
    /\ WF_vars(Step)
    /\ \A a \in {"postgres", "nextcloud"} : WF_vars(Boot(a))
    /\ SF_vars(\E a \in App : Update(a))

Spec == Init /\ [][Next]_vars /\ Fairness
-----------------------------------------------------------------------------
(* Properties. *)

\* The values each variable can take; a job is there exactly while a Change runs
\* (apps.go:140-178).
TypeOK ==
    /\ rel \in Version /\ rec \in [App -> OptVersion]
    /\ cont \in [App -> {None} \cup Container]
    /\ vol \in [App -> {None, Empty} \cup Version]
    /\ db \subseteq {"database", "role"}
    /\ secrets \subseteq App /\ hint \in OptVersion
    /\ flags \subseteq Version
    /\ routed \in BOOLEAN /\ removals \in 0 .. MaxTroubles /\ rollbacks \in 0 .. MaxTroubles
    /\ raced \in BOOLEAN /\ lowered \in BOOLEAN /\ top \in {0} \cup Version
    /\ job \in {NoJob} \cup Job
    /\ pc = "idle" <=> job = NoJob
    /\ rung \in {None} \cup MinVersion .. MaxVersion + 1
    /\ faults \in 0 .. MaxTroubles

\* nextcloud upgrades over one major version at a time: no container is put over
\* data more than one rung behind its image, whatever was cut off or rolled back,
\* and wherever the next attempt took the version from (nextcloud.go:53-142).  But
\* for one case: the hint outlives a removal (nextcloud.go:173-195), and a later
\* installation at an earlier release can be put on that rung.
NoRungSkipped ==
    Launched("nextcloud") /\ vol["nextcloud"] \in Version =>
        \/ cont["nextcloud"].image <= vol["nextcloud"] + 1
        \/ removals > 0 /\ cont["nextcloud"].image = hint

\* One fault is not enough to make an upgrade put nextcloud below its own data,
\* which it then refuses for good ("This is a dangerous moment", nextcloud.go:148).
\* That takes a second one, a removal, a retry so early that the container of the
\* first try is still migrating and can not tell its version, or a rollback of a
\* nextcloud that never was upgraded: it has no hint, and its record is behind.
OneFaultRecovers ==
    Refused("nextcloud") =>
        faults >= 2 \/ removals > 0 \/ raced \/ (lowered /\ hint = None)

C == INSTANCE AppChange WITH
        Stepwise <- {"nextcloud"},
        box <- [a \in App |-> Deployed(a)],
        call <- IF pc = "idle" THEN None ELSE job,
        record <- rec,
        top <- [a \in {"nextcloud"} |-> top]

\* The drivers keep what the apps manager relies on: a call changes its own app
\* only, and nil means that the app is at the version asked for; of nextcloud only
\* if it was never asked for a later one, since off the top of its ladder it is
\* left as it is (nextcloud.go:103, 133).
ChangeContract == C!Spec


\* Once nextcloud is installed, all apps get to the release in the end (releases
\* come to rest: their rollbacks are bounded).  They do not when nextcloud has
\* been put below its data, nor when a Change of postgres that leaves its record
\* at the release was cut off: no update starts it then.
UpdatesLand ==
    rec["nextcloud"] # None ~>
        \/ \A a \in App : rec[a] = rel
        \/ rec["nextcloud"] = None \/ Refused("nextcloud")
        \/ pc = "idle" /\ rec["postgres"] = rel /\ ~ Launched("postgres")
=============================================================================
