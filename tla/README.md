# HomeDrive core: a TLA+ verification project

This directory models the Go program in `src/`: the HomeDrive endpoint software.
`jarvisd` ("the core") is a daemon in a Docker container that installs, updates and
supervises everything else on the box: the apps (redis, postgres, nextcloud, ncfront),
the doorway (the TLS reverse proxy) and, last of all, itself.

## 1. Inventory

| Part (source) | State it keeps | Operations | Hard behaviour | What makes it correct |
|---|---|---|---|---|
| Apps manager (`jarvis/apps*.go`, `app_closure.go`, `app_registry.go`, `builtin_apps.go`) | `appsState{Metas, Anchored}` in memory and in the settings table, stub map, manifest of the current release | `install`, `uninstall`, `update`, `reinstall`, all through `apply` | one save per changed app, errors and process deaths between `Change` and save, a manifest that moves on between two attempts, dependency order | an app is changed only when its dependencies are there; the record follows the system within one change; success means the installed set is the closure of the anchors |
| Update orchestration (`jarvis/update.go`, `update_core.go`, `main.go`, `install.go`) | settings `build`, `build-updating`, `manual-build`; core and old-core containers | `taskUpdate`, `updateCore`/`restartAs`, `maybeFinishUpdate`, `updateAppsAndDoorway`, `downloadAndInstall`, `bg` | two cores alive at once, a death between any two steps, resuming after the swap, the update finishing on another core than the one that started it | one core at a time works on the box; `build` names what runs; a started update is eventually finished or superseded |
| Task loop and update cron (`jarvis/task_loop.go`, `update.go`, `admin_tasks.go`, `nextcloud_cron.go`) | buffered channel of tasks, unbuffered update signal, `manual` flag | `run`, `bg`, `cronUpdateOnChannel`, `apiUpdate`, `pushManualUpdate`, `cronNextcloud` | callers block on full or unbuffered channels, cron quits in manual mode, signal taken while backing off | tasks run one at a time in submission order, every submitter is answered |
| App drivers (`homeapp/**`) | containers, volumes, databases, passwords, `nextcloud.version-hint`, fixed flags, domains | `Change`, `Cron`, `Fix` of each app, nextcloud upgrade ladder | a `Change` interrupted between two Docker calls, retried `Change`, waiting for readiness | a major version is never skipped; a retried change converges |
| Doorway management (`jarvis/doorway*.go`, `custom_subs.go`, `app_domains.go`) | doorway container and volume, `custom.subs`, `app_domains` table | install, update, recreate, fix; host map | host map built from three stores and frozen into the container | every registered domain is routed; the main domain goes to the core |
| Users and sign-in (`jarvis/users.go`, `totp.go`, `sessions.go`, `serve_index.go`, `recent_failures.go`, `security_logs.go`) | users table, session tokens, log table | login, TOTP check, sudo, change password, enable/disable TOTP | rate limit read before and written after the password check, token outliving a settings change | window of failures is bounded, tokens expire |
| Doorway runtime (`doorway/*.go`) | listeners, connection channels, close flags | accept, reconnect, close | goroutines blocked in accept or send while a close runs | a connection is delivered at most once, close terminates everything |
| homeboot (`homeboot/*.go`) | Docker images, network, core container | boot, download, uninstall | partial downloads, hash/tag mapping | all images of a release are there before it is used |
| OS support (`jarvis/update_os.go`, `grub.go`, `burmilla/*`) | OS configuration, running OS | upgrade, console switch, ssh keys | reboot in the middle | upgrades only during install or update |
| Release tools (`homerelease/*`), client commands, HTTP pages, plumbing | objects, files | build, upload, push | resumed upload | (pure I/O) |

How they interact: HTTP handlers and two cron goroutines submit tasks to the task loop
and block on the answer; the update task calls the apps manager, which calls the app
drivers, which call Docker; everything durable is in one settings table that two
processes (old and new core) share during a core swap; the doorway is a separate
process configured by files copied into its container.

## 2. The modules

| Module | What it is |
|---|---|
| `AppDeps` | closure and floors of a set of apps, by definition (no algorithm) |
| `Apps`, `MCApps`, `AppsProofs` | the apps manager with its faults; instance; theorems |
| `AppClosure`, `MCAppClosure`, `AppClosureProofs` | the search `appClosure.add`, call by call; shown to agree with `AppDeps` |
| `UpdateJournal` | abstract specification: the settings table as a redo log |
| `CoreUpdate`, `MCCoreUpdate`, `CoreUpdateProofs` | install, update, core swap, resume; implements `UpdateJournal` |
| `Tasks`, `MCTasks`, `TasksProofs` | task loop, its submitters, the update cron and its signal |
| `AppChange` | abstract specification: what the apps manager may rely on when it calls `App.Change` |
| `AppDrivers`, `AppDriversProofs` | `Change` of the four apps, one Docker, database or settings call at a time; implements `AppChange` |
| `Doorway` | the doorway's container, key and host map, and the custom-subs command |
| `Listener` | the goroutines and channels inside of the doorway |
| `DoorwayProofs` | theorems about both |
| `SignIn`, `MCSignIn`, `SignInProofs` | password, rate limit, second factor, sudo, under concurrent requests |
| `FirstBoot`, `FirstBootProofs` | rc.local, homeboot, the first core, the OS upgrade, lost power |

`Apps` and `AppClosure` share `AppDeps`: `Apps` plans with the definitions, `AppClosure`
shows that the code's search computes them, so that `Apps` need not carry a stack.
`CoreUpdate` takes the whole of "apps and doorway" as one variable that may be torn by a
fault; `Apps` is what goes on inside of it. `Tasks` takes a whole update as a few steps of
one worker; `CoreUpdate` is what goes on inside of it. `AppDrivers` is what goes on inside a
`StartInstall` or `StartUninstall` of `Apps`, and `AppChange` the contract between the two: a
call works on its own app, nil means done, a failed call may leave anything behind. `Doorway`
refines what `CoreUpdate` says of the doorway with one flag, and takes from `Tasks` that tasks
run one at a time. `FirstBoot` ends where `CoreUpdate` starts, and is what `CoreUpdate` leaves
out at its `OSCheck`. `Listener` and `SignIn` run beside all of this and share no state with it.

### Apps

*State.* `metas` and `anchored` are `appsState` in memory, `saved` its copy in the settings
table, `stubs` the keys of `apps.m`, `manifest` the registry. `deployed` is the box: what
Docker really runs. `pc`, `want`, `todo`, `undo`, `floor`, `cur` are the locals of the
`apply` that runs. `last` and `faults` are history.

*Actions.* `install`, `uninstall` and `update` begin an `apply` (or refuse it when a closure
does not resolve). One pass of the first loop is `SkipCurrent`, `GiveUp`, or `StartInstall`
followed by `ChangeDone` and `SaveChange`; one of the second is `SkipLost`, or
`StartUninstall` followed by the same two. `Finish` records the anchors. Each call that can
fail has its failing twin (`ChangeFails`, `SaveFails`, `FinishSaveFails`,
`ReinstallFails`), and `Restart` is a death at any point followed by `newApps` and
`setMaker`. A change cut short leaves the app as it was, as it should be, or `Partial`.
Between calls `setRelease` moves the registry.

*Abstracted.* `Image` stands for the pair of semantic version and image, which the code only
compares together. A name list is a set; duplicates, which only `uninstall` minds, are left
out. The order inside a floor is any order.

### AppClosure

The recursive `add` is laid out on a stack: `Enter` is a call that goes on, `Leave` its
return, `Ignored`, `Known`, `Circle` and `Missing` are the calls that return at once.
`left[a]` and `floor[a]` are the locals of the call for `a`, `trace` is the field of that
name. Dependencies are taken in any order, so the result is shown for all orders.

### CoreUpdate

*State.* The settings `build`, `updating` (`build-updating`), `manual` (`manual-build`); the
box (`system`: the release apps and doorway are at, or `Mixed`; `doorway`: whether that
container exists); per container its `name`, image and process (`pc`, with the release and
the one who waits: `rel`, `job`); the cron and the pushes of each process.

*Actions.* `NothingToKill`/`KillOld`/`KillSelf`/`BootKillFails` are `killOldCoreIfExist` at
the start of a process and again before a swap; `OSCheck` is `maybeUpdateOS`; `Background` is
`bg`, with installation (`DownloadLatest`, `InstallApps`, `InstallCommit`) or resumption;
`Download` to `StartNew` are `taskUpdate.run`, `updateCore`, `restartAs`, `StartCore`;
`Refetch` to `ClearUpdating` are `updateAppsAndDoorway`. `StepFails` lets any other call of
the worker fail. `CreateFails` and `StartFails` may also lose the answer of a call that had its
effect (`ErrorAfter`); when that call was the start, two cores are alive: the old one is back in its
task loop, and takes tasks, until the new one, which boots, has killed it. `Die` and `Reboot` strike at any time; after a reboot a stopped container may
come back too. `broken` records that a swap was cut short after the rename.

*Abstracted.* External mode and a box without a channel; images and their clean-up; what the
OS upgrade does.

### Tasks

*State.* `queue` is the buffer of `taskLoop.tasks`; `loop`, `current`, `got`, `result` are the
worker; `sub` and `target` the submitters (requests, the goroutines of pushes, two crons);
`cron` and `manual` the update cron; `ask` the requests blocked on the update signal; and the
three settings.

*Actions.* `Send` is the blocking send of `taskLoop.run`, `Answer` the rendezvous on
`entry.done`. `Refetch`/`UpdateDone`/`UpdateFails`/`NoDownload`/`Swap` are the outcomes of an
update task; `Swap` never answers, its process is replaced by `Swapped`. `pushManualUpdate`
and `ReadManual` are the request and its goroutine. `Timer` and `Signal` end a wait of the
cron, in the back-off or at the select. `clean` is history: no fault since the last push.

### AppDrivers

*State.* Of each app the container (`cont`: its image, and whether it was created, started, is up
or has refused its data) and its volume (`vol`: the version that wrote it); the database and role
of nextcloud (`db`); the settings `secrets`, `hint`, `flags`; the domains (`routed`). `rec` is what
the apps manager has recorded, `rel` the release. `pc`, `job`, `rung` are the `Change` that runs.

*Actions.* `setRelease` gives the registry another release, a later or an earlier one:
`app_registry.go:56-58` takes any, and as `homerelease/build.go` sets no `Version`, `apps.go:156`
refuses no rollback. `Update`, `Reinstall`, `Uninstall` are the calls of the manager in the orders that
`Apps` shows it keeps. Each Docker, database or settings call of a driver is one action:
`DropIfExists`, `ReadPasswordOrSetRandom`, `createCont`, `writeConfig`, `Start`, `RemoveVolume`,
`waitDB`; for nextcloud also `loadConfig`, `readVersion`, `waitReady`, `setRedisPassword`,
`fixVersion`, `setVersionHint`, `registerDomains`, `createDB`, `dropDB`. `readVersion` falls back to the
hint, or to the record, when there is no container, when it is not up, and also when the question fails
although it is up (`status.go:188-192`). `Climb` is the loop over
the ladder. `Error` is a call that fails because of what was left behind, `CutOff` any other failed
call or a death between two calls, `Reboot` a restart of the machine. `Boot` is external: what the
postgres and nextcloud images do when they come up (install on an empty volume, migrate over one
major version, refuse anything else).

*Abstracted.* A version is its major; the ladder of a release is every rung from the oldest on, as
`homerelease` builds it. The apps other than nextcloud have the release's version. Each fix of
`fix.go` is one step. redis, postgres and ncfront are taken to start over any data of their own. History
is `raced` (a retry has read the version of a container that was not up), `removals`, `rollbacks`,
`lowered` (a rollback has set back the record of nextcloud) and `top` (the highest version nextcloud was
ever asked for). The instance leaves out ncfront, whose `Change` is a part of what redis does.

### Doorway

*State.* The settings (`subs`, `domains`, `installed`), the container with the host map that was
copied into it, the key in its volume and the one the server has, the task that runs (`pc`, `kind`,
`by`, `files`, `newKey`), and each run of the custom-subs command (`cli`).

*Actions.* `install`, `updateDoorway` and `taskRecreateDoorway` begin a task; `update`,
`generateFabricsKey`, `stopAndDrop`, `etcFiles`, `start`, `initDone` are its calls; `dropTorn` is
the deferred drop of a container that was not started; `finish` and `giveUp` answer whoever waits.
`Effect` is what a Docker call of `start` does: in `start` it is answered, in `Fail` the call fails
before it or its answer is lost after it, so that a container that was created and reported as failed
stays. `dropTorn` itself may fail, which nobody looks at (`doorway.go:260`, `268`). `Die` is the death of
jarvis. `loadCustomSubs` and `setCustomSubs` are the two halves of the command, a process of its
own, which then waits for the task. `acked`, `overlapped` and
`stranded` (a container was left without the key that was made for it) are history.

*Abstracted.* The ports, users and mounts of the container; certificates; one set of domains for
all apps; `pingDomains`.

### Listener

*State.* One variable for each goroutine: `rl` (`reconnectListener.bg`), `tcpbg` and `fabbg` (the two
`tunnelListener.bg`), `srv` (the accept loop of the https server, then the deferred calls of
`serve`), `closer` (`doClose`); the closed channels; and where each connection is (`at`).

*Actions.* `bgAccept`, `bg`, `tcpAccept`, `fabAccept`, `tcpSend`, `fabSend`, `doClose`, `acceptTag`,
`HelloInfo`, `Accept` and `serveReturn` are the steps of these goroutines from one blocking point to the
next; `HelloInfo` is where the TLS proxy reads the client's greeting, inside the accept loop and without a
deadline (`tls_proxy.go:109-110`), so it is the client's step. `forwardTCPConn` is the goroutine of each
connection that is forwarded: dial, join, end when the proxy closes or one end leaves (`Leave`).
Channels are unbuffered, so a send and its receive are one step; a `select` is a disjunction. Clients
connect, the session with the fabrics is lost, an accept fails, serve is cancelled at any time. The
specification is `ServeSpec`, named after `serve`, as `Doorway` beside it has the name `Spec`.
A second `Close` of the TLS proxy panics in the code (its channel is closed twice, `tls_proxy.go:97`);
that is the place "panicked".

*Abstracted.* What the https server does with a connection once it has it. A dial of a forwarded
connection ends by itself, with a connection or an error.

### SignIn

*State.* The user's row (password, secret of the second factor, recent failures), the browser's
cookies with the time they still are good for, the requests that are served (`req`: the next read or
write of each), the clock. `tries`, `lost` and `unguarded` are history.

*Actions.* `Submit` to `recordLoginSuccess` are `users.checkPassword` read by read and write by
write; `totpInfo`, `SubmitCode`, `checkTOTP` the second step of a sign-in; `SetSudo` the confirmation
of a password; `setup`, `Enable`/`activateTOTP`, `Disable`/`disableTOTP` the page of the second factor;
`changePassword`; `SetRootPassword` and `AdminDisableTOTP` what the owner may do on the console.
`Tick` is the clock, `Stop` a death of the process: requests are lost, the row stays.

*Abstracted.* A code is the secret it was made from (replay within its half minute is not modelled),
hashes compare as their passwords do, a signed token is a set of what was signed. One user, as in the
code; one browser. The old password that `apiChangePassword` asks for (`users.go:84`) is neither limited
nor counted, so guesses made there are no `tries`. SSH keys and the security log.

### FirstBoot

*State.* rc.local and the file it leaves; the container homeboot, its next call, the key it has made;
the image, the core, the key in its volume, the key the server knows; jarvis up to the point where it
serves; the settings that decide whether the OS is looked at (`installed`, `updating`); whether our list of
versions has the wanted OS (`offered`); the upgrade
source, the console, and what is on the disk to boot: kernels, the default entry, the entry on the
UEFI boot partition.

*Actions.* `pull`, `dockerRun`, `homebootReturns`, `markInitDone` are rc.local, line by line;
`registerEndpoint` to `startCore` are homeboot; `maybeUpdateOS` to `switchOSConsole` are the core's
look at the OS. `installFails`, `osFails` are failed calls, `PowerLoss` strikes between any two steps. The answer of the copy and of the
start may be lost; then the core is there, or runs, while `homeboot` has failed. `listOS` without the
wanted OS in the list (`update_os.go:86-89`) goes on to serve or fails, as the external `errcode` takes an
annotation of no error; `missed` records the former, `EditList` is us, who edit the list.
`Rescue` is the owner, who removes what is in the way and has rc.local run again. `Installed` and
`UpdateCore` stand for what `CoreUpdate` does in between.

*Abstracted.* An OS and its kernel are a number. `ros os upgrade` writes the kernel first and the
default entry second, each at once; the rename of `grub.cfg` is atomic. Downloads are one step that
may fail: an image that is there is not loaded again, so a retry starts from what there is.

## 3. The runs

| Run | Instance | States | What it shows |
|---|---|---|---|
| `apps` | 3 apps, 4 releases, 2 faults | 107 000 | `DepsInPlace`, `UninstallOrder`: nothing is changed over a missing or outdated dependency, nothing is torn down under a dependent. `FaultsBoundDrift`: one fault, one app out of step. `Settled`: what `nil` means. `StubsCover`. `Terminates` under `WF(Step)` |
| `app_closure` | every graph over 3 apps, every set of roots and of ignored apps | 350 000 | `FindsClosure`, `RefusesRightly` (an error only where there is no answer), `Ends` |
| `core_update` | 2 containers, 2 releases of the channel with different cores, 1 pushed build, 2 faults | 50 700 | `OneWorker`, `CoreAlive`, `JournalCovers`; `JournalSpec` (refinement); `UpdateLands` |
| `tasks` | 1 request, 2 pushes of 2 builds, 1 request for an update, 2 crons, a channel of 1, 1 fault | 466 000 (up to symmetry) | `LastPushLands`: the build pushed last wins |
| `tasks_live` | 1 push, no other request | 39 000 | `Answered`, `SignalServed` |
| `drivers` | redis, postgres, nextcloud; 3 major versions; 2 faults, removals or rollbacks | 951 000 | `NoRungSkipped`; `OneFaultRecovers`: what it takes to strand nextcloud below its data; `ChangeContract` (refinement of `AppChange`); `UpdatesLand` |
| `doorway` | 2 custom domains, 1 domain of an app that is one of them, 2 commands at once and 3 in all, 3 keys, 3 faults | 1 744 000 | `KeyAgrees`: doorway and server have the same key; `AckedRouted`: what custom-subs has reported is routed |
| `listener` | 2 connections, 3 losses, with and without the TLS proxy | 137 000 | `NoneDropped`, `TCPTaken`, `ServeEnds` |
| `sign_in` | 2 requests at once, 2 passwords, 2 secrets, a limit of 2 failures in a window of 2, 4 ticks | 3 130 000 (up to symmetry) | `SignInGuarded`: a password alone does not sign in while the second factor is on; `RateHolds`: what the limit is worth under concurrency |
| `first_boot` | 3 versions of the OS, 3 attempts to install, 3 faults | 25 700 | `InitNotCutOff`, `KeyAgrees`, `Bootable`, `OSLands` |
| `core_os`, `driver_start` | as `core_update`, as `drivers` | | the two findings below |

*Why the bounds are enough.* In `apps` the four releases hold each thing a release can do to
a plan: move an app by its version, by its image alone, drop or turn round a dependency,
bring a name no stub is known for, close a circle; two faults are one more than a recovery
needs to be disturbed. Three apps give a shared dependency and a chain. In `core_update` two
containers are all that ever exist (the code gives them two names, and a third would need a
free one); the pushed build shares the core image of one release and not of the other, so
that both branches of `updateCore` follow a push. In `tasks` a channel of one place makes every
sender meet a full channel, which ten places would only do with more submitters. In `drivers` three
majors give a ladder with a rung in the middle, so that an upgrade can be cut off on it, resumed
above it or below it; two troubles (faults, removals and rollbacks together) are one more than the
property allows for one. The invariants were also explored with three, over 7.8 million states, which is
too long for a run with liveness. In `doorway` two
commands are what it takes to overlap, and the domain of an app is one of the custom ones, so that one
may cover the other; three faults are one to lose the container, one to strand the next one without its
key, and one on the way of the update that mends it. In `listener`
two connections meet in every goroutine, and the losses allow a failed accept, a lost session and a
failed dial to follow each other. In `sign_in` two requests are what a race takes; the window is
longer than a tick and shorter than the clock, so that failures expire; the bound on the tries was
also looked for with three requests, by simulation. In `first_boot` three versions give an upgrade
after an upgrade, and three faults one in each of first start, upgrade and retry. The proofs remove
the bounds for every safety property of the passing runs and for both refinements; what stays bounded
is liveness.

`MCTasks.cfg` declares the requests, the pushed builds and the releases symmetric: the module
compares them for equality only, and the run checks invariants only. So does `MCSignIn.cfg` with the
requests, the passwords and the secrets. The other runs use no symmetry.

`CHECK_DEADLOCK FALSE` is said in `MCAppClosure.cfg` (a search that has ended has no next step), in
`Doorway.cfg` and `MCSignIn.cfg` (commands, faults and the clock come to their bounds), in
`Listener.cfg` (a doorway that has been closed is at its end) and in `FirstBoot.cfg` (a machine whose first start has failed waits for its owner, one that does not boot
stays off).

*Fairness.* `Apps`: weak fairness of the manager's own steps; it is straight-line code that
returns from each call (a call that hangs is not modelled; `waitReady` and Docker's client
have time-outs). No fairness for calls, faults, releases. `CoreUpdate`: weak fairness of each
process' worker and cron: Docker restarts a dead container (`AutoRestart`), goroutines run.
No fairness for deaths, failures, publishing, pushes. `Tasks`: weak fairness of the worker,
of the cron and of a push's goroutine; strong fairness of each send on a channel, because Go
queues blocked senders in order and a `select` with several ready cases picks at random.
`AppDrivers`: weak fairness of the calls of a driver (they have time-outs) and of each container that
Docker has started, and strong fairness of "some app is updated", which the update cron retries; with
cut-offs, reboots and other calls it is not enabled all the time. None for releases, removals,
reinstallations. `Listener`: each goroutine that can go on does, and a dial ends; strong fairness of the
sends, as in `Tasks`; clients, the network and whoever cancels need not do anything, and a client that
has connected need not even send its greeting (`HelloInfo` has no fairness). `FirstBoot`: weak fairness of
rc.local, of homeboot and of the core, which Docker restarts; none for the owner, faults and releases.
`Doorway` and `SignIn` state safety only.

`UpdateLands` needs faults to stop at some time, which their bound does, the channel to keep
its offer, no push, and no swap cut short: these are in the property. `SignalServed` excludes a
cron that has quit: the code lets such a request hang. `UpdatesLand` excludes a nextcloud that refuses
its data, and, between two calls, a postgres that a cut-off reinstallation has left stopped: no update
starts it again, as its record is at the release. `TCPTaken` excludes a listener whose goroutine has ended
on a failed accept, after which nobody takes TCP connections, although the https server goes on when the
error was a temporary one (`tunnel_listener.go:62`), and a client that never greets: it stalls the accept
loop, and with it every TCP connection, for as long as it stays (`tls_proxy.go:110`). `ServeEnds` excludes
the same client, whose connection no close reaches; without it both fail, and TLC shows how. `OSLands`
excludes a lost boot partition, an OS that is not in our list, and a core that went on when it was not.

Five properties say less than one would wish, because the code does. `RateHolds`: with N requests at
once and L failures allowed, L - 1 + N tries would be expected; up to L + 2(N - 1) are possible, because
a failure that is recorded late rewrites the list from its own time stamp. `OneFaultRecovers` is about
one fault: a second one, a removal, a retry while the container of the first is still migrating, or a
rollback of a nextcloud that never was upgraded (it has no hint, and its record is set back while its data
are not) can strand nextcloud below its data. `NoRungSkipped` excludes a rung that is the hint of an
installation that was removed since: the hint outlives it, and with a later installation at an earlier
release an upgrade that is cut off goes on from there. `ChangeContract` promises of nextcloud nothing when
it was once asked for a later version: off its ladder the upgrade returns nil (`nextcloud.go:103`), so
that after a rollback the box is ahead of the record. `KeyAgrees` of `Doorway` excludes a container that
was left without its new key, in one of three ways: its creation was reported as failed, the drop after a
failed copy failed too, or the process died. Every later update then keeps the key in the volume; it is
mended when the container is lost and the next one gets a new key.

### Findings

Two comments say of the program what it does not do; each has a run that TLC finds violated.

1. `update_os.go:222-223` "only upgrade os when it is not installed [...] or when it is
   updating": `build-updating` is cleared by an empty release and stays present, so after the
   first update the check holds on every start (`core_os`).
2. `homeapp/app.go:29` "change to a non-nil meta must auto start() the service": an upgrade of
   nextcloud over two rungs is cut off after the hint names the first and the container of the
   second was dropped; the app is then reinstalled at its record. The hint is above the ladder of
   that version, the loop ends at once, and `Change` returns nil with no container (`driver_start`).

The models also show that three other comments are optimistic, without a run of their own: a core that
resumes an update may be the old one (`main.go:65-67`), the scheduler starts on a box whose installation
failed (`main.go:52-53`), and the cron may submit an update after a build was pushed by hand
(`update.go:223`).

## 4. The proofs

All theorems hold for every value of the constants that satisfies the named assumptions
(`AppAssumption`, `ReleaseAssumption`: apps are finitely many, releases are manifests, the markers are
distinct from what they mark; `ClosureAssumption`; `CoreUpdate`'s `ReleaseAssumption`; `CapAssumption`, `BuildAssumption`, `SubmitterAssumption`:
the channel has a place, pushed builds are not releases, submitters are told apart;
`VersionAssumption`: redis, postgres and nextcloud are among the apps, versions are a range of numbers,
the markers are neither numbers nor containers nor calls;
`DoorwayAssumption`, `ListenerAssumption`, `SignInAssumption`, `FirstBootAssumption`: bounds are numbers,
there is a request, a version and an attempt, `None` is nothing else).

`AppsProofs`. The invariants are not inductive: that a dependency is in place needs to know
that the plan is the closure with right floors and that what was visited is current. `IInv`
adds this: `PlanInv` (the plan keeps the closure, floors rise along the dependencies, what was
visited is current, what is installed is kept or still to be torn down), `CurInv` (the app
being changed is on the lowest or highest floor left), `IdleInv` (no plan between calls).
From it follow `StubsCovered`, `DepsFirst`, `DependentsFirst`, `SuccessSettles`, and the action
properties `AnchorsLast` and `RecordsGoUp`. `OneFaultOneApp` has an invariant of its own,
`DriftInv`: between two changes the drift is at most the faults, and while a change waits to be
saved only the app being changed may add to it. Two theorems are the safety half of `Terminates`:
`ApplyNeverStuck` (a call that runs has a step to take: some app is on the lowest floor left, or on the
highest, and what is to be torn down has a stub) and `ApplyComesCloser` (that step leaves less to do).

`AppClosureProofs`. The invariant says what is known of an app at each time: while its call
runs, its floor is right for the dependencies gone through so far, and what it still has to go
through is in `left`; once it has returned, the floor is right for all of them. An app is in `apps`
only if every closed set with the roots in it has it, so `apps` is the least one when nothing is
left. This is why it matters that a floor, once written, never changes. `SearchRefusesRightly` is about circles
of any length: if there were floors, one app of the circle would have the lowest, but it has called an
app that has a lower one. That there is a lowest is the well-foundedness of the naturals applied to a set
(`Least`); it takes the place of an induction along the circle. The same argument shows that two floor
maps can not differ (`SearchHasOneAnswer`), so that `Apps`, which plans with any floor map there is, plans
with what the search returns. `SearchAdvances` is the safety half of `Ends`: each step finds a new app, or
`Pending`, what the calls still have to go through, goes down.

`CoreUpdateProofs`. `OneWorker` needs the names (`SwapInv`): no two containers share one, a
working core named "core" has no old one beside it, and a working one named "old" is the only
one that works. `CoreStays` needs `AliveInv`: somebody runs who is named "core", or a worker is
about to start one. The refinement of `UpdateJournal` maps `build` to `committed` and a named
`build-updating` to `intent`; it needs `JournalInv`, what the worker knows of settings and box
at each place (between setting and clearing the intent it stands; before "build" is set the box
is at the release), and `OneWorker`, since that knowledge is lost as soon as two cores work.

`TasksProofs`. `WaitersKnown` is inductive once it is said of the whole queue (`WaitInv`: who
waits is queued or current, once). `LastPushLands` is not: it speaks of a box at rest. `PushInv`
says what keeps it true on the way there: after a push and until a fault, either a push has not
fetched the release yet (and will get the latest, whichever push it is), or the release fetched
is the latest push, or a swap or a start with `build-updating` named is about to fetch it, or
the box runs it and nobody is about to record something else. It needs `LoopInv` and `TargetInv`,
what the worker and the submitters know at each place.

`DoorwayProofs`. `KeyAgrees` speaks of a doorway that is up; `KeyInv` says where the registered key is at
each call of a task: on its way in the task's files, or in the volume, and that a container which exists
has it or is about to get it, unless it was stranded; a key that is copied in later takes that back. `AckedRouted` needs `AckInv`, which follows an addition from the settings
through the host map that is read for it into the container, for commands that do not overlap.

Its second part is about `Listener`. `NoneDropped` is nearly inductive: only a closed channel lets a goroutine drop what it
holds, and only a close closes one (`Closing`). `Hands` says who holds which connection.

`SignInProofs`. `SignInGuarded` needs `Guarded`: a request that is past its password and finds no second
factor has seen it off at some time since. The theorem does not depend on the clock or the limits.
`RateHolds` compares what was tried in a window with what is recorded of it, and these part ways when a
failure of later rewrites the list. `Rate` says that for each window one of two holds. `Kept`: nothing of it
is forgotten, so each try is recorded, about to be, or lost; and as a request passes the limit only while
fewer than L are recorded, at most L - 1 + N are recorded or may still be. `Forgotten`: the window is over, so
no request takes a time in it any more, and the tries together with the requests that may still add one
are within the bound. What leads from the first to the second is a `recordLoginFailure` with a time after the
window; besides that request at most N - 1 are still before the limit, which is where the bound gets its
second N - 1. The list is a function from times to numbers, and its length the cardinality of `Entries`, which
the library's facts on finite sets can reason about, unlike a sum.

`FirstBootProofs`. `Stages` orders rc.local, homeboot and the core among each other; `Straight` says that
without a fault the first start goes through; `KeyInv` follows the key from homeboot's memory to the
volume; `BootInv` says that a boot entry is only written when its kernel is there.

`AppDriversProofs`. None of the properties is inductive. `Jobs` and `Conts` are what the code leaves unsaid
between two calls of a `Change`: which app each call is for, and what the calls before it have done to its
container and volume, whatever was cut off earlier. `Rungs` keeps an upgrade on its ladder, `Bounds` says that
nothing is ahead of `top`; the release is no bound, as it may have been rolled back. `Reach` gives
`NoRungSkipped`: the version that nextcloud is known to have when its container can not tell (the hint, else
the record) is at most one above its data, or above the container that is to write them, but for a hint
that has outlived a removal (`Stale`); a rollback only makes the record smaller, and a hint, when it
is set, is the version of the data. `OneFaultRecovers` is the other direction, and holds only as long as what it
excuses has not happened (`Calm`). `Sync` says that until then the known version is not behind the data, unless the
container is up and tells, or the one fault is spent and the upgrade that runs has read the version. To know
that a first installation is not cut off by its own errors it needs the database and postgres to be there
(`Kept`, `Postgres`), so this invariant spans three apps. For the refinement every call of a `Change` maps to
`Work`, as it leaves the other apps alone; `Save` to `Succeed`, which needs that at "done" the box shows what
was asked for (the last parts of `Conts`); errors and cut-offs to `Fail`; what Docker starts to `Settle`.

Also proved, and not in a run: `AnchorsLast`, `RecordsGoUp` (the anchors and records of `Apps`),
`WaitersMatch`, `OneCronTask` (answers and waiters of `Tasks`, one update of the cron at a time) and the
types of `AppClosure`, its one answer, and the progress of the search and of `apply`.

*Model-checked only*: liveness (`Terminates`, `UpdateLands`, `Ends`, `Answered`, `SignalServed`,
`UpdatesLand`, `TCPTaken`, `ServeEnds`, `OSLands`), as fairness is defined by ENABLED, which the prover
does not reason about. Of `Terminates` and `Ends` only that last step is missing.

*What the proofs have shown of the models.* In `AppDrivers` the last calls of an upgrade (`redispass`, `fix`,
`flag`) never find nextcloud down: it has just been waited for, and only a reboot could stop it, which ends
the call as well; that part of `Blocked` is there for the code and is never taken. In `AppClosure` floors
leave no choice: where there are any, there is one map.

## 5. Not modelled, and the plan

The components are listed in `PROJECT.json`, with what of each is left out. The larger parts:

- The release tools (`homerelease`), HTTP pages, client commands, flag parsing and dialling: each reads
  its input, makes one call or renders one answer, and keeps no state.
- The conversion of the state of old boxes (`apps_state_legacy.go`), the start, stop and cron calls of
  single apps, `homeboot`'s enrolling and uninstalling, ssh keys, disk and network calls: sequences of
  calls that nothing else races with.
- `backendInit`, which makes the first user and then shows its password: the model of `SignIn` starts
  after it.
- What the doorway does with a connection once it is accepted.

Next, in this order:

1. Variants, as in `ApplyComesCloser`, for a `Change` of `AppDrivers`, which climbs its ladder once, and for
   the worker of `CoreUpdate`.
2. `Doorway`: the registration of domains with the server, and the repair tasks; a liveness property of
   the commands under the fairness of `Tasks`.
3. `Listener` as a refinement of a listener that may be closed.
4. ncfront in the instance of `drivers`, and the removal of apps in the presence of repair flags: the
   flags `nextcloud-%d-fixed` outlive the data they speak of.
