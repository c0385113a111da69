----------------------------- MODULE FirstBoot -----------------------------
(***************************************************************************)
(* How a machine becomes a HomeDrive and keeps its OS up to date: rc.local *)
(* runs homeboot once (homeboot/cloud_config.go, boot.go, core.go), which  *)
(* registers the box and starts the core; the core, at every start that is *)
(* due, upgrades the OS and its boot entry and reboots the machine         *)
(* (jarvis/update_os.go, grub.go).  Power may be lost between any two      *)
(* steps.                                                                  *)
(*                                                                         *)
(* ros, grub, Docker and the server are external.  A key, an OS and its    *)
(* kernel are numbers.                                                     *)
(***************************************************************************)
EXTENDS Naturals

CONSTANTS
    MaxVersion,     \* versions of the OS
    MaxKeys,        \* bound on attempts to install
    MaxFaults,      \* bound on failed calls and lost power
    None

ASSUME FirstBootAssumption ==
    /\ MaxVersion \in Nat \ {0} /\ MaxKeys \in Nat \ {0} /\ MaxFaults \in Nat
    /\ None \notin Nat

VARIABLES
    rc,         \* rc.local
    homeboot,   \* the container of that name
    inst,       \* homeboot install: its next call
    key,        \* the key it has made
    registered, \* the key the server has
    image,      \* the image of the core is loaded
    core,       \* the container of the core
    volKey,     \* the key in its volume
    initDone,   \* /opt/homedrv/.init-done
    jarvis,     \* the process in the core: its next call
    want,       \* the OS it wants
    offered,    \* our list of versions has it
    missed,     \* history: when it was last looked for, the core went on without it
    installed, updating,    \* settings: build and build-updating are present
    source,     \* ros has our list of versions
    console,    \* the debian console is on
    uefi, kernels, default, grub,   \* what is on the disk to boot
    running,    \* the OS that runs, None when none boots
    keys, faults, again     \* history: a box with a running core was registered anew

host == <<rc, homeboot, initDone>>
install == <<inst, key, registered, image>>
box == <<core, volKey>>
plan == <<want, offered, missed, installed, updating>>
os == <<source, console, uefi, kernels, default, grub>>
history == <<keys, faults, again>>
vars == <<host, install, box, jarvis, plan, os, running, history>>

Version == 1 .. MaxVersion

Init ==
    /\ rc = "pull" /\ homeboot = "none" /\ initDone = FALSE
    /\ inst = "none" /\ key = None /\ registered = None /\ image = FALSE
    /\ core = "none" /\ volKey = None /\ jarvis = "off"
    /\ want \in Version /\ offered \in BOOLEAN /\ missed = FALSE
    /\ installed = FALSE /\ updating = FALSE
    /\ source = FALSE /\ console = FALSE /\ uefi \in BOOLEAN
    /\ kernels = {1} /\ default = 1 /\ grub = 1 /\ running = 1
    /\ keys = 0 /\ faults = 0 /\ again = FALSE

Fault == faults < MaxFaults /\ faults' = faults + 1

-----------------------------------------------------------------------------
(* The machine. *)

Entry == IF uefi THEN grub ELSE default

\* What a restart leaves running: Docker starts the core again, rc.local starts
\* over, homeboot does not go on.
PowerUp ==
    LET on == Entry \in kernels
    IN  /\ running' = (IF on THEN Entry ELSE None)
        /\ rc' = (IF initDone \/ ~on THEN "done" ELSE "pull")
        /\ homeboot' = (IF homeboot = "run" THEN "failed" ELSE homeboot)
        /\ inst' = "none" /\ key' = None
        /\ jarvis' = (IF on /\ core = "up" THEN "start" ELSE "off")

PowerLoss ==
    /\ running # None /\ Fault
    /\ PowerUp
    /\ UNCHANGED <<initDone, registered, image, box, plan, os, keys, again>>

\* The owner removes homeboot, and maybe a core that does not run, gets a new
\* passcode, and has rc.local run again.
Rescue ==
    /\ rc = "failed" /\ running # None /\ keys < MaxKeys
    /\ homeboot' = "none" /\ rc' = "pull"
    /\ core' \in (IF core = "up" THEN {"up"} ELSE {core, "none"})
    /\ UNCHANGED <<initDone, install, volKey, jarvis, plan, os, running, history>>

-----------------------------------------------------------------------------
(* rc.local, once per start of the machine; set -e. *)

pull ==
    /\ rc = "pull"
    /\ \/ rc' = "run" /\ faults' = faults
       \/ rc' = "failed" /\ Fault
    /\ UNCHANGED <<homeboot, initDone, install, box, jarvis, plan, os, running, keys, again>>

\* docker run --name homeboot: the name must be free.
dockerRun ==
    /\ rc = "run"
    /\ IF homeboot = "none"
       THEN rc' = "wait" /\ homeboot' = "run" /\ inst' = "register"
       ELSE rc' = "failed" /\ UNCHANGED <<homeboot, inst>>
    /\ UNCHANGED <<initDone, key, registered, image, box, jarvis, plan, os, running, history>>

homebootReturns ==
    /\ rc = "wait" /\ homeboot # "run"
    /\ rc' = (IF homeboot = "ok" THEN "mark" ELSE "failed")
    /\ UNCHANGED <<homeboot, initDone, install, box, jarvis, plan, os, running, history>>

markInitDone ==
    /\ rc = "mark"
    /\ initDone' = TRUE /\ rc' = "done"
    /\ UNCHANGED <<homeboot, install, box, jarvis, plan, os, running, history>>

-----------------------------------------------------------------------------
(* homeboot install. *)

\* The key is made in memory; the server has it first.
registerEndpoint ==
    /\ inst = "register" /\ keys < MaxKeys
    /\ keys' = keys + 1 /\ key' = keys + 1 /\ registered' = keys + 1
    /\ again' = (again \/ core = "up")
    /\ inst' = "fetch"
    /\ UNCHANGED <<host, image, box, jarvis, plan, os, running, faults>>

\* The release of the channel, for its core only.
downloadCore ==
    /\ inst = "fetch"
    /\ inst' = "download"
    /\ UNCHANGED <<host, key, registered, image, box, jarvis, plan, os, running, history>>

\* An image that is there is not loaded again; it is tagged.
downloadImages ==
    /\ inst = "download"
    /\ image' = TRUE /\ inst' = "create"
    /\ UNCHANGED <<host, key, registered, box, jarvis, plan, os, running, history>>

\* Mutant: a core that is there is started as it is.
createOrReuse ==
    /\ inst = "create"
    /\ core' = (IF core = "none" THEN "created" ELSE core)
    /\ inst' = (IF core = "none" THEN "copy" ELSE "start")
    /\ UNCHANGED <<host, key, registered, image, volKey, jarvis, plan, os, running, history>>

\* The volume is kept when it exists, a name that is taken is an error.
createCore ==
    /\ inst = "create" /\ image /\ core = "none"
    /\ core' = "created" /\ inst' = "copy"
    /\ UNCHANGED <<host, key, registered, image, volKey, jarvis, plan, os, running, history>>

copyFiles ==
    /\ inst = "copy"
    /\ volKey' = key /\ inst' = "start"
    /\ UNCHANGED <<host, key, registered, image, core, jarvis, plan, os, running, history>>

\* Mutant: homeboot stays when the core is up.
startAndStay ==
    /\ inst = "start"
    /\ core' = "up" /\ jarvis' = "start"
    /\ inst' = "none" /\ key' = None
    /\ UNCHANGED <<rc, homeboot, initDone, registered, image, volKey, plan, os, running, history>>

startCore ==
    /\ inst = "start"
    /\ core' = "up" /\ jarvis' = "start"
    /\ homeboot' = "ok" /\ inst' = "none" /\ key' = None
    /\ UNCHANGED <<rc, initDone, registered, image, volKey, plan, os, running, history>>

\* A call fails, or its answer is lost, and the installation with it; when it was
\* the copy, which may have been done, the container is dropped, or left when that
\* fails too; when it was the start, the core may run.
installFails ==
    /\ \/ inst # "none" /\ Fault
       \/ inst = "create" /\ core # "none" /\ faults' = faults
       \/ inst = "register" /\ keys = MaxKeys /\ faults' = faults
    /\ homeboot' = "failed" /\ inst' = "none" /\ key' = None
    /\ \/ inst = "copy" /\ core' \in {"none", "created"} /\ volKey' \in {key, volKey}
          /\ UNCHANGED jarvis
       \/ inst = "start" /\ core' = "up" /\ jarvis' = "start" /\ UNCHANGED volKey
       \/ inst # "copy" /\ UNCHANGED <<box, jarvis>>
    /\ UNCHANGED <<rc, initDone, registered, image, plan, os, running, keys, again>>

-----------------------------------------------------------------------------
(* jarvis, from its start. *)

At(p) == jarvis = p

\* It exits, and Docker starts it again.
Exit == jarvis' = "start"

maybeUpdateOS ==
    /\ At("start")
    /\ jarvis' = (IF installed /\ ~updating THEN "serve" ELSE "initdone")
    /\ UNCHANGED <<host, install, box, plan, os, running, history>>

\* Mutant: it does not wait.
goAhead ==
    /\ At("initdone")
    /\ jarvis' = "source"
    /\ UNCHANGED <<host, install, box, plan, os, running, history>>

\* It looks for the file for half a minute, then exits to look again.
waitOSInitDone ==
    /\ At("initdone") /\ initDone
    /\ jarvis' = "source"
    /\ UNCHANGED <<host, install, box, plan, os, running, history>>

setOSUpdateSource ==
    /\ At("source")
    /\ source' = TRUE /\ jarvis' = "list"
    /\ UNCHANGED <<host, install, box, plan, console, uefi, kernels, default, grub, running,
                   history>>

\* The entry of the wanted OS in ros os list has the tag running.
TargetRuns == running = want

\* An OS that is not in the list is no error by itself: what is returned is an
\* annotation of no error, which the external errcode may take for either.
listOS ==
    /\ At("list")
    /\ \/ offered /\ jarvis' = (IF TargetRuns THEN "console" ELSE "upgrade") /\ missed' = FALSE
       \/ ~offered /\ jarvis' = "console" /\ missed' = TRUE
       \/ ~offered /\ Exit /\ missed' = FALSE
    /\ UNCHANGED <<host, install, box, want, offered, installed, updating, os, running, history>>

\* The list is a file on our server.
EditList ==
    /\ offered' = ~offered
    /\ UNCHANGED <<host, install, box, jarvis, want, missed, installed, updating, os, running,
                   history>>

\* Mutants: the boot partition is left alone; it is written first.
upgradeOnly ==
    /\ At("upgrade")
    /\ \/ want \notin kernels /\ kernels' = kernels \cup {want} /\ UNCHANGED <<default, jarvis>>
       \/ want \in kernels /\ default' = want /\ jarvis' = "reboot" /\ UNCHANGED kernels
    /\ UNCHANGED <<host, install, box, plan, source, console, uefi, grub, running, history>>

upgradeLast ==
    /\ At("upgrade")
    /\ \/ grub # want /\ grub' = want /\ UNCHANGED <<kernels, default, jarvis>>
       \/ grub = want /\ kernels' = kernels \cup {want} /\ default' = want /\ jarvis' = "reboot"
          /\ UNCHANGED grub
    /\ UNCHANGED <<host, install, box, plan, source, console, uefi, running, history>>

\* ros os upgrade: the kernel, then the boot entry on the same partition.
upgradeBurmillaOS ==
    /\ At("upgrade")
    /\ \/ want \notin kernels /\ kernels' = kernels \cup {want} /\ UNCHANGED <<default, jarvis>>
       \/ want \in kernels /\ default' = want /\ UNCHANGED kernels
          /\ jarvis' = (IF uefi THEN "bootpart" ELSE "reboot")
    /\ UNCHANGED <<host, install, box, plan, source, console, uefi, grub, running, history>>

\* With UEFI, grub.cfg on the boot partition, which must be there, replaced at once.
\* A partition that can not be unmounted is removed with its mount point.
updateBootPart ==
    /\ At("bootpart")
    /\ \/ grub # None /\ grub' = want /\ jarvis' = "reboot" /\ faults' = faults
       \/ grub # None /\ grub' = None /\ jarvis' = "reboot" /\ Fault
       \/ grub = None /\ grub' = None /\ Exit /\ faults' = faults
    /\ UNCHANGED <<host, install, box, plan, source, console, uefi, kernels, default, running,
                   keys, again>>

\* Or the machine does not reboot, and the core starts again.
reboot ==
    /\ At("reboot")
    /\ \/ PowerUp /\ faults' = faults
       \/ Exit /\ Fault /\ UNCHANGED <<running, rc, homeboot, inst, key>>
    /\ UNCHANGED <<initDone, registered, image, box, plan, os, keys, again>>

\* The switch restarts Docker.
switchOSConsole ==
    /\ At("console")
    /\ IF console THEN jarvis' = "serve" ELSE Exit
    /\ console' = TRUE
    /\ UNCHANGED <<host, install, box, plan, source, uefi, kernels, default, grub, running,
                   history>>

osFails ==
    /\ jarvis \in {"start", "source", "list", "upgrade", "bootpart", "console"} /\ Fault
    /\ Exit
    /\ UNCHANGED <<host, install, box, plan, os, running, keys, again>>

\* The installation is recorded.
Installed ==
    /\ At("serve") /\ ~installed
    /\ installed' = TRUE
    /\ UNCHANGED <<host, install, box, jarvis, want, offered, missed, updating, os, running,
                   history>>

\* The core of an update wants a later OS, or the same.  The update clears the
\* setting with an empty release, so that from then on it is present.
UpdateCore ==
    /\ At("serve") /\ installed
    /\ want' \in {v \in Version : v >= want} /\ updating' = TRUE
    /\ offered' \in BOOLEAN
    /\ Exit
    /\ UNCHANGED <<host, install, box, missed, installed, os, running, history>>

-----------------------------------------------------------------------------
RcLocal == pull \/ dockerRun \/ homebootReturns \/ markInitDone
Homeboot ==
    \/ registerEndpoint \/ downloadCore \/ downloadImages \/ createCore \/ copyFiles \/ startCore
    \/ installFails
Jarvis ==
    \/ maybeUpdateOS \/ waitOSInitDone \/ setOSUpdateSource \/ listOS
    \/ upgradeBurmillaOS \/ updateBootPart \/ reboot \/ switchOSConsole

Next ==
    \/ PowerLoss \/ Rescue \/ RcLocal \/ Homeboot \/ Jarvis
    \/ osFails \/ Installed \/ UpdateCore \/ EditList

\* What runs goes on; faults, the owner and new releases need not come.
Spec == Init /\ [][Next]_vars /\ WF_vars(RcLocal) /\ WF_vars(Homeboot) /\ WF_vars(Jarvis)

-----------------------------------------------------------------------------
(* Properties. *)

\* Types; the container homeboot runs exactly while its installation does, and
\* jarvis exactly while the core is up on a machine that has booted.
TypeOK ==
    /\ rc \in {"pull", "run", "wait", "mark", "done", "failed"}
    /\ homeboot \in {"none", "run", "ok", "failed"}
    /\ inst \in {"none", "register", "fetch", "download", "create", "copy", "start"}
    /\ homeboot = "run" <=> inst # "none"
    /\ {key, registered, volKey} \subseteq 1 .. keys \cup {None}
    /\ image \in BOOLEAN /\ core \in {"none", "created", "up"} /\ initDone \in BOOLEAN
    /\ jarvis \in {"off", "start", "initdone", "source", "list", "upgrade", "bootpart",
                   "reboot", "console", "serve"}
    /\ running # None => (core = "up" <=> jarvis # "off")
    /\ want \in Version /\ offered \in BOOLEAN /\ missed \in BOOLEAN
    /\ installed \in BOOLEAN /\ updating \in BOOLEAN
    /\ source \in BOOLEAN /\ console \in BOOLEAN /\ uefi \in BOOLEAN
    /\ kernels \subseteq Version /\ default \in Version /\ grub \in Version \cup {None}
    /\ running \in Version \cup {None}
    /\ keys \in 0 .. MaxKeys /\ faults \in 0 .. MaxFaults /\ again \in BOOLEAN

\* The first start is not cut off by the core itself: rc.local, which can not be
\* run twice as its container keeps its name (cloud_config.go:39-47), only fails
\* after a fault.  The core, which it has started, must not reboot the machine
\* before it is through (update_os.go:133-158).
InitNotCutOff == rc = "failed" => faults > 0

\* The core that runs has the key the server knows, whatever failed on the way: a
\* key is registered before any container has it (boot.go:202), so no core may
\* start with an earlier one.  It is lost when a running core is registered anew.
KeyAgrees == core = "up" => again \/ volKey = registered

\* "Entering danger zone. If power is lost in this process, the box might go into
\* limbo land" (update_os.go:100): at any time what boots next is there, unless the
\* boot partition could not be unmounted.
Bootable == Entry # None => Entry \in kernels

\* A box that is through its first start gets to the OS that its core wants, and
\* serves, whatever faults there were, if the OS is in the list: but for a lost
\* boot partition, and for a core that went on when the list did not have it
\* (update_os.go:86-89), which looks again at its next start only if it is updating.
OSLands ==
    core = "up" /\ initDone ~>
        \/ jarvis = "serve" /\ running = want /\ console
        \/ Entry = None \/ ~offered \/ missed
=============================================================================
