------------------------------ MODULE Doorway ------------------------------
(***************************************************************************)
(* The doorway of a drive as jarvis manages it (jarvis/doorway.go,         *)
(* doorway_update.go, custom_subs.go, app_domains.go): the container, the  *)
(* host map that is copied into it, the key it connects to the fabrics     *)
(* with, and the commands that change its custom subdomains.               *)
(*                                                                         *)
(* The tasks run one at a time (Tasks); here is the one that runs, one     *)
(* call at a time.  The commands are processes of their own: they write to *)
(* the settings first, and then ask for a task and wait for it.            *)
(***************************************************************************)
EXTENDS Naturals

CONSTANTS
    Sub,            \* custom domains that an owner may add
    AppDomain,      \* domains that an app may register
    Main,           \* the main domain of the drive
    External,       \* the drive runs without jarvis in a container
    Client,         \* runs of the custom-subs command
    None,
    MaxFaults, MaxKeys, MaxCommands     \* bounds

VARIABLES
    subs,       \* settings: custom-subs
    domains,    \* app_domains: the domains that an app has registered
    installed,  \* settings: the build is recorded
    cont,       \* the doorway container: its state and its host map
    volKey,     \* the key in its volume
    registered, \* the key that the server has for it
    pc, kind, by,   \* the task that runs: next call, what it is, who waits
    files,      \* the host map it has read
    newKey,     \* the key it has generated
    cli,        \* the commands
    keys, faults, commands,     \* history: how many so far
    stranded,   \* history: a container was left without the key made for it
    acked,      \* history: subs whose addition was reported done
    overlapped  \* history: two commands have overlapped

task == <<pc, kind, by, files, newKey>>
owner == <<cli, commands, acked, overlapped>>
vars == <<subs, domains, installed, cont, volKey, registered, task, keys, faults,
          stranded, owner>>

Domain == Sub \cup AppDomain \cup {Main}
HostMap == UNION {[D -> {"custom", "app", "core"}] : D \in SUBSET Domain}
Container == [state : {"created", "up", "stopped"}, hosts : HostMap \cup {None}]

ASSUME DoorwayAssumption ==
    /\ External \in BOOLEAN
    /\ None \notin Nat \cup Client \cup HostMap \cup Container
    /\ MaxFaults \in Nat /\ MaxKeys \in Nat /\ MaxCommands \in Nat

IdleCli == [at |-> "idle", op |-> None, sub |-> None, copy |-> {},
            undone |-> FALSE]       \* history: another command has removed its sub

Init ==
    /\ subs = {} /\ domains = {} /\ installed = FALSE
    /\ cont = None /\ volKey = None /\ registered = None
    /\ pc = "idle" /\ kind = None /\ by = None /\ files = None /\ newKey = None
    /\ cli = [c \in Client |-> IdleCli]
    /\ keys = 0 /\ faults = 0 /\ stranded = FALSE /\ commands = 0
    /\ acked = {} /\ overlapped = FALSE

Up == cont # None /\ cont.state = "up"

\* Custom subdomains, then the domains of the apps, then the main domain: the
\* later one wins.
hostMap ==
    LET main == IF External THEN {} ELSE {Main}
    IN  [d \in subs \cup domains \cup main |->
            IF d \in main THEN "core" ELSE IF d \in domains THEN "app" ELSE "custom"]

-----------------------------------------------------------------------------
(* The tasks. *)

Run(first, k, c) ==
    /\ pc = "idle"
    /\ pc' = first /\ kind' = k /\ by' = c /\ files' = None /\ newKey' = None

\* Downloaded releases and fix-doorway lead to the same update.
updateDoorway ==
    /\ installed
    /\ Run("inspect", "update", None)
    /\ UNCHANGED <<subs, domains, installed, cont, volKey, registered, keys, faults,
                   stranded, owner>>

\* As long as no build is recorded, every start installs.
install ==
    /\ ~ installed
    /\ Run("key", "install", None)
    /\ UNCHANGED <<subs, domains, installed, cont, volKey, registered, keys, faults,
                   stranded, owner>>

\* recreate-doorway looks for the image first, so there must be a container.
taskRecreateDoorway(c) ==
    /\ cli[c].at = "call"
    /\ Run(IF cont = None THEN "failed" ELSE "inspect", "recreate", c)
    /\ cli' = [cli EXCEPT ![c].at = "wait"]
    /\ UNCHANGED <<subs, domains, installed, cont, volKey, registered, keys, faults,
                   stranded, commands, acked, overlapped>>

\* A task of an app registers or clears its domains.
setDomains ==
    /\ pc = "idle"
    /\ \E D \in SUBSET AppDomain : D # domains /\ domains' = D
    /\ UNCHANGED <<subs, installed, cont, volKey, registered, task, keys, faults,
                   stranded, owner>>

Goto(p) == pc' = p /\ UNCHANGED <<kind, by>>

\* No container: installed anew, with a new key; else stopped and dropped.
update ==
    /\ pc = "inspect"
    /\ Goto(IF cont = None THEN "key" ELSE "stop")
    /\ UNCHANGED <<subs, domains, installed, cont, volKey, registered, files, newKey,
                   keys, faults, stranded, owner>>

\* The server knows the key before any container has it.
generateFabricsKey ==
    /\ pc = "key" /\ keys < MaxKeys
    /\ keys' = keys + 1
    /\ newKey' = keys + 1 /\ registered' = keys + 1
    /\ Goto("etc")
    /\ UNCHANGED <<subs, domains, installed, cont, volKey, files, faults, stranded, owner>>

stopAndDrop ==
    /\ \/ pc = "stop" /\ cont' = [cont EXCEPT !.state = "stopped"] /\ Goto("drop")
       \/ pc = "drop" /\ cont' = None /\ Goto("etc")
    /\ UNCHANGED <<subs, domains, installed, volKey, registered, files, newKey, keys,
                   faults, stranded, owner>>

etcFiles ==
    /\ pc = "etc"
    /\ files' = hostMap
    /\ Goto("create")
    /\ UNCHANGED <<subs, domains, installed, cont, volKey, registered, newKey, keys,
                   faults, stranded, owner>>

\* The container, or its volume, lacks the key that was made for it.
Torn == newKey # None /\ volKey # newKey

\* What a call of start does: create, copy the config files in, then the key if
\* there is a new one, start.
Effect ==
    \/ /\ pc = "create" /\ cont = None
       /\ cont' = [state |-> "created", hosts |-> None] /\ UNCHANGED volKey
    \/ pc = "copy" /\ cont' = [cont EXCEPT !.hosts = files] /\ UNCHANGED volKey
    \/ pc = "copykey" /\ volKey' = newKey /\ UNCHANGED cont
    \/ pc = "start" /\ cont' = [cont EXCEPT !.state = "up"] /\ UNCHANGED volKey

start ==
    /\ Effect
    /\ \/ pc = "create" /\ Goto("copy")
       \/ pc = "copy" /\ Goto(IF newKey = None THEN "start" ELSE "copykey")
       \/ pc = "copykey" /\ Goto("start")
       \/ pc = "start" /\ Goto(IF kind = "install" THEN "initdone" ELSE "done")
    /\ stranded' = (stranded /\ pc # "copykey")
    /\ UNCHANGED <<subs, domains, installed, registered, files, newKey, keys, faults,
                   owner>>

\* The installation goes on: tell the server, then record the build.
initDone ==
    /\ pc = "initdone"
    /\ installed' = TRUE
    /\ Goto("done")
    /\ UNCHANGED <<subs, domains, cont, volKey, registered, files, newKey, keys,
                   faults, stranded, owner>>

-----------------------------------------------------------------------------
(* The end of a task; who waits for it is told. *)

\* Mutant: who waits is not told.
endSilently(ok) ==
    /\ pc' = "idle" /\ kind' = None /\ by' = None /\ files' = None /\ newKey' = None
    /\ UNCHANGED owner

EndTask(ok) ==
    /\ pc' = "idle" /\ kind' = None /\ by' = None /\ files' = None /\ newKey' = None
    /\ cli' = IF by = None THEN cli ELSE [cli EXCEPT ![by] = IdleCli]
    /\ acked' = IF by # None /\ ok /\ cli[by].op = "add" /\ ~ cli[by].undone
                THEN acked \cup {cli[by].sub} ELSE acked
    /\ UNCHANGED <<commands, overlapped>>

\* Mutant: when a copy has failed the container stays.
keepTorn ==
    /\ pc = "undo"
    /\ Goto("failed")
    /\ UNCHANGED <<subs, domains, installed, cont, volKey, registered, files, newKey,
                   keys, faults, stranded, owner>>

\* When a copy has failed the container is dropped again; that nobody looks at
\* whether this worked is where it may stay.
dropTorn ==
    /\ pc = "undo"
    /\ \/ cont' = None /\ UNCHANGED <<faults, stranded>>
       \/ /\ faults < MaxFaults /\ faults' = faults + 1
          /\ stranded' = (stranded \/ Torn) /\ UNCHANGED cont
    /\ Goto("failed")
    /\ UNCHANGED <<subs, domains, installed, volKey, registered, files, newKey, keys,
                   owner>>

finish ==
    /\ pc = "done" /\ EndTask(TRUE)
    /\ UNCHANGED <<subs, domains, installed, cont, volKey, registered, keys, faults,
                   stranded>>

\* Its name is taken: as long as it is, an installation can only fail.
giveUp ==
    /\ \/ pc = "failed"
       \/ pc = "create" /\ cont # None
    /\ EndTask(FALSE)
    /\ UNCHANGED <<subs, domains, installed, cont, volKey, registered, keys, faults,
                   stranded>>

\* A call fails, or its answer is lost after it had its effect; of the calls
\* before start that is the failure of the next one.  Only the two copies are
\* undone: what was created and then reported as failed stays.
Fail ==
    /\ pc \notin {"idle", "failed", "undo", "done"} /\ faults < MaxFaults
    /\ faults' = faults + 1
    /\ Effect \/ UNCHANGED <<cont, volKey>>
    /\ stranded' = (stranded \/ (pc = "create" /\ cont' # cont /\ Torn))
    /\ Goto(IF pc \in {"copy", "copykey"} THEN "undo" ELSE "failed")
    /\ UNCHANGED <<subs, domains, installed, registered, files, newKey, keys, owner>>

\* jarvis dies; who waits gets an error.
Die ==
    /\ faults < MaxFaults
    /\ faults' = faults + 1
    /\ stranded' = (stranded \/ (cont # None /\ Torn))
    /\ EndTask(FALSE)
    /\ UNCHANGED <<subs, domains, installed, cont, volKey, registered, keys>>

-----------------------------------------------------------------------------
(* The custom-subs command. *)

loadCustomSubs(c) ==
    /\ cli[c] = IdleCli /\ installed /\ commands < MaxCommands
    /\ commands' = commands + 1
    /\ \E op \in {"add", "remove"}, s \in Sub :
          /\ (op = "add") <=> (s \notin subs)
          /\ cli' = [cli EXCEPT ![c] = [at |-> "set", op |-> op, sub |-> s, copy |-> subs,
                                        undone |-> FALSE]]
    /\ UNCHANGED <<subs, domains, installed, cont, volKey, registered, task, keys,
                   faults, stranded, acked, overlapped>>

\* What was read is written back with one entry more or less.
saveSubs(c) ==
    /\ cli[c].at = "set"
    /\ subs' = IF cli[c].op = "add" THEN cli[c].copy \cup {cli[c].sub}
               ELSE cli[c].copy \ {cli[c].sub}
    /\ overlapped' = (overlapped \/ subs # cli[c].copy)
    /\ cli' = [b \in Client |->
                  IF b = c THEN [cli[c] EXCEPT !.at = "call"]
                  ELSE IF cli[b].sub = cli[c].sub /\ cli[b].at \in {"call", "wait"}
                  THEN [cli[b] EXCEPT !.undone = (@ \/ cli[c].op = "remove")] ELSE cli[b]]
    /\ UNCHANGED <<domains, installed, cont, volKey, registered, task, keys, faults,
                   stranded, commands>>

\* Mutant: an addition is reported before the doorway has it.
setAndLeave(c) ==
    /\ saveSubs(c)
    /\ acked' = IF cli[c].op = "add" THEN acked \cup {cli[c].sub}
                ELSE acked \ {cli[c].sub}

setCustomSubs(c) ==
    /\ saveSubs(c)
    /\ acked' = IF cli[c].op = "add" THEN acked ELSE acked \ {cli[c].sub}

-----------------------------------------------------------------------------
Next ==
    \/ updateDoorway \/ install \/ setDomains
    \/ update \/ generateFabricsKey \/ stopAndDrop \/ etcFiles \/ start \/ initDone
    \/ dropTorn \/ finish \/ giveUp \/ Fail \/ Die
    \/ \E c \in Client : taskRecreateDoorway(c) \/ loadCustomSubs(c) \/ setCustomSubs(c)

Spec == Init /\ [][Next]_vars
-----------------------------------------------------------------------------
(* Properties. *)

\* Types; while a task of the doorway runs, the command that waits for it, and no
\* other, is at its wait (custom_subs.go:129).
TypeOK ==
    /\ subs \subseteq Sub /\ domains \subseteq AppDomain /\ installed \in BOOLEAN
    /\ cont \in Container \cup {None}
    /\ volKey \in 1 .. MaxKeys \cup {None} /\ registered \in 1 .. MaxKeys \cup {None}
    /\ newKey \in 1 .. MaxKeys \cup {None} /\ files \in HostMap \cup {None}
    /\ pc \in {"idle", "inspect", "key", "stop", "drop", "etc", "create", "copy",
               "copykey", "start", "initdone", "done", "undo", "failed"}
    /\ kind \in {None, "install", "update", "recreate"} /\ by \in Client \cup {None}
    /\ cli \in [Client -> [at : {"idle", "set", "call", "wait"},
                           op : {None, "add", "remove"}, sub : Sub \cup {None},
                           copy : SUBSET Sub, undone : BOOLEAN]]
    /\ \A c \in Client : cli[c].at = "wait" <=> by = c
    /\ acked \subseteq Sub /\ overlapped \in BOOLEAN
    /\ keys \in 0 .. MaxKeys /\ faults \in 0 .. MaxFaults /\ stranded \in BOOLEAN
    /\ commands \in 0 .. MaxCommands

\* The doorway of an installed drive, when it runs, has the key that the server
\* has, after any sequence of failed calls.  A key is registered before it is in
\* the volume (doorway.go:64-84), and a container that stays without it makes
\* every later update keep the old key.  That takes one of three things with the
\* new key on its way: the container is created and the answer lost (252-255), the
\* drop after a failed copy fails as well (260, 268), or the process dies; and a
\* new key that arrives later mends it.
KeyAgrees == installed /\ Up /\ ~ stranded => volKey = registered

\* When custom-subs has reported an addition, the doorway that runs routes it,
\* and goes on to, through every update and failure, until it is removed or two
\* commands overlap (custom_subs.go:58,129: read, change, write back).
AckedRouted == Up => overlapped \/ \A s \in acked : cont.hosts # None /\ s \in DOMAIN cont.hosts
=============================================================================
