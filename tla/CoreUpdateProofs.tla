-------------------------- MODULE CoreUpdateProofs --------------------------
(***************************************************************************)
(* Theorems about installation and update, for any number of containers,   *)
(* releases and faults.                                                    *)
(*                                                                         *)
(* SwapInv says which containers may exist beside a working core; it gives *)
(* mutual exclusion.  JournalInv says what the settings and the box look   *)
(* like at each place of the worker; with mutual exclusion, since a second *)
(* worker could undo it, it gives the refinement of UpdateJournal.         *)
(***************************************************************************)
EXTENDS CoreUpdate, TLAPS

\* Two containers never share a name, only those that exist have a process,
\* and a working core has no old one beside it, or is the old one itself and
\* has no working one beside it.
SwapInv ==
    /\ \A c, d \in Cont : name[c] = name[d] /\ name[c] # "none" => c = d
    /\ \A c \in Cont : name[c] = "none" => pc[c] = "down"
    /\ \A c \in Cont : pc[c] \in Working /\ name[c] = "core" => NoOld
    /\ \A c, d \in Cont :
           pc[c] \in Working /\ name[c] = "old" /\ pc[d] \in Working => c = d
    /\ \A c \in Cont : pc[c] = "rename" => name[c] = "core"
    /\ \A c \in Cont : pc[c] \in {"start", "start2", "wait"} => name[c] = "old"

\* There is always a container that runs the core, or a worker about to start
\* one, unless a swap was cut short.
AliveInv ==
    ~ broken => \/ \E c \in Cont : name[c] = "core" /\ pc[c] \notin {"new", "down"}
                \/ \E c \in Cont : pc[c] \in {"start", "start2"}

\* What the worker knows of the settings and of the box at each place.
JournalInv ==
    /\ JournalCovers
    /\ \A c \in Cont :
        /\ pc[c] \in {"upcore", "fetch", "apps", "setbuild", "clear"} => updating \in Release
        /\ pc[c] \in {"install", "iapps", "icommit"} => build = None
        /\ pc[c] \in {"setbuild", "icommit"} => system = rel[c]
        /\ pc[c] = "clear" => system = build

\* The places at which the worker deals with a release.
Dealing == {"iapps", "icommit", "task", "upcore", "kill", "rename", "start",
            "start2", "fetch", "apps", "setbuild", "clear"}

Places == Working \cup {"new", "down", "boot"}

LEMMA ToLoopTypes ==
    ASSUME TypeOK, NEW c \in Cont, NEW result, ToLoop(c, result)
    PROVE  /\ pc' \in [Cont -> Places]
           /\ rel' \in [Cont -> Release \cup {None}]
           /\ job' \in [Cont -> {"none", "bg", "cron", "push"}]
           /\ cron' \in [Cont -> {"off", "check", "query", "wait"}]
           /\ asked' = asked /\ push' = push
  BY DEF TypeOK, ToLoop, Put, Places, Working

LEMMA GoneTypes ==
    ASSUME TypeOK, NEW c \in Cont, NEW to \in Places, Gone(c, to)
    PROVE  /\ pc' \in [Cont -> Places]
           /\ rel' \in [Cont -> Release \cup {None}]
           /\ job' \in [Cont -> {"none", "bg", "cron", "push"}]
           /\ cron' \in [Cont -> {"off", "check", "query", "wait"}]
           /\ asked' \in [Cont -> Release \cup {None}]
           /\ push' \in [Cont -> Manual \cup {None}]
  BY DEF TypeOK, Gone, Put, Places, Working

LEMMA TypeInit == Init => TypeOK
<1> SUFFICES ASSUME Init PROVE TypeOK
  OBVIOUS
<1>1. PICK c \in Cont :
        /\ name = [d \in Cont |-> IF d = c THEN "core" ELSE "none"]
        /\ img = [d \in Cont |-> IF d = c THEN Jarvis[latest] ELSE None]
        /\ pc = [d \in Cont |-> IF d = c THEN "boot" ELSE "down"]
  BY DEF Init
<1>2. latest \in Release \ Manual /\ Jarvis[latest] \in Image
  BY ReleaseAssumption DEF Init
<1>3. /\ name \in [Cont -> {"none", "core", "old"}]
      /\ img \in [Cont -> Image \cup {None}]
      /\ pc \in [Cont -> Working \cup {"new", "down", "boot"}]
  BY <1>1, <1>2
<1> QED BY <1>2, <1>3 DEF Init, TypeOK

\* The release that apps and doorway are brought to is always a release: the
\* one the worker holds at each of those places.
TypeInv ==
    /\ TypeOK
    /\ \A c \in Cont : pc[c] \in Dealing => rel[c] \in Release

LEMMA TypeInvInit == Init => TypeInv
  BY TypeInit DEF Init, TypeInv, Dealing

LEMMA TornTypes ==
    ASSUME TypeInv, NEW c \in Cont, Torn(c)
    PROVE  system' \in Release \cup {Mixed} /\ doorway' \in BOOLEAN
  BY DEF TypeInv, TypeOK, Torn, Dealing, box

LEMMA TypeInvStep == TypeInv /\ [Next]_vars => TypeInv'
<1> SUFFICES ASSUME TypeInv, [Next]_vars PROVE TypeInv'
  OBVIOUS
<1>1. TypeOK /\ pc \in [Cont -> Places]
  BY DEF TypeInv, TypeOK, Places
<1> DEFINE Held == \A c \in Cont : pc[c] \in Dealing => rel[c] \in Release
<1>2. Held
  BY DEF TypeInv
<1> USE DEF table, box, conts, worker, asking, Fault
\* The worker of c moves on, and may take up another release.
<1>3. ASSUME NEW c \in Cont, NEW to \in Places, NEW r \in Release \cup {None},
             to \in Dealing => r \in Release,
             Put(pc, c, to), rel' = [rel EXCEPT ![c] = r]
      PROVE  pc' \in [Cont -> Places] /\ rel' \in [Cont -> Release \cup {None}] /\ Held'
  BY <1>1, <1>2, <1>3 DEF TypeOK, Put
<1>4. ASSUME NEW c \in Cont, NEW to \in Places,
             to \in Dealing => pc[c] \in Dealing,
             Put(pc, c, to), rel' = rel
      PROVE  pc' \in [Cont -> Places] /\ rel' \in [Cont -> Release \cup {None}] /\ Held'
  BY <1>1, <1>2, <1>4 DEF TypeOK, Put
<1>5. ASSUME NEW c \in Cont, NEW result, ToLoop(c, result)
      PROVE  /\ pc' \in [Cont -> Places] /\ rel' \in [Cont -> Release \cup {None}] /\ Held'
             /\ job' \in [Cont -> {"none", "bg", "cron", "push"}]
             /\ cron' \in [Cont -> {"off", "check", "query", "wait"}]
             /\ asked' = asked /\ push' = push
  <2>1. Held'
    BY <1>1, <1>2, <1>5 DEF ToLoop, Put, Dealing, TypeOK
  <2> QED BY <1>1, <1>5, <2>1, ToLoopTypes
<1>6. ASSUME NEW c \in Cont, NEW to \in Places \ Dealing, Gone(c, to)
      PROVE  /\ pc' \in [Cont -> Places] /\ rel' \in [Cont -> Release \cup {None}] /\ Held'
             /\ job' \in [Cont -> {"none", "bg", "cron", "push"}]
             /\ cron' \in [Cont -> {"off", "check", "query", "wait"}]
             /\ asked' \in [Cont -> Release \cup {None}]
             /\ push' \in [Cont -> Manual \cup {None}]
  <2>1. Held'
    BY <1>1, <1>2, <1>6 DEF Gone, Put, TypeOK
  <2> QED BY <1>1, <1>6, <2>1, GoneTypes
<1>7. ASSUME NEW c \in Cont, Die(c) PROVE TypeInv'
  <2>1. "boot" \in Places \ Dealing
    BY DEF Places, Dealing
  <2> QED BY <1>1, <1>6, <1>7, <2>1, TornTypes DEF Die, TypeInv, TypeOK, Places
<1>8. CASE Reboot
  <2>1. pc' \in [Cont -> Places] /\ \A c \in Cont : pc'[c] \notin Dealing
    BY <1>1, <1>8 DEF Reboot, Places, Dealing, Working
  <2>2. system' \in Release \cup {Mixed} /\ doorway' \in BOOLEAN
    <3>1. CASE \E c \in Cont : Torn(c)
      BY <3>1, TornTypes
    <3>2. CASE UNCHANGED box
      BY <1>1, <3>2 DEF TypeOK
    <3> QED BY <1>8, <3>1, <3>2 DEF Reboot
  <2>3. broken' \in BOOLEAN /\ faults' \in Nat
    BY <1>1, <1>8 DEF Reboot, TypeOK
  <2> QED BY <1>1, <1>8, <2>1, <2>2, <2>3 DEF Reboot, TypeInv, TypeOK, Places
<1>9. ASSUME NEW c \in Cont, NothingToKill(c) PROVE TypeInv'
  <2>1. PICK to \in {"os", "rename"} :
          Put(pc, c, to) /\ (to \in Dealing => pc[c] \in Dealing)
    BY <1>9 DEF NothingToKill, Dealing
  <2> QED BY <1>1, <1>4, <1>9, <2>1 DEF NothingToKill, TypeInv, TypeOK, Places, Working
<1>10. ASSUME NEW c \in Cont, NEW d \in Cont, KillOld(c, d) PROVE TypeInv'
  <2>1. /\ d # c /\ Torn(d)
        /\ name' = [name EXCEPT ![d] = "none"] /\ img' = [img EXCEPT ![d] = None]
        /\ rel' = [rel EXCEPT ![d] = None] /\ job' = [job EXCEPT ![d] = "none"]
        /\ cron' = [cron EXCEPT ![d] = "off"] /\ asked' = [asked EXCEPT ![d] = None]
        /\ push' = [push EXCEPT ![d] = None]
        /\ UNCHANGED <<build, updating, manual, latest, broken, faults>>
    BY <1>10 DEF KillOld, Put
  <2>2. PICK to \in {"os", "rename"} :
          /\ pc' = [pc EXCEPT ![d] = "down", ![c] = to]
          /\ to \in Dealing => pc[c] \in Dealing
    BY <1>10 DEF KillOld, Dealing
  <2>3. pc' \in [Cont -> Places]
    BY <1>1, <2>2 DEF Places, Working
  <2>4. Held'
    BY <1>1, <1>2, <2>1, <2>2 DEF Dealing, TypeOK
  <2> QED BY <1>1, <2>1, <2>3, <2>4, TornTypes DEF TypeInv, TypeOK, Places
<1>11. ASSUME NEW c \in Cont, KillSelf(c) PROVE TypeInv'
  <2>1. "down" \in Places \ Dealing
    BY DEF Places, Dealing
  <2> QED BY <1>1, <1>6, <1>11, <2>1 DEF KillSelf, TypeInv, TypeOK, Places
<1>12. ASSUME NEW c \in Cont, NEW d \in Cont, BootKillFails(c, d) PROVE TypeInv'
  <2>1. /\ pc' \in [Cont -> Places] /\ pc'[d] \in {pc[d], "down"}
        /\ \A e \in Cont \ {d} : pc'[e] = pc[e]
    BY <1>1, <1>12 DEF BootKillFails, Put, Places
  <2>2. system' \in Release \cup {Mixed} /\ doorway' \in BOOLEAN
    BY <1>1, <1>12, TornTypes DEF BootKillFails, TypeOK
  <2>3. name' \in [Cont -> {"none", "core", "old"}] /\ img' \in [Cont -> Image \cup {None}]
    BY <1>1, <1>12 DEF BootKillFails, Put, TypeOK
  <2>4. /\ rel' \in [Cont -> Release \cup {None}]
        /\ job' \in [Cont -> {"none", "bg", "cron", "push"}]
        /\ cron' \in [Cont -> {"off", "check", "query", "wait"}]
        /\ asked' \in [Cont -> Release \cup {None}]
        /\ push' \in [Cont -> Manual \cup {None}]
    BY <1>1, <1>12 DEF BootKillFails, Put, TypeOK
  <2>5. \/ rel' = rel /\ pc'[d] = pc[d]
        \/ pc'[d] # pc[d] /\ rel' = [rel EXCEPT ![d] = None]
    BY <1>12 DEF BootKillFails, Put
  <2>6. Held'
    BY <1>1, <1>2, <2>1, <2>5 DEF TypeOK, Dealing
  <2>7. /\ UNCHANGED <<build, updating, manual, latest, broken>>
        /\ faults' = faults + 1
    BY <1>12 DEF BootKillFails
  <2> QED BY <1>1, <2>1, <2>2, <2>3, <2>4, <2>6, <2>7 DEF TypeInv, TypeOK, Places
<1>13. ASSUME NEW c \in Cont, OSCheck(c) PROVE TypeInv'
  <2>1. PICK to \in {"osup", "bg"} : Put(pc, c, to)
    BY <1>13 DEF OSCheck
  <2>2. to \in Places /\ to \notin Dealing
    BY DEF Places, Working, Dealing
  <2>3. job' \in [Cont -> {"none", "bg", "cron", "push"}]
    BY <1>1, <1>13 DEF OSCheck, Put, TypeOK
  <2> QED BY <1>1, <1>4, <1>13, <2>1, <2>2, <2>3 DEF OSCheck, TypeInv, TypeOK, Places
<1>14. ASSUME NEW c \in Cont, OSUpdated(c) PROVE TypeInv'
  <2>1. "bg" \in Places \ Dealing
    BY DEF Places, Working, Dealing
  <2> QED BY <1>1, <1>4, <1>14, <2>1 DEF OSUpdated, TypeInv, TypeOK, Places
<1>15. ASSUME NEW c \in Cont, Background(c) PROVE TypeInv'
  <2>1. PICK to \in {"install", "fetch", "done"} :
          /\ Put(pc, c, to)
          /\ to \in Dealing => build # None /\ updating \in Release
    BY <1>15 DEF Background, Dealing
  <2>2. PICK r \in Release \cup {None} :
          /\ rel' = [rel EXCEPT ![c] = r]
          /\ build # None /\ updating \in Release => r \in Release
    BY <1>15 DEF Background, Put
  <2>3. to \in Places
    BY DEF Places, Working
  <2> QED BY <1>1, <1>3, <1>15, <2>1, <2>2, <2>3 DEF Background, TypeInv, TypeOK, Places
<1>16. ASSUME NEW c \in Cont, BackgroundDone(c) PROVE TypeInv'
  BY <1>1, <1>5, <1>16 DEF BackgroundDone, TypeInv, TypeOK, Places
<1>17. ASSUME NEW c \in Cont, DownloadLatest(c) PROVE TypeInv'
  <2>1. (IF manual # None THEN manual ELSE latest) \in Release
    BY <1>1, ReleaseAssumption DEF TypeOK
  <2>2. "iapps" \in Places
    BY DEF Places, Working
  <2> QED BY <1>1, <1>3, <1>17, <2>1, <2>2 DEF DownloadLatest, Put, TypeInv, TypeOK, Places
<1>18. ASSUME NEW c \in Cont, InstallApps(c) PROVE TypeInv'
  <2>1. "icommit" \in Places /\ pc[c] \in Dealing /\ rel[c] \in Release
    BY <1>2, <1>18 DEF InstallApps, Places, Working, Dealing
  <2> QED BY <1>1, <1>4, <1>18, <2>1 DEF InstallApps, TypeInv, TypeOK, Places
<1>19. ASSUME NEW c \in Cont, InstallBlocked(c) PROVE TypeInv'
  BY <1>1, <1>5, <1>19 DEF InstallBlocked, TypeInv, TypeOK, Places
<1>20. ASSUME NEW c \in Cont, InstallCommit(c) PROVE TypeInv'
  <2>1. rel[c] \in Release
    BY <1>2, <1>20 DEF InstallCommit, Dealing
  <2> QED BY <1>1, <1>5, <1>20, <2>1 DEF InstallCommit, TypeInv, TypeOK, Places
<1>21. ASSUME NEW c \in Cont, TakeCron(c) PROVE TypeInv'
  <2>1. asked[c] \in Release /\ "task" \in Places
    BY <1>1, <1>21 DEF TakeCron, TypeOK, Places, Working
  <2>2. job' \in [Cont -> {"none", "bg", "cron", "push"}]
        /\ asked' \in [Cont -> Release \cup {None}]
    BY <1>1, <1>21 DEF TakeCron, Put, TypeOK
  <2>3. pc' \in [Cont -> Places] /\ rel' \in [Cont -> Release \cup {None}] /\ Held'
    BY <1>3, <1>21, <2>1 DEF TakeCron, Put
  <2> QED BY <1>1, <1>21, <2>2, <2>3 DEF TakeCron, TypeInv, TypeOK, Places
<1>22. ASSUME NEW c \in Cont, TakePush(c) PROVE TypeInv'
  <2>1. push[c] \in Release /\ "task" \in Places
    BY <1>1, <1>22, ReleaseAssumption DEF TakePush, TypeOK, Places, Working
  <2>2. job' \in [Cont -> {"none", "bg", "cron", "push"}]
        /\ push' \in [Cont -> Manual \cup {None}]
    BY <1>1, <1>22 DEF TakePush, Put, TypeOK
  <2>3. pc' \in [Cont -> Places] /\ rel' \in [Cont -> Release \cup {None}] /\ Held'
    BY <1>3, <1>22, <2>1 DEF TakePush, Put
  <2> QED BY <1>1, <1>22, <2>2, <2>3 DEF TakePush, TypeInv, TypeOK, Places
<1>23. ASSUME NEW c \in Cont, Download(c) PROVE TypeInv'
  <2>1. "upcore" \in Places /\ pc[c] \in Dealing /\ rel[c] \in Release
    BY <1>2, <1>23 DEF Download, Places, Working, Dealing
  <2> QED BY <1>1, <1>4, <1>23, <2>1 DEF Download, TypeInv, TypeOK, Places
<1>24. ASSUME NEW c \in Cont, NEW d \in Cont, CheckCore(c, d) PROVE TypeInv'
  <2>1. PICK to \in {"fetch", "kill"} : Put(pc, c, to)
    BY <1>24 DEF CheckCore
  <2>2. to \in Places /\ pc[c] \in Dealing
    BY <1>24 DEF CheckCore, Places, Working, Dealing
  <2> QED BY <1>1, <1>4, <1>24, <2>1, <2>2 DEF CheckCore, TypeInv, TypeOK, Places
<1>25. ASSUME NEW c \in Cont, CoreMissing(c) PROVE TypeInv'
  BY <1>1, <1>5, <1>25 DEF CoreMissing, TypeInv, TypeOK, Places
<1>26. ASSUME NEW c \in Cont, NEW d \in Cont, RenameCore(c, d) PROVE TypeInv'
  <2>1. "start" \in Places /\ pc[c] \in Dealing
    BY <1>26 DEF RenameCore, Places, Working, Dealing
  <2>2. name' \in [Cont -> {"none", "core", "old"}]
    BY <1>1, <1>26 DEF RenameCore, Put, TypeOK
  <2> QED BY <1>1, <1>4, <1>26, <2>1, <2>2 DEF RenameCore, TypeInv, TypeOK, Places
<1>27. ASSUME NEW c \in Cont, NEW d \in Cont, Create(c, d), pc[c] \in Dealing
       PROVE  /\ name' \in [Cont -> {"none", "core", "old"}]
              /\ img' \in [Cont -> Image \cup {None}]
  <2>1. Jarvis[rel[c]] \in Image
    BY <1>2, <1>27, ReleaseAssumption
  <2> QED BY <1>1, <1>27, <2>1 DEF Create, Put, TypeOK
<1>28. ASSUME NEW c \in Cont, NEW d \in Cont, CreateCore(c, d) PROVE TypeInv'
  <2>1. pc[c] \in Dealing
    BY <1>28 DEF CreateCore, Dealing
  <2>2. pc' \in [Cont -> Places] /\ Held'
    BY <1>1, <1>2, <1>28, <2>1 DEF CreateCore, Places, Working, Dealing
  <2> QED BY <1>1, <1>27, <1>28, <2>1, <2>2 DEF CreateCore, TypeInv, TypeOK, Places
<1>29. ASSUME NEW c \in Cont, NEW d \in Cont, StartNew(c, d) PROVE TypeInv'
  <2>1. pc' \in [Cont -> Places] /\ Held'
    BY <1>1, <1>2, <1>29 DEF StartNew, Places, Working, Dealing
  <2> QED BY <1>1, <1>29, <2>1 DEF StartNew, TypeInv, TypeOK, Places
<1>err. ASSUME NEW c \in Cont, NEW d \in Cont, NEW state \in Places \ Dealing,
               ErrorAfter(c, d, state)
        PROVE  /\ pc' \in [Cont -> Places] /\ Held'
               /\ rel' \in [Cont -> Release \cup {None}]
               /\ job' \in [Cont -> {"none", "bg", "cron", "push"}]
               /\ cron' \in [Cont -> {"off", "check", "query", "wait"}]
               /\ UNCHANGED <<asked, push>>
  <2>1. pc' = [pc EXCEPT ![c] = "loop", ![d] = state] /\ rel' = [rel EXCEPT ![c] = None]
    BY <1>err DEF ErrorAfter, Put
  <2>2. pc' \in [Cont -> Places]
    BY <1>1, <2>1 DEF Places, Working
  <2>3. Held'
    BY <1>1, <1>2, <2>1 DEF Dealing, TypeOK
  <2>4. /\ rel' \in [Cont -> Release \cup {None}]
        /\ job' \in [Cont -> {"none", "bg", "cron", "push"}]
    BY <1>1, <1>err DEF ErrorAfter, Put, TypeOK
  <2>5. /\ cron' \in [Cont -> {"off", "check", "query", "wait"}]
        /\ UNCHANGED <<asked, push>>
    BY <1>1, <1>err DEF ErrorAfter, TypeOK
  <2> QED BY <2>2, <2>3, <2>4, <2>5
<1>30. ASSUME NEW c \in Cont, CreateFails(c) PROVE TypeInv'
  <2>1. pc[c] \in Dealing
    BY <1>30 DEF CreateFails, Dealing
  <2>2. CASE ToLoop(c, "err") /\ UNCHANGED conts
    BY <1>1, <1>5, <1>30, <2>2 DEF CreateFails, TypeInv, TypeOK, Places
  <2>3. ASSUME NEW d \in Cont, Create(c, d), ErrorAfter(c, d, "new") PROVE TypeInv'
    <3>1. "new" \in Places \ Dealing
      BY DEF Places, Dealing
    <3> QED BY <1>1, <1>27, <1>30, <1>err, <2>1, <2>3, <3>1
            DEF CreateFails, TypeInv, TypeOK, Places
  <2> QED BY <1>30, <2>2, <2>3 DEF CreateFails
<1>31. ASSUME NEW c \in Cont, StartFails(c) PROVE TypeInv'
  <2>1. pc[c] \in Dealing
    BY <1>31 DEF StartFails, Dealing
  <2>2. CASE ToLoop(c, "err") /\ broken' = TRUE
    BY <1>1, <1>5, <1>31, <2>2 DEF StartFails, TypeInv, TypeOK, Places
  <2>3. ASSUME NEW d \in Cont, ErrorAfter(c, d, "boot"), UNCHANGED broken PROVE TypeInv'
    <3>1. "boot" \in Places \ Dealing
      BY DEF Places, Dealing
    <3> QED BY <1>1, <1>31, <1>err, <2>3, <3>1
            DEF StartFails, TypeInv, TypeOK, Places
  <2> QED BY <1>31, <2>2, <2>3 DEF StartFails
<1>32. ASSUME NEW c \in Cont, Refetch(c) PROVE TypeInv'
  <2>1. (IF manual # None THEN manual ELSE rel[c]) \in Release
    BY <1>1, <1>2, <1>32, ReleaseAssumption DEF Refetch, Dealing, TypeOK
  <2>2. "apps" \in Places
    BY DEF Places, Working
  <2> QED BY <1>1, <1>3, <1>32, <2>1, <2>2 DEF Refetch, Put, TypeInv, TypeOK, Places
<1>33. ASSUME NEW c \in Cont, UpdateApps(c) PROVE TypeInv'
  <2>1. "setbuild" \in Places /\ pc[c] \in Dealing /\ rel[c] \in Release
    BY <1>2, <1>33 DEF UpdateApps, Places, Working, Dealing
  <2> QED BY <1>1, <1>4, <1>33, <2>1 DEF UpdateApps, TypeInv, TypeOK, Places
<1>34. ASSUME NEW c \in Cont, SetBuild(c) PROVE TypeInv'
  <2>1. "clear" \in Places /\ pc[c] \in Dealing /\ rel[c] \in Release
    BY <1>2, <1>34 DEF SetBuild, Places, Working, Dealing
  <2> QED BY <1>1, <1>4, <1>34, <2>1 DEF SetBuild, TypeInv, TypeOK, Places
<1>35. ASSUME NEW c \in Cont, ClearUpdating(c) PROVE TypeInv'
  BY <1>1, <1>5, <1>35 DEF ClearUpdating, TypeInv, TypeOK, Places
<1>36. ASSUME NEW c \in Cont, StepFails(c) PROVE TypeInv'
  BY <1>1, <1>5, <1>36, TornTypes DEF StepFails, TypeInv, TypeOK, Places
<1>37. ASSUME NEW c \in Cont, Cron(c) \/ CronCheckFails(c) PROVE TypeInv'
  <2>1. /\ cron' \in [Cont -> {"off", "check", "query", "wait"}]
        /\ asked' \in [Cont -> Release \cup {None}]
    BY <1>1, <1>37 DEF Cron, CronCheck, CronCheckFails, CronQuery, Put, TypeOK
  <2> QED BY <1>1, <1>2, <1>37, <2>1
          DEF Cron, CronCheck, CronCheckFails, CronQuery, TypeInv, TypeOK, Places
<1>38. ASSUME NEW c \in Cont, NEW m \in Manual, pushManualUpdate(c, m) PROVE TypeInv'
  <2>1. push' \in [Cont -> Manual \cup {None}]
    BY <1>1, <1>38 DEF pushManualUpdate, Put, TypeOK
  <2> QED BY <1>1, <1>2, <1>38, <2>1 DEF pushManualUpdate, TypeInv, TypeOK, Places
<1>39. ASSUME NEW r \in Release \ Manual, Publish(r) PROVE TypeInv'
  BY <1>1, <1>2, <1>39 DEF Publish, TypeInv, TypeOK, Places
<1>40. CASE UNCHANGED vars
  BY <1>1, <1>2, <1>40 DEF vars, TypeInv, TypeOK, Places
<1> QED
  BY <1>7, <1>8, <1>9, <1>10, <1>11, <1>12, <1>13, <1>14, <1>15, <1>16, <1>17,
     <1>18, <1>19, <1>20, <1>21, <1>22, <1>23, <1>24, <1>25, <1>26, <1>28, <1>29,
     <1>30, <1>31, <1>32, <1>33, <1>34, <1>35, <1>36, <1>37, <1>38, <1>39, <1>40
  DEF Next, Work, Fail

\* Every variable has its type: the settings hold releases, and each container
\* is at a place of the program (main.go, update.go, update_core.go).
THEOREM TypeCorrect == Spec => []TypeOK
<1>1. TypeInv => TypeOK
  BY DEF TypeInv
<1> QED BY <1>1, TypeInvInit, TypeInvStep, PTL DEF Spec

-----------------------------------------------------------------------------
(* The core swap. *)

LEMMA SwapInit == Init => SwapInv /\ AliveInv
<1> SUFFICES ASSUME Init PROVE SwapInv /\ AliveInv
  OBVIOUS
<1>1. PICK c \in Cont :
        /\ name = [d \in Cont |-> IF d = c THEN "core" ELSE "none"]
        /\ pc = [d \in Cont |-> IF d = c THEN "boot" ELSE "down"]
  BY DEF Init
<1> QED BY <1>1 DEF SwapInv, AliveInv, NoOld, Working

\* A worker that goes on, away from the swap, in the container it is in.
LEMMA MoveKeepsSwap ==
    ASSUME TypeOK, SwapInv, AliveInv, NEW c \in Cont,
           NEW to \in Working \ {"rename", "start", "start2", "wait"},
           pc[c] \in Working \ {"start", "start2"},
           pc' = [pc EXCEPT ![c] = to], name' = name, broken' = broken
    PROVE  SwapInv' /\ AliveInv'
<1>1. pc \in [Cont -> Places] /\ to \notin {"new", "down"} /\ pc[c] \notin {"new", "down"}
  BY DEF TypeOK, Places, Working
<1>2. SwapInv'
  BY <1>1 DEF SwapInv, NoOld, Working
<1>3. AliveInv'
  BY <1>1 DEF AliveInv
<1> QED BY <1>2, <1>3

LEMMA SwapStep == TypeInv /\ SwapInv /\ AliveInv /\ [Next]_vars => SwapInv' /\ AliveInv'
<1> SUFFICES ASSUME TypeInv, SwapInv, AliveInv, [Next]_vars
             PROVE  SwapInv' /\ AliveInv'
  OBVIOUS
<1>1. TypeOK /\ pc \in [Cont -> Places] /\ name \in [Cont -> {"none", "core", "old"}]
  BY DEF TypeInv, TypeOK, Places
<1> USE DEF table, box, conts, worker, asking, Fault
<1>2. ASSUME NEW c \in Cont, Die(c) PROVE SwapInv' /\ AliveInv'
  <2>1. pc' = [pc EXCEPT ![c] = "boot"] /\ name' = name /\ name[c] # "none"
        /\ broken' = (broken \/ pc[c] \in {"start", "start2"})
    BY <1>1, <1>2 DEF Die, Gone, Put, SwapInv, Swapping
  <2>2. SwapInv'
    BY <1>1, <2>1 DEF SwapInv, NoOld, Working
  <2>3. AliveInv'
    BY <1>1, <2>1 DEF AliveInv
  <2> QED BY <2>2, <2>3
<1>3. CASE Reboot
  <2>1. PICK up \in SUBSET {c \in Cont : name[c] # "none" /\ pc[c] = "down"} :
          pc' = [c \in Cont |->
                    IF c \in up \/ pc[c] \notin {"new", "down"} THEN "boot" ELSE pc[c]]
    BY <1>3 DEF Reboot
  <2>2. name' = name
        /\ broken' = (broken \/ \E c \in Cont : pc[c] \in {"start", "start2"})
    BY <1>3 DEF Reboot, Swapping
  <2>3. SwapInv'
    BY <1>1, <2>1, <2>2 DEF SwapInv, NoOld, Working
  <2>4. AliveInv'
    BY <1>1, <2>1, <2>2 DEF AliveInv
  <2> QED BY <2>3, <2>4
<1>4. ASSUME NEW c \in Cont, NothingToKill(c) PROVE SwapInv' /\ AliveInv'
  <2>1. PICK to \in {"os", "rename"} : pc' = [pc EXCEPT ![c] = to]
    BY <1>4 DEF NothingToKill, Put
  <2>2. pc[c] \in {"boot", "kill"} /\ NoOld /\ name' = name /\ broken' = broken
    BY <1>4 DEF NothingToKill
  <2>3. name[c] = "core"
    BY <1>1, <2>2 DEF SwapInv, NoOld
  <2>4. SwapInv'
    BY <1>1, <2>1, <2>2, <2>3 DEF SwapInv, NoOld, Working
  <2>5. AliveInv'
    BY <1>1, <2>1, <2>2 DEF AliveInv
  <2> QED BY <2>4, <2>5
<1>5. ASSUME NEW c \in Cont, NEW d \in Cont, KillOld(c, d) PROVE SwapInv' /\ AliveInv'
  <2>1. PICK to \in {"os", "rename"} : pc' = [pc EXCEPT ![d] = "down", ![c] = to]
    BY <1>5 DEF KillOld
  <2>2. /\ pc[c] \in {"boot", "kill"} /\ name[d] = "old" /\ d # c
        /\ name' = [name EXCEPT ![d] = "none"] /\ broken' = broken
    BY <1>5 DEF KillOld, Put
  <2>3. name[c] = "core"
    BY <1>1, <2>2 DEF SwapInv
  <2>4. SwapInv'
    BY <1>1, <2>1, <2>2, <2>3 DEF SwapInv, NoOld, Working
  <2>5. AliveInv'
    BY <1>1, <2>1, <2>2, <2>3 DEF AliveInv
  <2> QED BY <2>4, <2>5
<1>6. ASSUME NEW c \in Cont, KillSelf(c) PROVE SwapInv' /\ AliveInv'
  <2>1. /\ pc[c] \in {"boot", "kill"} /\ name[c] = "old"
        /\ pc' = [pc EXCEPT ![c] = "down"] /\ name' = name /\ broken' = broken
    BY <1>6 DEF KillSelf, Gone, Put
  <2>2. SwapInv'
    BY <1>1, <2>1 DEF SwapInv, NoOld, Working
  <2>3. AliveInv'
    BY <1>1, <2>1 DEF AliveInv
  <2> QED BY <2>2, <2>3
<1>7. ASSUME NEW c \in Cont, NEW d \in Cont, BootKillFails(c, d)
      PROVE  SwapInv' /\ AliveInv'
  <2>1. /\ pc[c] = "boot" /\ name[d] = "old" /\ d # c /\ broken' = broken
        /\ \/ name' = name /\ pc' = pc
           \/ name' = name /\ pc' = [pc EXCEPT ![d] = "down"]
           \/ name' = [name EXCEPT ![d] = "none"] /\ pc' = [pc EXCEPT ![d] = "down"]
    BY <1>7 DEF BootKillFails, Put
  <2>2. name[c] = "core"
    BY <1>1, <2>1 DEF SwapInv
  <2>3. SwapInv'
    BY <1>1, <2>1, <2>2 DEF SwapInv, NoOld, Working
  <2>4. AliveInv'
    BY <1>1, <2>1, <2>2 DEF AliveInv
  <2> QED BY <2>3, <2>4
<1>8. ASSUME NEW c \in Cont, OSCheck(c) PROVE SwapInv' /\ AliveInv'
  <2>1. PICK to \in {"osup", "bg"} : pc' = [pc EXCEPT ![c] = to]
    BY <1>8 DEF OSCheck, Put
  <2>2. pc[c] \in Working \ {"start", "start2"} /\ name' = name /\ broken' = broken
    BY <1>8 DEF OSCheck, Working
  <2>3. to \in Working \ {"rename", "start", "start2", "wait"}
    BY <2>1 DEF Working
  <2> QED BY <1>1, <2>1, <2>2, <2>3, MoveKeepsSwap
<1>9. ASSUME NEW c \in Cont, OSUpdated(c) PROVE SwapInv' /\ AliveInv'
  <2>1. PICK to \in {"bg"} : pc' = [pc EXCEPT ![c] = to]
    BY <1>9 DEF OSUpdated, Put
  <2>2. pc[c] \in Working \ {"start", "start2"} /\ name' = name /\ broken' = broken
    BY <1>9 DEF OSUpdated, Working
  <2>3. to \in Working \ {"rename", "start", "start2", "wait"}
    BY <2>1 DEF Working
  <2> QED BY <1>1, <2>1, <2>2, <2>3, MoveKeepsSwap
<1>10. ASSUME NEW c \in Cont, Background(c) PROVE SwapInv' /\ AliveInv'
  <2>1. PICK to \in {"install", "fetch", "done"} : pc' = [pc EXCEPT ![c] = to]
    BY <1>10 DEF Background, Put
  <2>2. pc[c] \in Working \ {"start", "start2"} /\ name' = name /\ broken' = broken
    BY <1>10 DEF Background, Working
  <2>3. to \in Working \ {"rename", "start", "start2", "wait"}
    BY <2>1 DEF Working
  <2> QED BY <1>1, <2>1, <2>2, <2>3, MoveKeepsSwap
<1>11. ASSUME NEW c \in Cont, BackgroundDone(c) PROVE SwapInv' /\ AliveInv'
  <2>1. PICK to \in {"loop"} : pc' = [pc EXCEPT ![c] = to]
    BY <1>11 DEF BackgroundDone, ToLoop, Put
  <2>2. pc[c] \in Working \ {"start", "start2"} /\ name' = name /\ broken' = broken
    BY <1>11 DEF BackgroundDone, Working
  <2>3. to \in Working \ {"rename", "start", "start2", "wait"}
    BY <2>1 DEF Working
  <2> QED BY <1>1, <2>1, <2>2, <2>3, MoveKeepsSwap
<1>12. ASSUME NEW c \in Cont, DownloadLatest(c) PROVE SwapInv' /\ AliveInv'
  <2>1. PICK to \in {"iapps"} : pc' = [pc EXCEPT ![c] = to]
    BY <1>12 DEF DownloadLatest, Put
  <2>2. pc[c] \in Working \ {"start", "start2"} /\ name' = name /\ broken' = broken
    BY <1>12 DEF DownloadLatest, Working
  <2>3. to \in Working \ {"rename", "start", "start2", "wait"}
    BY <2>1 DEF Working
  <2> QED BY <1>1, <2>1, <2>2, <2>3, MoveKeepsSwap
<1>13. ASSUME NEW c \in Cont, InstallApps(c) PROVE SwapInv' /\ AliveInv'
  <2>1. PICK to \in {"icommit"} : pc' = [pc EXCEPT ![c] = to]
    BY <1>13 DEF InstallApps, Put
  <2>2. pc[c] \in Working \ {"start", "start2"} /\ name' = name /\ broken' = broken
    BY <1>13 DEF InstallApps, Working
  <2>3. to \in Working \ {"rename", "start", "start2", "wait"}
    BY <2>1 DEF Working
  <2> QED BY <1>1, <2>1, <2>2, <2>3, MoveKeepsSwap
<1>14. ASSUME NEW c \in Cont, InstallBlocked(c) PROVE SwapInv' /\ AliveInv'
  <2>1. PICK to \in {"loop"} : pc' = [pc EXCEPT ![c] = to]
    BY <1>14 DEF InstallBlocked, ToLoop, Put
  <2>2. pc[c] \in Working \ {"start", "start2"} /\ name' = name /\ broken' = broken
    BY <1>14 DEF InstallBlocked, Working
  <2>3. to \in Working \ {"rename", "start", "start2", "wait"}
    BY <2>1 DEF Working
  <2> QED BY <1>1, <2>1, <2>2, <2>3, MoveKeepsSwap
<1>15. ASSUME NEW c \in Cont, InstallCommit(c) PROVE SwapInv' /\ AliveInv'
  <2>1. PICK to \in {"loop"} : pc' = [pc EXCEPT ![c] = to]
    BY <1>15 DEF InstallCommit, ToLoop, Put
  <2>2. pc[c] \in Working \ {"start", "start2"} /\ name' = name /\ broken' = broken
    BY <1>15 DEF InstallCommit, Working
  <2>3. to \in Working \ {"rename", "start", "start2", "wait"}
    BY <2>1 DEF Working
  <2> QED BY <1>1, <2>1, <2>2, <2>3, MoveKeepsSwap
<1>16. ASSUME NEW c \in Cont, TakeCron(c) PROVE SwapInv' /\ AliveInv'
  <2>1. PICK to \in {"task"} : pc' = [pc EXCEPT ![c] = to]
    BY <1>16 DEF TakeCron, Put, Idle
  <2>2. pc[c] \in Working \ {"start", "start2"} /\ name' = name /\ broken' = broken
    BY <1>16 DEF TakeCron, Working, Idle
  <2>3. to \in Working \ {"rename", "start", "start2", "wait"}
    BY <2>1 DEF Working
  <2> QED BY <1>1, <2>1, <2>2, <2>3, MoveKeepsSwap
<1>17. ASSUME NEW c \in Cont, TakePush(c) PROVE SwapInv' /\ AliveInv'
  <2>1. PICK to \in {"task"} : pc' = [pc EXCEPT ![c] = to]
    BY <1>17 DEF TakePush, Put, Idle
  <2>2. pc[c] \in Working \ {"start", "start2"} /\ name' = name /\ broken' = broken
    BY <1>17 DEF TakePush, Working, Idle
  <2>3. to \in Working \ {"rename", "start", "start2", "wait"}
    BY <2>1 DEF Working
  <2> QED BY <1>1, <2>1, <2>2, <2>3, MoveKeepsSwap
<1>18. ASSUME NEW c \in Cont, Download(c) PROVE SwapInv' /\ AliveInv'
  <2>1. PICK to \in {"upcore"} : pc' = [pc EXCEPT ![c] = to]
    BY <1>18 DEF Download, Put
  <2>2. pc[c] \in Working \ {"start", "start2"} /\ name' = name /\ broken' = broken
    BY <1>18 DEF Download, Working
  <2>3. to \in Working \ {"rename", "start", "start2", "wait"}
    BY <2>1 DEF Working
  <2> QED BY <1>1, <2>1, <2>2, <2>3, MoveKeepsSwap
<1>19. ASSUME NEW c \in Cont, CoreMissing(c) PROVE SwapInv' /\ AliveInv'
  <2>1. PICK to \in {"loop"} : pc' = [pc EXCEPT ![c] = to]
    BY <1>19 DEF CoreMissing, ToLoop, Put
  <2>2. pc[c] \in Working \ {"start", "start2"} /\ name' = name /\ broken' = broken
    BY <1>19 DEF CoreMissing, Working
  <2>3. to \in Working \ {"rename", "start", "start2", "wait"}
    BY <2>1 DEF Working
  <2> QED BY <1>1, <2>1, <2>2, <2>3, MoveKeepsSwap
<1>20. ASSUME NEW c \in Cont, Refetch(c) PROVE SwapInv' /\ AliveInv'
  <2>1. PICK to \in {"apps"} : pc' = [pc EXCEPT ![c] = to]
    BY <1>20 DEF Refetch, Put
  <2>2. pc[c] \in Working \ {"start", "start2"} /\ name' = name /\ broken' = broken
    BY <1>20 DEF Refetch, Working
  <2>3. to \in Working \ {"rename", "start", "start2", "wait"}
    BY <2>1 DEF Working
  <2> QED BY <1>1, <2>1, <2>2, <2>3, MoveKeepsSwap
<1>21. ASSUME NEW c \in Cont, UpdateApps(c) PROVE SwapInv' /\ AliveInv'
  <2>1. PICK to \in {"setbuild"} : pc' = [pc EXCEPT ![c] = to]
    BY <1>21 DEF UpdateApps, Put
  <2>2. pc[c] \in Working \ {"start", "start2"} /\ name' = name /\ broken' = broken
    BY <1>21 DEF UpdateApps, Working
  <2>3. to \in Working \ {"rename", "start", "start2", "wait"}
    BY <2>1 DEF Working
  <2> QED BY <1>1, <2>1, <2>2, <2>3, MoveKeepsSwap
<1>22. ASSUME NEW c \in Cont, SetBuild(c) PROVE SwapInv' /\ AliveInv'
  <2>1. PICK to \in {"clear"} : pc' = [pc EXCEPT ![c] = to]
    BY <1>22 DEF SetBuild, Put
  <2>2. pc[c] \in Working \ {"start", "start2"} /\ name' = name /\ broken' = broken
    BY <1>22 DEF SetBuild, Working
  <2>3. to \in Working \ {"rename", "start", "start2", "wait"}
    BY <2>1 DEF Working
  <2> QED BY <1>1, <2>1, <2>2, <2>3, MoveKeepsSwap
<1>23. ASSUME NEW c \in Cont, ClearUpdating(c) PROVE SwapInv' /\ AliveInv'
  <2>1. PICK to \in {"loop"} : pc' = [pc EXCEPT ![c] = to]
    BY <1>23 DEF ClearUpdating, ToLoop, Put
  <2>2. pc[c] \in Working \ {"start", "start2"} /\ name' = name /\ broken' = broken
    BY <1>23 DEF ClearUpdating, Working
  <2>3. to \in Working \ {"rename", "start", "start2", "wait"}
    BY <2>1 DEF Working
  <2> QED BY <1>1, <2>1, <2>2, <2>3, MoveKeepsSwap
<1>24. ASSUME NEW c \in Cont, StepFails(c) PROVE SwapInv' /\ AliveInv'
  <2>1. PICK to \in {"loop"} : pc' = [pc EXCEPT ![c] = to]
    BY <1>24 DEF StepFails, ToLoop, Put
  <2>2. pc[c] \in Working \ {"start", "start2"} /\ name' = name /\ broken' = broken
    BY <1>24 DEF StepFails, Working
  <2>3. to \in Working \ {"rename", "start", "start2", "wait"}
    BY <2>1 DEF Working
  <2> QED BY <1>1, <2>1, <2>2, <2>3, MoveKeepsSwap
<1>25. ASSUME NEW c \in Cont, NEW d \in Cont, CheckCore(c, d) PROVE SwapInv' /\ AliveInv'
  <2>1. PICK to \in {"fetch", "kill"} : pc' = [pc EXCEPT ![c] = to]
    BY <1>25 DEF CheckCore, Put
  <2>2. pc[c] \in Working \ {"start", "start2"} /\ name' = name /\ broken' = broken
    BY <1>25 DEF CheckCore, Working
  <2>3. to \in Working \ {"rename", "start", "start2", "wait"}
    BY <2>1 DEF Working
  <2> QED BY <1>1, <2>1, <2>2, <2>3, MoveKeepsSwap
<1>26. ASSUME NEW c \in Cont, NEW d \in Cont, RenameCore(c, d) PROVE SwapInv' /\ AliveInv'
  <2>1. /\ pc[c] = "rename" /\ name[d] = "core"
        /\ name' = [name EXCEPT ![d] = "old"] /\ pc' = [pc EXCEPT ![c] = "start"]
    BY <1>26 DEF RenameCore, Put
  <2>2. d = c /\ NoOld
    BY <2>1 DEF SwapInv, Working
  <2>3. \A e \in Cont : pc[e] \in Working => e = c
    BY <1>1, <2>1, <2>2 DEF SwapInv, NoOld, Working
  <2>4. SwapInv'
    BY <1>1, <2>1, <2>2, <2>3 DEF SwapInv, NoOld, Working
  <2>5. AliveInv'
    BY <1>1, <2>1 DEF AliveInv
  <2> QED BY <2>4, <2>5
<1>27. ASSUME NEW c \in Cont, NEW d \in Cont, CreateCore(c, d) PROVE SwapInv' /\ AliveInv'
  <2>1. /\ pc[c] = "start" /\ name[d] = "none" /\ \A e \in Cont : name[e] # "core"
        /\ name' = [name EXCEPT ![d] = "core"]
        /\ pc' = [pc EXCEPT ![c] = "start2", ![d] = "new"]
    BY <1>27 DEF CreateCore, Create, Put
  <2>2. name[c] = "old" /\ c # d
    BY <2>1 DEF SwapInv
  <2>3. SwapInv'
    BY <1>1, <2>1, <2>2 DEF SwapInv, NoOld, Working
  <2>4. AliveInv'
    BY <1>1, <2>1, <2>2 DEF AliveInv
  <2> QED BY <2>3, <2>4
<1>28. ASSUME NEW c \in Cont, NEW d \in Cont, StartNew(c, d) PROVE SwapInv' /\ AliveInv'
  <2>1. /\ pc[c] = "start2" /\ name[d] = "core" /\ pc[d] = "new" /\ name' = name
        /\ pc' = [pc EXCEPT ![c] = "wait", ![d] = "boot"]
    BY <1>28 DEF StartNew
  <2>2. name[c] = "old" /\ c # d
    BY <2>1 DEF SwapInv
  <2>3. SwapInv'
    BY <1>1, <2>1, <2>2 DEF SwapInv, NoOld, Working
  <2>4. AliveInv'
    BY <1>1, <2>1, <2>2 DEF AliveInv
  <2> QED BY <2>3, <2>4
<1>29. ASSUME NEW c \in Cont, CreateFails(c) PROVE SwapInv' /\ AliveInv'
  <2>1. pc[c] = "start" /\ name[c] = "old" /\ broken'
    BY <1>29 DEF CreateFails, SwapInv
  <2>2. \/ name' = name /\ pc' = [pc EXCEPT ![c] = "loop"]
        \/ \E d \in Cont :
             /\ name[d] = "none" /\ \A e \in Cont : name[e] # "core"
             /\ name' = [name EXCEPT ![d] = "core"]
             /\ pc' = [pc EXCEPT ![c] = "loop", ![d] = "new"]
    BY <1>29 DEF CreateFails, Create, ErrorAfter, ToLoop, Put
  <2>3. CASE name' = name /\ pc' = [pc EXCEPT ![c] = "loop"]
    BY <1>1, <2>1, <2>3 DEF SwapInv, AliveInv, NoOld, Working
  <2>4. ASSUME NEW d \in Cont, name[d] = "none", \A e \in Cont : name[e] # "core",
               name' = [name EXCEPT ![d] = "core"],
               pc' = [pc EXCEPT ![c] = "loop", ![d] = "new"]
        PROVE  SwapInv' /\ AliveInv'
    BY <1>1, <2>1, <2>4 DEF SwapInv, AliveInv, NoOld, Working
  <2> QED BY <2>2, <2>3, <2>4
<1>30. ASSUME NEW c \in Cont, StartFails(c) PROVE SwapInv' /\ AliveInv'
  <2>1. pc[c] = "start2" /\ name[c] = "old" /\ name' = name
    BY <1>30 DEF StartFails, SwapInv
  <2>2. \/ broken' = TRUE /\ pc' = [pc EXCEPT ![c] = "loop"]
        \/ \E d \in Cont :
             /\ name[d] = "core" /\ pc[d] = "new" /\ broken' = broken
             /\ pc' = [pc EXCEPT ![c] = "loop", ![d] = "boot"]
    BY <1>30 DEF StartFails, ErrorAfter, ToLoop, Put
  <2>3. CASE broken' = TRUE /\ pc' = [pc EXCEPT ![c] = "loop"]
    BY <1>1, <2>1, <2>3 DEF SwapInv, AliveInv, NoOld, Working
  <2>4. ASSUME NEW d \in Cont, name[d] = "core", pc[d] = "new", broken' = broken,
               pc' = [pc EXCEPT ![c] = "loop", ![d] = "boot"]
        PROVE  SwapInv' /\ AliveInv'
    <3>1. c # d
      BY <2>1, <2>4
    <3>2. SwapInv'
      BY <1>1, <2>1, <2>4, <3>1 DEF SwapInv, NoOld, Working
    <3>3. AliveInv'
      BY <1>1, <2>1, <2>4, <3>1 DEF AliveInv
    <3> QED BY <3>2, <3>3
  <2> QED BY <2>2, <2>3, <2>4
<1>31. CASE UNCHANGED <<pc, name, broken>>
  BY <1>31 DEF SwapInv, AliveInv, NoOld
<1> QED
  BY <1>2, <1>3, <1>4, <1>5, <1>6, <1>7, <1>8, <1>9, <1>10, <1>11, <1>12,
     <1>13, <1>14, <1>15, <1>16, <1>17, <1>18, <1>19, <1>20, <1>21, <1>22,
     <1>23, <1>24, <1>25, <1>26, <1>27, <1>28, <1>29, <1>30, <1>31
  DEF Next, Work, Fail, Cron, CronCheck, CronCheckFails, CronQuery, pushManualUpdate,
      Publish, vars

LEMMA SwapInvariant == Spec => [](TypeInv /\ SwapInv /\ AliveInv)
  BY TypeInvInit, TypeInvStep, SwapInit, SwapStep, PTL DEF Spec

LEMMA SwapExcludes == TypeOK /\ SwapInv => OneWorker
  BY DEF TypeOK, SwapInv, NoOld, OneWorker, Working

\* No two cores ever work on the box, over any number of containers and faults:
\* killOldCoreIfExist at the start of a core is what the proof rests on
\* (main.go:103-107, update_core.go:28-45).
THEOREM OneWorkerAlways == Spec => []OneWorker
  BY SwapInvariant, SwapExcludes, PTL DEF TypeInv

\* The box keeps a core, unless a swap was cut short between the rename of the
\* old container and the start of the new one (update_core.go:47-81).
THEOREM CoreStays == Spec => []CoreAlive
<1>1. AliveInv => CoreAlive
  BY DEF AliveInv, CoreAlive
<1> QED BY <1>1, SwapInvariant, PTL

-----------------------------------------------------------------------------
(* The settings table as a redo log. *)

\* The places at which the worker knows nothing of the settings.
Free == Places \ {"upcore", "fetch", "apps", "setbuild", "clear", "install",
                  "iapps", "icommit"}

JStep == [Journal!JNext]_(Journal!jvars)

LEMMA JournalInit == Init => JournalInv /\ Journal!JInit
<1> SUFFICES ASSUME Init PROVE JournalInv /\ Journal!JInit
  OBVIOUS
<1>1. \A c \in Cont : pc[c] \in {"boot", "down"}
  BY DEF Init
<1>2. build = None /\ updating = None /\ system = Mixed /\ None \notin Release
  BY ReleaseAssumption DEF Init
<1> QED BY <1>1, <1>2 DEF JournalInv, JournalCovers, Journal!JournalCovers, Journal!JInit

\* Every worker stays where it is or goes to a place without knowledge.
Stays(c) == pc'[c] \in Free \/ (pc'[c] = pc[c] /\ rel'[c] = rel[c])

AllStay == \A c \in Cont : Stays(c)

Quiet == AllStay /\ UNCHANGED <<build, updating, system>>

TornOnly(c) ==
    Torn(c) /\ AllStay /\ pc'[c] \in Free /\ UNCHANGED <<build, updating>>

LEMMA QuietKeepsJournal == JournalInv /\ Quiet => JournalInv' /\ JStep
  BY DEF JournalInv, JournalCovers, Journal!JournalCovers, Free, JStep, Journal!jvars,
         Quiet, AllStay, Stays

\* A worker that stops leaves what it has not finished to the intent.
LEMMA TornKeepsJournal ==
    ASSUME TypeInv, OneWorker, JournalInv, NEW c \in Cont, TornOnly(c)
    PROVE  JournalInv' /\ JStep
<1> USE DEF TornOnly, AllStay, Stays
<1>1. CASE pc[c] \notin {"iapps", "apps"}
  BY <1>1, QuietKeepsJournal DEF Torn, box, Quiet
<1>2. CASE pc[c] \in {"iapps", "apps"}
  <2>1. \A d \in Cont : pc'[d] \in Free \/ pc'[d] \notin Working
    BY <1>2 DEF OneWorker, Working
  <2>2. build = None \/ updating \in Release
    BY <1>2 DEF JournalInv
  <2>3. system' \in Release \cup {Mixed}
    BY TornTypes
  <2>4. JournalInv'
    BY <2>1, <2>2, ReleaseAssumption
       DEF JournalInv, JournalCovers, Journal!JournalCovers, Free, Working
  <2>5. Journal!Work
    BY <2>2, <2>3, ReleaseAssumption DEF Journal!Work
  <2> QED BY <2>4, <2>5 DEF JStep, Journal!JNext
<1> QED BY <1>1, <1>2

LEMMA JournalStep ==
    TypeInv /\ OneWorker /\ JournalInv /\ [Next]_vars => JournalInv' /\ JStep
<1> SUFFICES ASSUME TypeInv, OneWorker, JournalInv, [Next]_vars
             PROVE  JournalInv' /\ JStep
  OBVIOUS
<1>1. TypeOK /\ pc \in [Cont -> Places] /\ rel \in [Cont -> Release \cup {None}]
  BY DEF TypeInv, TypeOK, Places
<1>2. None \notin Release /\ Empty \notin Release /\ Mixed \notin Release
  BY ReleaseAssumption
<1> USE DEF table, box, conts, worker, asking, Fault
<1>3. ASSUME NEW c \in Cont, NothingToKill(c) PROVE JournalInv' /\ JStep
  <2>1. AllStay
    BY <1>1, <1>3 DEF NothingToKill, Put, Free, Places, Working, AllStay, Stays
  <2>2. UNCHANGED <<build, updating, system>>
    BY <1>3 DEF NothingToKill
  <2> QED BY <2>1, <2>2, QuietKeepsJournal DEF Quiet
<1>4. ASSUME NEW c \in Cont, KillSelf(c) PROVE JournalInv' /\ JStep
  <2>1. AllStay
    BY <1>1, <1>4 DEF KillSelf, Gone, Put, Free, Places, Working, AllStay, Stays
  <2>2. UNCHANGED <<build, updating, system>>
    BY <1>4 DEF KillSelf
  <2> QED BY <2>1, <2>2, QuietKeepsJournal DEF Quiet
<1>5. ASSUME NEW c \in Cont, OSCheck(c) PROVE JournalInv' /\ JStep
  <2>1. AllStay
    BY <1>1, <1>5 DEF OSCheck, Put, Free, Places, Working, AllStay, Stays
  <2>2. UNCHANGED <<build, updating, system>>
    BY <1>5 DEF OSCheck
  <2> QED BY <2>1, <2>2, QuietKeepsJournal DEF Quiet
<1>6. ASSUME NEW c \in Cont, OSUpdated(c) PROVE JournalInv' /\ JStep
  <2>1. AllStay
    BY <1>1, <1>6 DEF OSUpdated, Put, Free, Places, Working, AllStay, Stays
  <2>2. UNCHANGED <<build, updating, system>>
    BY <1>6 DEF OSUpdated
  <2> QED BY <2>1, <2>2, QuietKeepsJournal DEF Quiet
<1>7. ASSUME NEW c \in Cont, BackgroundDone(c) PROVE JournalInv' /\ JStep
  <2>1. AllStay
    BY <1>1, <1>7 DEF BackgroundDone, ToLoop, Put, Free, Places, Working, AllStay, Stays
  <2>2. UNCHANGED <<build, updating, system>>
    BY <1>7 DEF BackgroundDone
  <2> QED BY <2>1, <2>2, QuietKeepsJournal DEF Quiet
<1>8. ASSUME NEW c \in Cont, TakeCron(c) PROVE JournalInv' /\ JStep
  <2>1. AllStay
    BY <1>1, <1>8 DEF TakeCron, Put, Free, Places, Working, AllStay, Stays
  <2>2. UNCHANGED <<build, updating, system>>
    BY <1>8 DEF TakeCron
  <2> QED BY <2>1, <2>2, QuietKeepsJournal DEF Quiet
<1>9. ASSUME NEW c \in Cont, TakePush(c) PROVE JournalInv' /\ JStep
  <2>1. AllStay
    BY <1>1, <1>9 DEF TakePush, Put, Free, Places, Working, AllStay, Stays
  <2>2. UNCHANGED <<build, updating, system>>
    BY <1>9 DEF TakePush
  <2> QED BY <2>1, <2>2, QuietKeepsJournal DEF Quiet
<1>10. ASSUME NEW c \in Cont, CoreMissing(c) PROVE JournalInv' /\ JStep
  <2>1. AllStay
    BY <1>1, <1>10 DEF CoreMissing, ToLoop, Put, Free, Places, Working, AllStay, Stays
  <2>2. UNCHANGED <<build, updating, system>>
    BY <1>10 DEF CoreMissing
  <2> QED BY <2>1, <2>2, QuietKeepsJournal DEF Quiet
<1>11. ASSUME NEW c \in Cont, NEW d \in Cont, RenameCore(c, d) PROVE JournalInv' /\ JStep
  <2>1. AllStay
    BY <1>1, <1>11 DEF RenameCore, Put, Free, Places, Working, AllStay, Stays
  <2>2. UNCHANGED <<build, updating, system>>
    BY <1>11 DEF RenameCore
  <2> QED BY <2>1, <2>2, QuietKeepsJournal DEF Quiet
<1>12. ASSUME NEW c \in Cont, NEW d \in Cont, CreateCore(c, d) PROVE JournalInv' /\ JStep
  <2>1. AllStay
    BY <1>1, <1>12 DEF CreateCore, Create, Put, Free, Places, Working, AllStay, Stays
  <2>2. UNCHANGED <<build, updating, system>>
    BY <1>12 DEF CreateCore
  <2> QED BY <2>1, <2>2, QuietKeepsJournal DEF Quiet
<1>13. ASSUME NEW c \in Cont, NEW d \in Cont, StartNew(c, d) PROVE JournalInv' /\ JStep
  <2>1. AllStay
    BY <1>1, <1>13 DEF StartNew, Put, Free, Places, Working, AllStay, Stays
  <2>2. UNCHANGED <<build, updating, system>>
    BY <1>13 DEF StartNew
  <2> QED BY <2>1, <2>2, QuietKeepsJournal DEF Quiet
<1>14. ASSUME NEW c \in Cont, CreateFails(c) PROVE JournalInv' /\ JStep
  <2>1. AllStay
    BY <1>1, <1>14 DEF CreateFails, Create, ErrorAfter, ToLoop, Put, Free, Places, Working, AllStay, Stays
  <2>2. UNCHANGED <<build, updating, system>>
    BY <1>14 DEF CreateFails
  <2> QED BY <2>1, <2>2, QuietKeepsJournal DEF Quiet
<1>15. ASSUME NEW c \in Cont, StartFails(c) PROVE JournalInv' /\ JStep
  <2>1. AllStay
    BY <1>1, <1>15 DEF StartFails, ErrorAfter, ToLoop, Put, Free, Places, Working, AllStay, Stays
  <2>2. UNCHANGED <<build, updating, system>>
    BY <1>15 DEF StartFails
  <2> QED BY <2>1, <2>2, QuietKeepsJournal DEF Quiet
<1>16. ASSUME NEW c \in Cont, Die(c) PROVE JournalInv' /\ JStep
  <2>1. pc'[c] \in Free
    BY <1>1, <1>16 DEF Die, Gone, Put, Free, Places, Working
  <2>2. AllStay
    BY <1>1, <1>16 DEF Die, Gone, Put, Free, Places, Working, AllStay, Stays
  <2>3. UNCHANGED <<build, updating>> /\ Torn(c)
    BY <1>16 DEF Die
  <2> QED BY <2>1, <2>2, <2>3, TornKeepsJournal DEF TornOnly
<1>17. ASSUME NEW c \in Cont, StepFails(c) PROVE JournalInv' /\ JStep
  <2>1. pc'[c] \in Free
    BY <1>1, <1>17 DEF StepFails, ToLoop, Put, Free, Places, Working
  <2>2. AllStay
    BY <1>1, <1>17 DEF StepFails, ToLoop, Put, Free, Places, Working, AllStay, Stays
  <2>3. UNCHANGED <<build, updating>> /\ Torn(c)
    BY <1>17 DEF StepFails
  <2> QED BY <2>1, <2>2, <2>3, TornKeepsJournal DEF TornOnly
<1>18. ASSUME NEW c \in Cont, NEW d \in Cont, KillOld(c, d) PROVE JournalInv' /\ JStep
  <2>1. pc'[d] \in Free
    BY <1>1, <1>18 DEF KillOld, Put, Free, Places, Working
  <2>2. AllStay
    BY <1>1, <1>18 DEF KillOld, Put, Free, Places, Working, AllStay, Stays
  <2>3. UNCHANGED <<build, updating>> /\ Torn(d)
    BY <1>18 DEF KillOld
  <2> QED BY <2>1, <2>2, <2>3, TornKeepsJournal DEF TornOnly
<1>19. ASSUME NEW c \in Cont, NEW d \in Cont, BootKillFails(c, d) PROVE JournalInv' /\ JStep
  <2>1. AllStay
    BY <1>1, <1>19 DEF BootKillFails, Put, TypeOK, Free, Places, Working, AllStay, Stays
  <2>2. /\ UNCHANGED <<build, updating>>
        /\ UNCHANGED system \/ (Torn(d) /\ pc'[d] \in Free)
    BY <1>1, <1>19 DEF BootKillFails, Put, Free, Places, Working
  <2> QED BY <2>1, <2>2, QuietKeepsJournal, TornKeepsJournal DEF Quiet, TornOnly
<1>20. CASE Reboot
  <2>1. AllStay /\ \A e \in Cont : pc'[e] \in Free
    BY <1>1, <1>20 DEF Reboot, Free, Places, Working, AllStay, Stays
  <2>2. UNCHANGED <<build, updating>> /\ (UNCHANGED system \/ \E c \in Cont : Torn(c))
    BY <1>20 DEF Reboot
  <2> QED BY <2>1, <2>2, QuietKeepsJournal, TornKeepsJournal DEF Quiet, TornOnly
<1>21. ASSUME NEW c \in Cont, Background(c) PROVE JournalInv' /\ JStep
  <2>1. PICK to \in {"install", "fetch", "done"} :
          /\ pc' = [pc EXCEPT ![c] = to]
          /\ to = "install" => build = None
          /\ to = "fetch" => updating \in Release
    BY <1>21 DEF Background, Put
  <2>2. UNCHANGED <<build, updating, system>> /\ \A e \in Cont \ {c} : rel'[e] = rel[e]
    BY <1>1, <1>21 DEF Background, Put
  <2> QED BY <1>1, <1>2, <2>1, <2>2 DEF JournalInv, JournalCovers, Journal!JournalCovers, JStep, Journal!jvars
<1>22. ASSUME NEW c \in Cont, DownloadLatest(c) PROVE JournalInv' /\ JStep
  <2>1. pc[c] = "install" /\ pc' = [pc EXCEPT ![c] = "iapps"]
    BY <1>22 DEF DownloadLatest, Put
  <2>2. UNCHANGED <<build, updating, system>> /\ \A e \in Cont \ {c} : rel'[e] = rel[e]
    BY <1>1, <1>22 DEF DownloadLatest, Put
  <2> QED BY <1>1, <1>2, <2>1, <2>2 DEF JournalInv, JournalCovers, Journal!JournalCovers, JStep, Journal!jvars
<1>23. ASSUME NEW c \in Cont, InstallApps(c) PROVE JournalInv' /\ JStep
  <2>1. /\ pc[c] = "iapps" /\ pc' = [pc EXCEPT ![c] = "icommit"] /\ system' = rel[c]
        /\ UNCHANGED <<build, updating, rel>>
    BY <1>23 DEF InstallApps, Put
  <2>2. build = None /\ rel[c] \in Release /\ \A e \in Cont : pc[e] \in Working => e = c
    BY <2>1 DEF JournalInv, TypeInv, Dealing, OneWorker, Working
  <2>3. JournalInv'
    BY <1>1, <1>2, <2>1, <2>2 DEF JournalInv, JournalCovers, Journal!JournalCovers, Working
  <2>4. Journal!Work
    BY <2>1, <2>2 DEF Journal!Work
  <2> QED BY <2>3, <2>4 DEF JStep, Journal!JNext
<1>24. ASSUME NEW c \in Cont, InstallBlocked(c) PROVE JournalInv' /\ JStep
  <2>1. /\ pc[c] = "iapps" /\ pc' = [pc EXCEPT ![c] = "loop"] /\ system' = Mixed
        /\ UNCHANGED <<build, updating>>
    BY <1>24 DEF InstallBlocked, ToLoop, Put
  <2>2. build = None /\ \A e \in Cont : pc[e] \in Working => e = c
    BY <2>1 DEF JournalInv, OneWorker, Working
  <2>3. JournalInv'
    BY <1>1, <1>2, <2>1, <2>2 DEF JournalInv, JournalCovers, Journal!JournalCovers, Working
  <2>4. Journal!Work
    BY <2>1, <2>2 DEF Journal!Work
  <2> QED BY <2>3, <2>4 DEF JStep, Journal!JNext
<1>25. ASSUME NEW c \in Cont, InstallCommit(c) PROVE JournalInv' /\ JStep
  <2>1. /\ pc[c] = "icommit" /\ pc' = [pc EXCEPT ![c] = "loop"] /\ build' = rel[c]
        /\ UNCHANGED <<updating, system>>
    BY <1>25 DEF InstallCommit, ToLoop, Put
  <2>2. /\ build = None /\ system = rel[c] /\ rel[c] \in Release
        /\ \A e \in Cont : pc[e] \in Working => e = c
    BY <2>1 DEF JournalInv, TypeInv, Dealing, OneWorker, Working
  <2>3. JournalInv'
    BY <1>1, <1>2, <2>1, <2>2 DEF JournalInv, JournalCovers, Journal!JournalCovers, Working
  <2>4. Journal!Commit
    BY <2>1, <2>2 DEF Journal!Commit
  <2> QED BY <2>3, <2>4 DEF JStep, Journal!JNext
<1>26. ASSUME NEW c \in Cont, Download(c) PROVE JournalInv' /\ JStep
  <2>1. /\ pc[c] = "task" /\ pc' = [pc EXCEPT ![c] = "upcore"] /\ updating' = rel[c]
        /\ UNCHANGED <<build, system, rel>>
    BY <1>26 DEF Download, Put
  <2>2. rel[c] \in Release
    BY <2>1 DEF TypeInv, Dealing
  <2>3. JournalInv'
    BY <1>1, <1>2, <2>1, <2>2 DEF JournalInv, JournalCovers, Journal!JournalCovers
  <2>4. Journal!Intend(rel[c])
    BY <2>1, <2>2 DEF Journal!Intend
  <2> QED BY <2>2, <2>3, <2>4 DEF JStep, Journal!JNext
<1>27. ASSUME NEW c \in Cont, NEW d \in Cont, CheckCore(c, d) PROVE JournalInv' /\ JStep
  <2>1. PICK to \in {"fetch", "kill"} : pc' = [pc EXCEPT ![c] = to]
    BY <1>27 DEF CheckCore, Put
  <2>2. pc[c] = "upcore" /\ UNCHANGED <<build, updating, system, rel>>
    BY <1>27 DEF CheckCore
  <2> QED BY <1>1, <1>2, <2>1, <2>2 DEF JournalInv, JournalCovers, Journal!JournalCovers, JStep, Journal!jvars
<1>28. ASSUME NEW c \in Cont, Refetch(c) PROVE JournalInv' /\ JStep
  <2>1. pc[c] = "fetch" /\ pc' = [pc EXCEPT ![c] = "apps"]
    BY <1>28 DEF Refetch, Put
  <2>2. UNCHANGED <<build, updating, system>> /\ \A e \in Cont \ {c} : rel'[e] = rel[e]
    BY <1>1, <1>28 DEF Refetch, Put
  <2> QED BY <1>1, <1>2, <2>1, <2>2 DEF JournalInv, JournalCovers, Journal!JournalCovers, JStep, Journal!jvars
<1>29. ASSUME NEW c \in Cont, UpdateApps(c) PROVE JournalInv' /\ JStep
  <2>1. /\ pc[c] = "apps" /\ pc' = [pc EXCEPT ![c] = "setbuild"] /\ system' = rel[c]
        /\ UNCHANGED <<build, updating, rel>>
    BY <1>29 DEF UpdateApps, Put
  <2>2. /\ updating \in Release /\ rel[c] \in Release
        /\ \A e \in Cont : pc[e] \in Working => e = c
    BY <2>1 DEF JournalInv, TypeInv, Dealing, OneWorker, Working
  <2>3. JournalInv'
    BY <1>1, <1>2, <2>1, <2>2 DEF JournalInv, JournalCovers, Journal!JournalCovers, Working
  <2>4. Journal!Work
    BY <1>2, <2>1, <2>2 DEF Journal!Work
  <2> QED BY <2>3, <2>4 DEF JStep, Journal!JNext
<1>30. ASSUME NEW c \in Cont, SetBuild(c) PROVE JournalInv' /\ JStep
  <2>1. /\ pc[c] = "setbuild" /\ pc' = [pc EXCEPT ![c] = "clear"] /\ build' = rel[c]
        /\ UNCHANGED <<updating, system, rel>>
    BY <1>30 DEF SetBuild, Put
  <2>2. /\ updating \in Release /\ system = rel[c] /\ rel[c] \in Release
        /\ \A e \in Cont : pc[e] \in Working => e = c
    BY <2>1 DEF JournalInv, TypeInv, Dealing, OneWorker, Working
  <2>3. JournalInv'
    BY <1>1, <1>2, <2>1, <2>2 DEF JournalInv, JournalCovers, Journal!JournalCovers, Working
  <2>4. Journal!Commit
    BY <1>2, <2>1, <2>2 DEF Journal!Commit
  <2> QED BY <2>3, <2>4 DEF JStep, Journal!JNext
<1>31. ASSUME NEW c \in Cont, ClearUpdating(c) PROVE JournalInv' /\ JStep
  <2>1. /\ pc[c] = "clear" /\ pc' = [pc EXCEPT ![c] = "loop"] /\ updating' = Empty
        /\ UNCHANGED <<build, system>>
    BY <1>31 DEF ClearUpdating, ToLoop, Put
  <2>2. system = build /\ \A e \in Cont : pc[e] \in Working => e = c
    BY <2>1 DEF JournalInv, OneWorker, Working
  <2>3. JournalInv'
    BY <1>1, <1>2, <2>1, <2>2 DEF JournalInv, JournalCovers, Journal!JournalCovers, Working
  <2>4. Journal!Forget
    BY <1>2, <2>1, <2>2 DEF Journal!Forget
  <2> QED BY <2>3, <2>4 DEF JStep, Journal!JNext
<1>32. CASE UNCHANGED <<build, updating, system, pc, rel>>
  BY <1>32, QuietKeepsJournal DEF Quiet, AllStay, Stays
<1> QED
  BY <1>3, <1>4, <1>5, <1>6, <1>7, <1>8, <1>9, <1>10, <1>11, <1>12, <1>13,
     <1>14, <1>15, <1>16, <1>17, <1>18, <1>19, <1>20, <1>21, <1>22, <1>23,
     <1>24, <1>25, <1>26, <1>27, <1>28, <1>29, <1>30, <1>31, <1>32
  DEF Next, Work, Fail, Cron, CronCheck, CronCheckFails, CronQuery, pushManualUpdate,
      Publish, vars

LEMMA JournalInvariant == Spec => []JournalInv
<1>1. Init => JournalInv
  BY JournalInit
<1>2. TypeInv /\ SwapInv /\ JournalInv /\ [Next]_vars => JournalInv'
  BY JournalStep, SwapExcludes DEF TypeInv
<1> QED BY <1>1, <1>2, SwapInvariant, PTL DEF Spec

\* Whatever dies and fails on the way, the settings table is a redo log: apps
\* and doorway change under an intent only, "build" moves to where they are,
\* and the intent goes last (update.go:31-77, 84-126, 249-268, install.go:91-150).
THEOREM UpdateIsJournaled == Spec => JournalSpec
<1>1. Init => Journal!JInit
  BY JournalInit
<1>2. TypeInv /\ SwapInv /\ JournalInv /\ [Next]_vars => [Journal!JNext]_(Journal!jvars)
  BY JournalStep, SwapExcludes DEF TypeInv, JStep
<1> QED BY <1>1, <1>2, SwapInvariant, JournalInvariant, PTL
        DEF Spec, JournalSpec, Journal!JSpec

\* A box whose "build" is not what runs on it has a "build-updating" that names
\* a release, so that the next core finishes the work (update.go:249-268).
THEOREM JournalCovered == Spec => []JournalCovers
  BY JournalInvariant, PTL DEF JournalInv

=============================================================================
