-------------------------- MODULE AppDriversProofs --------------------------
(***************************************************************************)
(* The safety properties of AppDrivers, for any ladder of versions and any *)
(* number of faults, removals and rollbacks, and that the drivers keep     *)
(* what AppChange promises the apps manager.                               *)
(***************************************************************************)
EXTENDS AppDrivers, TLAPS

\* The container of nextcloud, and the version of its data.
Cloud == cont["nextcloud"]
Data == vol["nextcloud"]

\* Whose Change runs; nextcloud's installs it, upgrades it, or removes it.
On(a) == pc # "idle" /\ job.app = a
Installing == On("nextcloud") /\ job.from = None
Upgrading == On("nextcloud") /\ job.from # None /\ job.to # None

\* The variables that are true or false.
Booleans == routed \in BOOLEAN /\ raced \in BOOLEAN /\ lowered \in BOOLEAN

\* The values of the others.
Types ==
    /\ rel \in Version /\ rec \in [App -> OptVersion]
    /\ cont \in [App -> {None} \cup Container]
    /\ vol \in [App -> {None, Empty} \cup Version]
    /\ db \subseteq {"database", "role"}
    /\ secrets \subseteq App /\ hint \in OptVersion
    /\ flags \subseteq Version
    /\ rung \in {None} \cup MinVersion .. MaxVersion + 1
    /\ faults \in 0 .. MaxTroubles /\ removals \in 0 .. MaxTroubles
    /\ rollbacks \in 0 .. MaxTroubles /\ top \in {0} \cup Version

\* Which app, from what and to what each call of a Change is for.
Jobs ==
    /\ pc \in {"idle", "config", "read", "createdb", "createrole", "drop", "password",
               "create", "copy", "undo", "failed", "start", "wait", "redispass", "fix",
               "flag", "hint", "domains", "undomain", "dropdb", "droprole", "rmvol", "done"}
    /\ pc = "idle" => job = NoJob
    /\ pc # "idle" => job \in Job /\ job.from = rec[job.app]
    /\ pc \in {"config", "read", "createdb", "createrole", "redispass", "fix", "flag",
               "hint", "domains", "undomain", "dropdb", "droprole"} => job.app = "nextcloud"
    /\ pc = "password" => job.app \in {"redis", "postgres"}
    /\ pc \in {"copy", "undo", "failed"} => job.app = "redis"
    /\ pc = "wait" => HasVolume(job.app)
    /\ pc = "rmvol" => job.app # "ncfront"
    /\ pc \in {"undomain", "dropdb", "droprole", "rmvol"} => job.to = None
    /\ pc \in {"config", "read", "createdb", "createrole", "password", "create", "copy",
               "undo", "failed", "start", "wait", "redispass", "fix", "flag", "hint",
               "domains"} => job.to # None
    /\ pc # "idle" => job.from # None \/ job.to # None
    /\ pc \in {"createdb", "createrole"} => job.from = None
    /\ pc \in {"drop", "read", "redispass", "hint"} => job.from # None

\* Only an upgrade of nextcloud is on a rung; until it is over, on one of its ladder.
Rungs ==
    /\ rung # None => Upgrading
    /\ Upgrading /\ pc \in {"drop", "create", "start", "wait", "redispass", "fix", "flag",
                            "hint"} => rung \in Ladder(job.to)

\* Nothing of nextcloud is newer than what it was once asked for.
Bounds ==
    /\ rec["nextcloud"] # None => rec["nextcloud"] <= top
    /\ hint # None => hint <= top
    /\ Data \in Version => Data <= top
    /\ Cloud # None => Cloud.image <= top
    /\ On("nextcloud") /\ job.to # None => job.to <= top

\* What the calls so far have done to the container and the volume of the app.
Conts ==
    /\ \A a \in App : HasVolume(a) /\ cont[a] # None => vol[a] # None
    /\ \A a \in App : ~ HasVolume(a) => vol[a] = None
    /\ pc \in {"copy", "undo", "start"} =>
           /\ cont[job.app] # None /\ cont[job.app].state = "created"
           /\ cont[job.app].image = Target
    /\ pc \in {"dropdb", "droprole", "rmvol"} => cont[job.app] = None
    /\ pc \in {"password", "create"} /\ job.from # None => cont[job.app] = None
    /\ pc = "done" /\ job.to = None => cont[job.app] = None /\ vol[job.app] = None
    /\ pc = "wait" => Launched(job.app)
    /\ pc \in {"wait", "done"} /\ job.to # None /\ job.app # "nextcloud" =>
           Launched(job.app) /\ cont[job.app].image = job.to
    /\ Running("nextcloud") => Data = Cloud.image
    /\ pc \in {"redispass", "fix", "flag", "hint"} => Running("nextcloud") /\ Data = Target
    /\ On("nextcloud") /\ pc \in {"domains", "done"} /\ job.to # None =>
           \/ Running("nextcloud") /\ Data = job.to
           \/ job.from # None /\ job.to < top

\* What is known of the version of nextcloud when its container can not tell.
Known == IF hint # None THEN hint ELSE rec["nextcloud"]

\* A hint that has outlived a removal tells nothing of the data.
Stale(v) == removals > 0 /\ v = hint

\* But for such a hint, it is at most one rung ahead of the data, or of the container
\* that is to write the data; and so is the rung that an upgrade goes on to.
Reach ==
    /\ Cloud # None /\ Data \in Version => Cloud.image <= Data + 1 \/ Stale(Cloud.image)
    /\ rec["nextcloud"] = None /\ Data \in Version => Cloud # None
    /\ Known # None /\ Data \in Version => Known <= Data + 1 \/ Stale(Known)
    /\ Known # None /\ Data = Empty /\ Cloud # None =>
           Known <= Cloud.image + 1 \/ Stale(Known)
    /\ Upgrading /\ pc \in {"drop", "create"} =>
           IF Data \in Version THEN rung <= Data + 1 \/ Stale(rung) ELSE rung = Known
    /\ Upgrading /\ pc \in {"domains", "done"} /\ hint = None =>
           /\ Data \in Version => job.to <= Data + 1
           /\ Data = Empty /\ Cloud # None => job.to <= Cloud.image + 1

\* As long as nothing is removed: what nextcloud needs is there.
Complete == db = {"database", "role"}

Kept ==
    /\ pc = "createrole" => "database" \in db
    /\ removals = 0 =>
        /\ pc # "idle" => job.to # None
        /\ rec["nextcloud"] = None => hint = None
        /\ rec["nextcloud"] # None \/ On("nextcloud") => rec["postgres"] # None
        /\ rec["nextcloud"] # None \/ Cloud # None => Complete
        /\ Installing => pc \in {"config", "createdb", "createrole"} \/ Complete

\* postgres takes any data; without a fault or a removal it is up, unless it is being
\* changed.
Postgres ==
    /\ ~ Refused("postgres")
    /\ faults = 0 /\ removals = 0 /\ rec["postgres"] # None =>
           Launched("postgres") \/ (On("postgres") /\ pc \in {"password", "create", "start"})

\* As long as none of what OneFaultRecovers excuses has happened: nextcloud is not below
\* its data; where what is known of its version is behind, its container can tell, or
\* the one fault has been spent and the upgrade that runs knows better.
Calm == faults < 2 /\ removals = 0 /\ raced = FALSE /\ (lowered = FALSE \/ hint # None)
InSync == Known # None /\ Data <= Known

Sync == Calm =>
    /\ ~ Refused("nextcloud")
    /\ Cloud # None /\ Data \in Version => Data <= Cloud.image
    /\ Upgrading /\ pc \in {"drop", "create"} /\ Data \in Version => Data <= rung
    /\ Data \in Version =>
        \/ InSync \/ Launched("nextcloud")
        \/ faults = 1 /\ Upgrading /\ pc \in {"drop", "create", "start"}
    /\ faults = 0 /\ Data \in Version =>
        \/ InSync
        \/ On("nextcloud") /\ pc \in {"wait", "redispass", "fix", "flag", "hint"}
        \/ Installing /\ pc \in {"domains", "done"}
    /\ pc = "drop" /\ On("nextcloud") /\ Cloud # None => Cloud.state # "started"
    /\ faults = 0 /\ Cloud # None /\ Cloud.state = "started" =>
           On("nextcloud") /\ pc = "wait"
-----------------------------------------------------------------------------
\* Every step keeps the booleans.
LEMMA BooleansStep ==
    ASSUME Booleans, [Next]_vars
    PROVE  Booleans'
<1> USE Zenon DEF Booleans, settings, worker, history
<1>1. ASSUME NEW a \in App, Update(a) \/ Reinstall(a) \/ Uninstall(a)
      PROVE Booleans'
    BY <1>1 DEF Update, Reinstall, Uninstall, Begin, Entry
<1>2. ASSUME NEW a \in App, Boot(a) PROVE Booleans' BY <1>2 DEF Boot
<1>3. CASE setRelease BY <1>3 DEF setRelease
<1>4. CASE DropIfExists BY <1>4 DEF DropIfExists, AfterDrop
<1>5. CASE ReadPasswordOrSetRandom BY <1>5 DEF ReadPasswordOrSetRandom
<1>6. CASE createCont BY <1>6 DEF createCont
<1>7. CASE writeConfig BY <1>7 DEF writeConfig
<1>8. CASE Start BY <1>8 DEF Start
<1>9. CASE RemoveVolume BY <1>9 DEF RemoveVolume
<1>10. CASE waitDB BY <1>10 DEF waitDB
<1>11. CASE Save BY <1>11 DEF Save
<1>12. CASE loadConfig BY <1>12 DEF loadConfig
<1>13. CASE readVersion BY <1>13 DEF readVersion
<1>14. CASE waitReady BY <1>14 DEF waitReady
<1>15. CASE setRedisPassword BY <1>15 DEF setRedisPassword
<1>16. CASE fixVersion BY <1>16 DEF fixVersion
<1>17. CASE setVersionHint BY <1>17 DEF setVersionHint
<1>18. CASE registerDomains BY <1>18 DEF registerDomains
<1>19. CASE createDB BY <1>19 DEF createDB
<1>20. CASE dropDB BY <1>20 DEF dropDB
<1>21. CASE Error BY <1>21 DEF Error
<1>22. CASE CutOff BY <1>22 DEF CutOff
<1>23. CASE Reboot BY <1>23 DEF Reboot
<1>24. CASE UNCHANGED vars BY <1>24 DEF vars
<1> QED
    BY <1>1, <1>2, <1>3, <1>4, <1>5, <1>6, <1>7, <1>8, <1>9, <1>10, <1>11, <1>12,
       <1>13, <1>14, <1>15, <1>16, <1>17,
       <1>18, <1>19, <1>20, <1>21, <1>22, <1>23, <1>24
       DEF Next, Step

\* Every step keeps each variable in its type.
LEMMA TypesStep ==
    ASSUME Types, Jobs, Rungs, Conts, [Next]_vars
    PROVE  Types'
<1> USE VersionAssumption
    DEF Types, Jobs, At, Goto, Stop, settings, worker, history, Rungs, Job, Container,
        OptVersion, Version, Ladder, Running, Target, MoreTrouble, Conts, On, Upgrading,
        Data
<1>1. ASSUME NEW a \in App, Update(a) \/ Reinstall(a) \/ Uninstall(a)
      PROVE Types'
    BY <1>1 DEF Update, Reinstall, Uninstall, Begin, Entry
<1>2. ASSUME NEW a \in App, Boot(a) PROVE Types' BY <1>2 DEF Boot
<1>3. CASE setRelease BY <1>3 DEF setRelease
<1>4. CASE DropIfExists BY <1>4 DEF DropIfExists, AfterDrop
<1>5. CASE ReadPasswordOrSetRandom BY <1>5 DEF ReadPasswordOrSetRandom
<1>6. CASE createCont BY <1>6 DEF createCont
<1>7. CASE writeConfig BY <1>7 DEF writeConfig
<1>8. CASE Start BY <1>8 DEF Start
<1>9. CASE RemoveVolume BY <1>9 DEF RemoveVolume
<1>10. CASE waitDB BY <1>10 DEF waitDB
<1>11. CASE Save BY <1>11 DEF Save
<1>12. CASE loadConfig BY <1>12 DEF loadConfig
<1>13. CASE readVersion BY <1>13 DEF readVersion
<1>14. CASE waitReady BY <1>14 DEF waitReady
<1>15. CASE setRedisPassword BY <1>15 DEF setRedisPassword
<1>16. CASE fixVersion BY <1>16 DEF fixVersion
<1>17. CASE setVersionHint BY <1>17 DEF setVersionHint
<1>18. CASE registerDomains BY <1>18 DEF registerDomains
<1>19. CASE createDB BY <1>19 DEF createDB
<1>20. CASE dropDB BY <1>20 DEF dropDB
<1>21. CASE Error BY <1>21 DEF Error
<1>22. CASE CutOff BY <1>22 DEF CutOff
<1>23. CASE Reboot BY <1>23 DEF Reboot
<1>24. CASE UNCHANGED vars BY <1>24 DEF vars
<1> QED
    BY <1>1, <1>2, <1>3, <1>4, <1>5, <1>6, <1>7, <1>8, <1>9, <1>10, <1>11, <1>12,
       <1>13, <1>14, <1>15, <1>16, <1>17,
       <1>18, <1>19, <1>20, <1>21, <1>22, <1>23, <1>24
       DEF Next, Step

\* Every step makes its call with the arguments that the code gives it.
LEMMA JobsStep ==
    ASSUME Types, Jobs, Rungs, [Next]_vars
    PROVE  Jobs'
<1> USE VersionAssumption DEF Types, Jobs, At, Goto, Stop, worker, Job, OptVersion
<1>1. ASSUME NEW a \in App, Update(a) \/ Reinstall(a) \/ Uninstall(a)
      PROVE Jobs'
    BY <1>1 DEF Update, Reinstall, Uninstall, Begin, Entry
<1>2. ASSUME NEW a \in App, Boot(a) PROVE Jobs' BY <1>2 DEF Boot
<1>3. CASE setRelease BY <1>3 DEF setRelease
<1>4. CASE DropIfExists BY <1>4 DEF DropIfExists, AfterDrop
<1>5. CASE ReadPasswordOrSetRandom BY <1>5 DEF ReadPasswordOrSetRandom
<1>6. CASE createCont BY <1>6 DEF createCont
<1>7. CASE writeConfig BY <1>7 DEF writeConfig
<1>8. CASE Start BY <1>8 DEF Start
<1>9. CASE RemoveVolume BY <1>9 DEF RemoveVolume
<1>10. CASE waitDB BY <1>10 DEF waitDB
<1>11. CASE Save BY <1>11 DEF Save
<1>12. CASE loadConfig BY <1>12 DEF loadConfig
<1>13. CASE readVersion BY <1>13 DEF readVersion, Climb
<1>14. CASE waitReady BY <1>14 DEF waitReady, AfterReady
<1>15. CASE setRedisPassword BY <1>15 DEF setRedisPassword
<1>16. CASE fixVersion BY <1>16 DEF fixVersion, AfterFix
<1>17. CASE setVersionHint BY <1>17 DEF setVersionHint, Climb
<1>18. CASE registerDomains BY <1>18 DEF registerDomains
<1>19. CASE createDB BY <1>19 DEF createDB
<1>20. CASE dropDB BY <1>20 DEF dropDB
<1>21. CASE Error BY <1>21 DEF Error
<1>22. CASE CutOff BY <1>22 DEF CutOff
<1>23. CASE Reboot BY <1>23 DEF Reboot
<1>24. CASE UNCHANGED vars BY <1>24 DEF vars
<1> QED
    BY <1>1, <1>2, <1>3, <1>4, <1>5, <1>6, <1>7, <1>8, <1>9, <1>10, <1>11, <1>12,
       <1>13, <1>14, <1>15, <1>16, <1>17,
       <1>18, <1>19, <1>20, <1>21, <1>22, <1>23, <1>24
       DEF Next, Step

\* Only an upgrade of nextcloud is on a rung, and until it is over on one of its ladder.
LEMMA RungsStep ==
    ASSUME Types, Jobs, Rungs, [Next]_vars
    PROVE  Rungs'
<1> USE VersionAssumption DEF Types, Jobs, At, Goto, Stop, worker, Rungs, On, Upgrading
<1>1. ASSUME NEW a \in App, Update(a) \/ Reinstall(a) \/ Uninstall(a)
      PROVE Rungs'
    BY <1>1 DEF Update, Reinstall, Uninstall, Begin, Entry
<1>2. ASSUME NEW a \in App, Boot(a) PROVE Rungs' BY <1>2 DEF Boot
<1>3. CASE setRelease BY <1>3 DEF setRelease
<1>4. CASE DropIfExists BY <1>4 DEF DropIfExists, AfterDrop
<1>5. CASE ReadPasswordOrSetRandom BY <1>5 DEF ReadPasswordOrSetRandom
<1>6. CASE createCont BY <1>6 DEF createCont
<1>7. CASE writeConfig BY <1>7 DEF writeConfig
<1>8. CASE Start BY <1>8 DEF Start
<1>9. CASE RemoveVolume BY <1>9 DEF RemoveVolume
<1>10. CASE waitDB BY <1>10 DEF waitDB
<1>11. CASE Save BY <1>11 DEF Save
<1>12. CASE loadConfig BY <1>12 DEF loadConfig
<1>13. CASE readVersion BY <1>13 DEF readVersion, Climb
<1>14. CASE waitReady BY <1>14 DEF waitReady, AfterReady
<1>15. CASE setRedisPassword BY <1>15 DEF setRedisPassword
<1>16. CASE fixVersion BY <1>16 DEF fixVersion, AfterFix
<1>17. CASE setVersionHint BY <1>17 DEF setVersionHint, Climb
<1>18. CASE registerDomains BY <1>18 DEF registerDomains
<1>19. CASE createDB BY <1>19 DEF createDB
<1>20. CASE dropDB BY <1>20 DEF dropDB
<1>21. CASE Error BY <1>21 DEF Error
<1>22. CASE CutOff BY <1>22 DEF CutOff
<1>23. CASE Reboot BY <1>23 DEF Reboot
<1>24. CASE UNCHANGED vars BY <1>24 DEF vars
<1> QED
    BY <1>1, <1>2, <1>3, <1>4, <1>5, <1>6, <1>7, <1>8, <1>9, <1>10, <1>11, <1>12,
       <1>13, <1>14, <1>15, <1>16, <1>17,
       <1>18, <1>19, <1>20, <1>21, <1>22, <1>23, <1>24
       DEF Next, Step

\* Nothing of nextcloud gets ahead of what was asked for.
LEMMA BoundsStep ==
    ASSUME Types, Jobs, Rungs, Bounds, Conts, [Next]_vars
    PROVE  Bounds'
<1> USE VersionAssumption
    DEF Types, Jobs, At, Goto, Stop, settings, worker, history, Rungs, Bounds, Conts, OptVersion,
        Container, Version, Ladder, Cloud, Data, Target, Running, On, Upgrading, Job
<1>1. ASSUME NEW a \in App, Update(a) \/ Reinstall(a) \/ Uninstall(a)
      PROVE Bounds'
    BY <1>1 DEF Update, Reinstall, Uninstall, Begin, Entry
<1>2. ASSUME NEW a \in App, Boot(a) PROVE Bounds' BY <1>2 DEF Boot
<1>3. CASE setRelease BY <1>3 DEF setRelease
<1>4. CASE DropIfExists BY <1>4 DEF DropIfExists, AfterDrop
<1>5. CASE ReadPasswordOrSetRandom BY <1>5 DEF ReadPasswordOrSetRandom
<1>6. CASE createCont BY <1>6 DEF createCont
<1>7. CASE writeConfig BY <1>7 DEF writeConfig
<1>8. CASE Start BY <1>8 DEF Start
<1>9. CASE RemoveVolume BY <1>9 DEF RemoveVolume
<1>10. CASE waitDB BY <1>10 DEF waitDB
<1>11. CASE Save BY <1>11 DEF Save
<1>12. CASE loadConfig BY <1>12 DEF loadConfig
<1>13. CASE readVersion BY <1>13 DEF readVersion, Climb
<1>14. CASE waitReady BY <1>14 DEF waitReady, AfterReady
<1>15. CASE setRedisPassword BY <1>15 DEF setRedisPassword
<1>16. CASE fixVersion BY <1>16 DEF fixVersion, AfterFix
<1>17. CASE setVersionHint BY <1>17 DEF setVersionHint, Climb
<1>18. CASE registerDomains BY <1>18 DEF registerDomains
<1>19. CASE createDB BY <1>19 DEF createDB
<1>20. CASE dropDB BY <1>20 DEF dropDB
<1>21. CASE Error BY <1>21 DEF Error
<1>22. CASE CutOff BY <1>22 DEF CutOff
<1>23. CASE Reboot BY <1>23 DEF Reboot
<1>24. CASE UNCHANGED vars BY <1>24 DEF vars
<1> QED
    BY <1>1, <1>2, <1>3, <1>4, <1>5, <1>6, <1>7, <1>8, <1>9, <1>10, <1>11, <1>12,
       <1>13, <1>14, <1>15, <1>16, <1>17,
       <1>18, <1>19, <1>20, <1>21, <1>22, <1>23, <1>24
       DEF Next, Step

\* Every call finds the container that the calls before it have left.
LEMMA ContsStep ==
    ASSUME Types, Jobs, Rungs, Bounds, Conts, [Next]_vars
    PROVE  Conts'
<1> USE VersionAssumption
    DEF Types, Jobs, At, Goto, Stop, worker, history, Rungs, Bounds, Conts, Job, OptVersion,
        Container, Version, Ladder, HasVolume, On, Upgrading, Cloud, Data, Target,
        Running, Launched
<1>1. ASSUME NEW a \in App, Update(a) \/ Reinstall(a) \/ Uninstall(a)
      PROVE Conts'
    BY <1>1 DEF Update, Reinstall, Uninstall, Begin, Entry
<1>2. ASSUME NEW a \in App, Boot(a) PROVE Conts' BY <1>2 DEF Boot
<1>3. CASE setRelease BY <1>3 DEF setRelease
<1>4. CASE DropIfExists BY <1>4 DEF DropIfExists, AfterDrop
<1>5. CASE ReadPasswordOrSetRandom BY <1>5 DEF ReadPasswordOrSetRandom
<1>6. CASE createCont BY <1>6 DEF createCont
<1>7. CASE writeConfig BY <1>7 DEF writeConfig
<1>8. CASE Start BY <1>8 DEF Start
<1>9. CASE RemoveVolume BY <1>9 DEF RemoveVolume
<1>10. CASE waitDB BY <1>10 DEF waitDB
<1>11. CASE Save BY <1>11 DEF Save
<1>12. CASE loadConfig BY <1>12 DEF loadConfig
<1>13. CASE readVersion BY <1>13 DEF readVersion, Climb
<1>14. CASE waitReady BY <1>14 DEF waitReady, AfterReady
<1>15. CASE setRedisPassword BY <1>15 DEF setRedisPassword
<1>16. CASE fixVersion BY <1>16 DEF fixVersion, AfterFix
<1>17. CASE setVersionHint BY <1>17 DEF setVersionHint, Climb
<1>18. CASE registerDomains BY <1>18 DEF registerDomains
<1>19. CASE createDB BY <1>19 DEF createDB
<1>20. CASE dropDB BY <1>20 DEF dropDB
<1>21. CASE Error BY <1>21 DEF Error
<1>22. CASE CutOff BY <1>22 DEF CutOff
<1>23. CASE Reboot BY <1>23 DEF Reboot
<1>24. CASE UNCHANGED vars BY <1>24 DEF vars
<1> QED
    BY <1>1, <1>2, <1>3, <1>4, <1>5, <1>6, <1>7, <1>8, <1>9, <1>10, <1>11, <1>12,
       <1>13, <1>14, <1>15, <1>16, <1>17,
       <1>18, <1>19, <1>20, <1>21, <1>22, <1>23, <1>24
       DEF Next, Step

\* Every step keeps what is known of the version of nextcloud within one rung of its data.
LEMMA ReachStep ==
    ASSUME Types, Jobs, Rungs, Bounds, Conts, Reach, Kept, [Next]_vars
    PROVE  Reach'
<1> USE VersionAssumption
    DEF Types, Jobs, At, Goto, Stop, settings, worker, history, Rungs, Bounds, Conts, Reach,
        OptVersion, Container, Version, Ladder, HasVolume, On, Upgrading, Known, Cloud,
        Data, Target, Running, Stale
<1>1. ASSUME NEW a \in App, Update(a) \/ Reinstall(a) \/ Uninstall(a)
      PROVE Reach'
    BY <1>1 DEF Update, Reinstall, Uninstall, Begin, Entry
<1>2. ASSUME NEW a \in App, Boot(a) PROVE Reach'
    <2>1. UNCHANGED <<rec, hint, removals, job, pc, rung>> BY <1>2 DEF Boot
    <2>2. CASE a # "nextcloud"
        <3>1. Cloud' = Cloud /\ Data' = Data BY <1>2, <2>2 DEF Boot
        <3> QED BY <2>1, <3>1
    <2>3. CASE a = "nextcloud"
        <3>1. Cloud # None /\ Cloud' # None /\ Cloud'.image = Cloud.image
            BY <1>2, <2>3 DEF Boot
        <3>2. \/ Data' = Data
              \/ Data' = Cloud.image /\ Data \in {Empty, Cloud.image, Cloud.image - 1}
            BY <1>2, <2>3 DEF Boot
        <3>3. CASE Data' = Data BY <2>1, <3>1, <3>3
        <3>4. CASE Data' = Cloud.image /\ Data \in {Empty, Cloud.image, Cloud.image - 1}
            <4>1. Cloud.image \in Version BY <3>1
            <4>2. Known # None => Known <= Cloud.image + 1 \/ Stale(Known)
                BY <3>1, <3>4, <4>1
            <4>3. Upgrading /\ pc \in {"drop", "create"} =>
                      rung <= Cloud.image + 1 \/ Stale(rung)
                BY <3>1, <3>4, <4>1, <4>2
            <4>4. Upgrading /\ pc \in {"domains", "done"} /\ hint = None =>
                      job.to <= Cloud.image + 1
                BY <3>1, <3>4, <4>1 DEF Job
            <4> QED BY <2>1, <3>1, <3>4, <4>1, <4>2, <4>3, <4>4
        <3> QED BY <3>2, <3>3, <3>4
    <2> QED BY <2>2, <2>3
<1>3. CASE setRelease BY <1>3 DEF setRelease
<1>4. CASE DropIfExists BY <1>4 DEF DropIfExists, AfterDrop
<1>5. CASE ReadPasswordOrSetRandom BY <1>5 DEF ReadPasswordOrSetRandom
<1>6. CASE createCont
    <2>1. /\ UNCHANGED <<rec, hint, removals, job, rung>> /\ pc = "create"
          /\ pc' \in {"copy", "start"} /\ cont[job.app] = None
        BY <1>6 DEF createCont
    <2>2. CASE job.app # "nextcloud"
        <3>1. Cloud' = Cloud /\ Data' = Data BY <1>6, <2>2 DEF createCont
        <3> QED BY <2>1, <2>2, <3>1
    <2>3. CASE job.app = "nextcloud"
        <3>1. /\ Cloud = None /\ Cloud' # None /\ Cloud'.image = Target
              /\ Data' = IF Data = None THEN Empty ELSE Data
            <4>1. Target \in Version BY <2>1, <2>3 DEF Job
            <4>2. Cloud' = [image |-> Target, state |-> "created"]
                BY <1>6, <2>3 DEF createCont
            <4>3. Data' = IF Data = None THEN Empty ELSE Data
                BY <1>6, <2>3 DEF createCont
            <4>4. Cloud' \in Container BY <4>1, <4>2
            <4> QED BY <2>1, <2>3, <4>2, <4>3, <4>4
        <3>2. job.from = rec["nextcloud"] /\ job.to # None BY <2>1, <2>3
        <3>3. CASE job.from = None
            <4>1. Data \notin Version BY <3>1, <3>2, <3>3
            <4>2. Known # None => Stale(Known) BY <3>2, <3>3 DEF Kept
            <4> QED BY <2>1, <3>1, <3>2, <3>3, <4>1, <4>2
        <3>4. CASE job.from # None
            <4>1. Upgrading /\ rung # None /\ Target = rung BY <2>1, <2>3, <3>2, <3>4
            <4> QED BY <2>1, <3>1, <3>2, <3>4, <4>1
        <3> QED BY <3>3, <3>4
    <2> QED BY <2>2, <2>3
<1>7. CASE writeConfig BY <1>7 DEF writeConfig
<1>8. CASE Start BY <1>8 DEF Start
<1>9. CASE RemoveVolume BY <1>9 DEF RemoveVolume
<1>10. CASE waitDB BY <1>10 DEF waitDB
<1>11. CASE Save BY <1>11 DEF Save
<1>12. CASE loadConfig BY <1>12 DEF loadConfig
<1>13. CASE readVersion
    <2>1. /\ UNCHANGED <<rec, cont, vol, hint, removals, job>>
          /\ Upgrading /\ job.from = rec["nextcloud"]
          /\ pc = "read" /\ pc' = IF rung' \in Ladder(job.to) THEN "drop" ELSE "domains"
        BY <1>13 DEF readVersion, Climb
    <2>2. (Data \in Version /\ rung' = Data) \/ rung' = Known
        BY <1>13, <2>1 DEF readVersion
    <2>3. Known \in Version BY <2>1
    <2>4. Data \in Version => rung' <= Data + 1 \/ Stale(rung')
        BY <2>2, <2>3
    <2>5. CASE rung' \in Ladder(job.to) BY <2>1, <2>2, <2>4, <2>5
    <2>6. CASE rung' \notin Ladder(job.to)
        <3>1. pc' = "domains" /\ job.to \in Version /\ job.to < rung'
            BY <2>1, <2>2, <2>3, <2>6 DEF Job
        <3>2. hint = None => /\ Data \in Version => job.to <= Data + 1
                             /\ Data = Empty /\ Cloud # None => job.to <= Cloud.image + 1
            BY <2>2, <2>3, <3>1
        <3> QED BY <2>1, <3>1, <3>2
    <2> QED BY <2>5, <2>6
<1>14. CASE waitReady BY <1>14 DEF waitReady, AfterReady
<1>15. CASE setRedisPassword BY <1>15 DEF setRedisPassword
<1>16. CASE fixVersion BY <1>16 DEF fixVersion, AfterFix
<1>17. CASE setVersionHint BY <1>17 DEF setVersionHint, Climb
<1>18. CASE registerDomains BY <1>18 DEF registerDomains
<1>19. CASE createDB BY <1>19 DEF createDB
<1>20. CASE dropDB BY <1>20 DEF dropDB
<1>21. CASE Error BY <1>21 DEF Error
<1>22. CASE CutOff BY <1>22 DEF CutOff
<1>23. CASE Reboot BY <1>23 DEF Reboot
<1>24. CASE UNCHANGED vars BY <1>24 DEF vars
<1> QED
    BY <1>1, <1>2, <1>3, <1>4, <1>5, <1>6, <1>7, <1>8, <1>9, <1>10, <1>11, <1>12,
       <1>13, <1>14, <1>15, <1>16, <1>17,
       <1>18, <1>19, <1>20, <1>21, <1>22, <1>23, <1>24
       DEF Next, Step

\* As long as nothing is removed, nextcloud keeps its database and what it depends on.
LEMMA KeptStep ==
    ASSUME Types, Jobs, Rungs, Bounds, Conts, Kept, [Next]_vars
    PROVE  Kept'
<1> USE VersionAssumption
    DEF Types, Jobs, At, Goto, Stop, settings, worker, history, Kept, Complete,
        OptVersion, Version, On, Installing, Cloud, Running
<1>1. ASSUME NEW a \in App, Update(a) \/ Reinstall(a) \/ Uninstall(a)
      PROVE Kept'
    BY <1>1 DEF Update, Reinstall, Uninstall, Begin, Entry
<1>2. ASSUME NEW a \in App, Boot(a) PROVE Kept' BY <1>2 DEF Boot
<1>3. CASE setRelease BY <1>3 DEF setRelease
<1>4. CASE DropIfExists BY <1>4 DEF DropIfExists, AfterDrop
<1>5. CASE ReadPasswordOrSetRandom BY <1>5 DEF ReadPasswordOrSetRandom
<1>6. CASE createCont BY <1>6 DEF createCont
<1>7. CASE writeConfig BY <1>7 DEF writeConfig
<1>8. CASE Start BY <1>8 DEF Start
<1>9. CASE RemoveVolume BY <1>9 DEF RemoveVolume
<1>10. CASE waitDB BY <1>10 DEF waitDB
<1>11. CASE Save BY <1>11 DEF Save
<1>12. CASE loadConfig BY <1>12 DEF loadConfig
<1>13. CASE readVersion BY <1>13 DEF readVersion, Climb
<1>14. CASE waitReady BY <1>14 DEF waitReady, AfterReady
<1>15. CASE setRedisPassword BY <1>15 DEF setRedisPassword
<1>16. CASE fixVersion BY <1>16 DEF fixVersion, AfterFix
<1>17. CASE setVersionHint BY <1>17 DEF setVersionHint, Climb
<1>18. CASE registerDomains BY <1>18 DEF registerDomains
<1>19. CASE createDB BY <1>19 DEF createDB
<1>20. CASE dropDB BY <1>20 DEF dropDB
<1>21. CASE Error BY <1>21 DEF Error
<1>22. CASE CutOff BY <1>22 DEF CutOff
<1>23. CASE Reboot BY <1>23 DEF Reboot
<1>24. CASE UNCHANGED vars BY <1>24 DEF vars
<1> QED
    BY <1>1, <1>2, <1>3, <1>4, <1>5, <1>6, <1>7, <1>8, <1>9, <1>10, <1>11, <1>12,
       <1>13, <1>14, <1>15, <1>16, <1>17,
       <1>18, <1>19, <1>20, <1>21, <1>22, <1>23, <1>24
       DEF Next, Step

\* Without a fault or a removal, postgres is up unless it is being changed.
LEMMA PostgresStep ==
    ASSUME Types, Jobs, Rungs, Bounds, Conts, Kept, Postgres, [Next]_vars
    PROVE  Postgres'
<1> USE VersionAssumption
    DEF Types, Jobs, At, Goto, worker, history, Conts, Kept, Postgres, Blocked, Refused,
        Container, On, Launched
<1>1. ASSUME NEW a \in App, Update(a) \/ Reinstall(a) \/ Uninstall(a)
      PROVE Postgres'
    BY <1>1 DEF Update, Reinstall, Uninstall, Begin, Entry
<1>2. ASSUME NEW a \in App, Boot(a) PROVE Postgres' BY <1>2 DEF Boot
<1>3. CASE setRelease BY <1>3 DEF setRelease
<1>4. CASE DropIfExists BY <1>4 DEF DropIfExists, AfterDrop
<1>5. CASE ReadPasswordOrSetRandom BY <1>5 DEF ReadPasswordOrSetRandom
<1>6. CASE createCont BY <1>6 DEF createCont
<1>7. CASE writeConfig BY <1>7 DEF writeConfig
<1>8. CASE Start BY <1>8 DEF Start
<1>9. CASE RemoveVolume BY <1>9 DEF RemoveVolume
<1>10. CASE waitDB BY <1>10 DEF waitDB
<1>11. CASE Save BY <1>11 DEF Save
<1>12. CASE loadConfig BY <1>12 DEF loadConfig
<1>13. CASE readVersion BY <1>13 DEF readVersion, Climb
<1>14. CASE waitReady BY <1>14 DEF waitReady, AfterReady
<1>15. CASE setRedisPassword BY <1>15 DEF setRedisPassword
<1>16. CASE fixVersion BY <1>16 DEF fixVersion, AfterFix
<1>17. CASE setVersionHint BY <1>17 DEF setVersionHint, Climb
<1>18. CASE registerDomains BY <1>18 DEF registerDomains
<1>19. CASE createDB BY <1>19 DEF createDB
<1>20. CASE dropDB BY <1>20 DEF dropDB
<1>21. CASE Error BY <1>21 DEF Error
<1>22. CASE CutOff BY <1>22 DEF CutOff
<1>23. CASE Reboot BY <1>23 DEF Reboot
<1>24. CASE UNCHANGED vars BY <1>24 DEF vars
<1> QED
    BY <1>1, <1>2, <1>3, <1>4, <1>5, <1>6, <1>7, <1>8, <1>9, <1>10, <1>11, <1>12,
       <1>13, <1>14, <1>15, <1>16, <1>17,
       <1>18, <1>19, <1>20, <1>21, <1>22, <1>23, <1>24
       DEF Next, Step

\* One fault does not put nextcloud below its data.
LEMMA SyncStep ==
    ASSUME Booleans, Types, Jobs, Rungs, Bounds, Conts, Reach, Kept, Postgres, Sync,
           [Next]_vars
    PROVE  Sync'
<1> USE VersionAssumption
    DEF Types, Jobs, At, Goto, Stop, settings, worker, history, Rungs, Conts, Reach, Kept,
        Complete, Postgres, Sync, Calm, InSync, Known, Blocked, Refused, Container,
        Version, Ladder, HasVolume, On, Upgrading, Installing, Cloud, Data, Target,
        Running, Launched
<1>1. ASSUME NEW a \in App, Update(a) \/ Reinstall(a) \/ Uninstall(a)
      PROVE Sync'
    BY <1>1 DEF Update, Reinstall, Uninstall, Begin, Entry
<1>2. ASSUME NEW a \in App, Boot(a) PROVE Sync'
    <2>1. UNCHANGED <<rec, hint, faults, removals, raced, lowered, job, pc, rung>>
        BY <1>2 DEF Boot
    <2>2. CASE a # "nextcloud"
        <3>1. Cloud' = Cloud /\ Data' = Data BY <1>2, <2>2 DEF Boot
        <3> QED BY <2>1, <3>1
    <2>3. CASE a = "nextcloud"
        <3> SUFFICES ASSUME Calm PROVE Sync' BY <2>1
        <3>1. /\ Cloud # None /\ Cloud.state = "started" /\ Cloud.image \in Version
              /\ Complete /\ Data # None
            BY <1>2, <2>3 DEF Boot
        <3>2. Data \in {Empty, Cloud.image, Cloud.image - 1} BY <3>1 DEF Stale
        <3>3. Cloud' = [Cloud EXCEPT !.state = "up"] /\ Data' = Cloud.image
            BY <1>2, <2>3, <3>1, <3>2 DEF Boot
        <3>4. ~ (Upgrading /\ pc \in {"drop", "create"}) BY <3>1
        <3>5. faults = 0 => On("nextcloud") /\ pc = "wait" BY <3>1
        <3>6. Cloud' # None /\ Cloud'.state = "up" /\ Cloud'.image = Cloud.image
            BY <3>1, <3>3
        <3> QED BY <2>1, <3>1, <3>3, <3>4, <3>5, <3>6
    <2> QED BY <2>2, <2>3
<1>3. CASE setRelease BY <1>3 DEF setRelease
<1>4. CASE DropIfExists BY <1>4 DEF DropIfExists, AfterDrop
<1>5. CASE ReadPasswordOrSetRandom BY <1>5 DEF ReadPasswordOrSetRandom
<1>6. CASE createCont BY <1>6 DEF createCont
<1>7. CASE writeConfig BY <1>7 DEF writeConfig
<1>8. CASE Start BY <1>8 DEF Start
<1>9. CASE RemoveVolume BY <1>9 DEF RemoveVolume
<1>10. CASE waitDB BY <1>10 DEF waitDB
<1>11. CASE Save
    <2>1. /\ pc = "done" /\ pc' = "idle" /\ rec' = [rec EXCEPT ![job.app] = job.to]
          /\ UNCHANGED <<cont, vol, hint, faults, removals, raced>>
        BY <1>11 DEF Save
    <2>2. lowered' = (lowered \/ (job.app = "nextcloud" /\ None \notin {job.from, job.to}
                                   /\ job.to < job.from))
        BY <1>11, Zenon DEF Save
    <2> SUFFICES ASSUME Calm' PROVE Sync' OBVIOUS
    <2>3. /\ lowered \in BOOLEAN
          /\ lowered' = FALSE \/ hint # None
        BY <2>1, Zenon DEF Booleans, Calm
    <2>4. Calm
        <3>1. lowered = FALSE \/ hint # None BY <2>2, <2>3, Zenon
        <3> QED BY <2>1, <3>1
    <2>5. CASE job.app # "nextcloud"
        <3>1. rec'["nextcloud"] = rec["nextcloud"] BY <2>1, <2>5
        <3> QED BY <2>1, <2>4, <2>5, <3>1
    <2>6. CASE job.app = "nextcloud"
        <3>1. job.to \in Version /\ job.from = rec["nextcloud"]
            <4>1. job \in Job /\ job.from = rec[job.app] BY <2>1
            <4>2. removals = 0 BY <2>4
            <4>3. job.to # None BY <2>1, <4>2
            <4>4. job.to \in OptVersion BY <4>1, Zenon DEF Job
            <4>5. job.to \in Version BY <4>3, <4>4, Zenon DEF OptVersion
            <4>6. job.from = rec["nextcloud"] BY <2>6, <4>1, Zenon
            <4> QED BY <4>5, <4>6, Zenon
        <3>2. rec'["nextcloud"] = job.to BY <2>1, <2>6
        <3>3. CASE hint # None BY <2>1, <2>4, <2>6, <3>1, <3>2, <3>3
        <3>4. CASE hint = None /\ job.from = None
            <4>1. Data = job.to BY <2>1, <2>6, <3>1, <3>4
            <4> QED BY <2>1, <2>4, <3>1, <3>2, <3>4, <4>1
        <3>5. CASE hint = None /\ job.from # None
            <4>1. ~ (job.to < job.from)
                <5>1. None \notin {job.from, job.to}
                    BY <3>1, <3>5, VersionAssumption DEF Version
                <5>2. lowered' = FALSE BY <2>3, <3>5, Zenon
                <5> QED BY <2>2, <2>6, <5>1, <5>2, Zenon
            <4>2. job.from \in Version
                <5>1. job.from \in OptVersion BY <2>1, Zenon DEF Jobs, Job
                <5> QED BY <3>5, <5>1, Zenon DEF OptVersion
            <4>3. job.from <= job.to BY <3>1, <4>1, <4>2
            <4> QED BY <2>1, <2>4, <2>6, <3>1, <3>2, <3>5, <4>2, <4>3
        <3> QED BY <3>3, <3>4, <3>5
    <2> QED BY <2>5, <2>6
<1>12. CASE loadConfig BY <1>12 DEF loadConfig
<1>13. CASE readVersion
    <2> SUFFICES ASSUME Calm' PROVE Sync' BY DEF Sync
    <2>1. /\ Upgrading /\ pc = "read" /\ job.from = rec["nextcloud"]
          /\ UNCHANGED <<cont, vol, hint, rec, job, removals, lowered>>
          /\ pc' \in {"drop", "domains"} /\ faults' \in {faults, faults + 1}
        BY <1>13 DEF readVersion, Climb
    <2>2. Calm /\ ~ (Launched("nextcloud") /\ ~ Running("nextcloud"))
        <3>1. raced' = (raced \/ (Launched("nextcloud") /\ ~ Running("nextcloud")))
            BY <1>13, Zenon DEF readVersion
        <3>2. raced' = FALSE /\ raced \in BOOLEAN BY Zenon DEF Calm, Booleans
        <3>3. raced = FALSE /\ ~ (Launched("nextcloud") /\ ~ Running("nextcloud"))
            BY <3>1, <3>2, Zenon
        <3> QED BY <2>1, <3>3
    <2>3. \/ rung' = Data /\ faults' = faults
          \/ ~ Running("nextcloud") /\ rung' = Known /\ faults' = faults
          \/ faults' = faults + 1 /\ rung' = Known
        BY <2>1, <1>13, Zenon DEF readVersion, Data, Known
    <2>4. Data \in Version => Data <= rung'
        <3> HAVE Data \in Version
        <3>1. CASE rung' = Data BY <3>1
        <3>2. CASE ~ Running("nextcloud") /\ rung' = Known
            <4>1. InSync BY <2>1, <2>2, <3>2
            <4> QED BY <3>2, <4>1
        <3>3. CASE faults' = faults + 1 /\ rung' = Known
            <4>1. faults = 0 BY <2>2, <3>3
            <4>2. InSync BY <2>1, <2>2, <4>1
            <4> QED BY <3>3, <4>2
        <3> QED BY <2>3, <3>1, <3>2, <3>3
    <2>5. faults' = 0 /\ Data \in Version => InSync
        BY <2>1, <2>2
    <2>6. Data \in Version => InSync \/ Launched("nextcloud")
        BY <2>1, <2>2
    <2>7. faults' = 0 => faults = 0
        BY <2>1
    <2> QED BY <2>1, <2>2, <2>4, <2>5, <2>6, <2>7
<1>14. CASE waitReady BY <1>14 DEF waitReady, AfterReady
<1>15. CASE setRedisPassword BY <1>15 DEF setRedisPassword
<1>16. CASE fixVersion BY <1>16 DEF fixVersion, AfterFix
<1>17. CASE setVersionHint BY <1>17 DEF setVersionHint, Climb
<1>18. CASE registerDomains BY <1>18 DEF registerDomains
<1>19. CASE createDB BY <1>19 DEF createDB
<1>20. CASE dropDB BY <1>20 DEF dropDB
<1>21. CASE Error BY <1>21 DEF Error
<1>22. CASE CutOff BY <1>22 DEF CutOff
<1>23. CASE Reboot BY <1>23 DEF Reboot
<1>24. CASE UNCHANGED vars BY <1>24 DEF vars
<1> QED
    BY <1>1, <1>2, <1>3, <1>4, <1>5, <1>6, <1>7, <1>8, <1>9, <1>10, <1>11, <1>12,
       <1>13, <1>14, <1>15, <1>16, <1>17,
       <1>18, <1>19, <1>20, <1>21, <1>22, <1>23, <1>24
       DEF Next, Step

-----------------------------------------------------------------------------
\* The inductive invariant.
IInv ==
    /\ Booleans /\ Types /\ Jobs /\ Rungs /\ Bounds /\ Conts
    /\ Reach /\ Kept /\ Postgres /\ Sync

\* It holds before the first call.
LEMMA InitIInv == Init => IInv
<1> SUFFICES ASSUME Init PROVE IInv OBVIOUS
<1> USE VersionAssumption DEF Init, NoJob, On, Upgrading, Installing, Cloud, Data, Version
<1>1. Booleans BY Zenon DEF Booleans
<1>2. Types BY DEF Types, OptVersion
<1>3. Jobs /\ Rungs BY DEF Jobs, Rungs
<1>4. Bounds BY DEF Bounds
<1>5. Conts BY DEF Conts, Running
<1>6. Reach BY DEF Reach, Known
<1>7. Kept BY DEF Kept
<1>8. Postgres BY DEF Postgres, Refused
<1>9. Sync BY DEF Sync, Refused
<1> QED BY <1>1, <1>2, <1>3, <1>4, <1>5, <1>6, <1>7, <1>8, <1>9 DEF IInv

\* Every step keeps it.
LEMMA StepIInv == IInv /\ [Next]_vars => IInv'
<1> SUFFICES ASSUME IInv, [Next]_vars PROVE IInv' OBVIOUS
<1>1. /\ Booleans /\ Types /\ Jobs /\ Rungs /\ Bounds /\ Conts
      /\ Reach /\ Kept /\ Postgres /\ Sync
    BY DEF IInv
<1>2. Booleans' /\ Types' BY <1>1, BooleansStep, TypesStep
<1>3. Jobs' /\ Rungs' BY <1>1, JobsStep, RungsStep
<1>4. Bounds' /\ Conts' BY <1>1, BoundsStep, ContsStep
<1>5. Reach' BY <1>1, ReachStep
<1>6. Kept' /\ Postgres' BY <1>1, KeptStep, PostgresStep
<1>7. Sync' BY <1>1, SyncStep
<1> QED BY <1>2, <1>3, <1>4, <1>5, <1>6, <1>7 DEF IInv

\* The inductive invariant holds of every reachable state.
THEOREM DriversInvariant == Spec => []IInv
BY InitIInv, StepIInv, PTL DEF Spec

\* Types; a job is there exactly while a Change runs.
THEOREM DriversTypeOK == Spec => []TypeOK
<1>1. IInv => TypeOK
    <2> SUFFICES ASSUME IInv PROVE TypeOK OBVIOUS
    <2>1. routed \in BOOLEAN /\ raced \in BOOLEAN /\ lowered \in BOOLEAN
        BY Zenon DEF IInv, Booleans
    <2>2. pc = "idle" <=> job = NoJob
        BY VersionAssumption DEF IInv, Types, Jobs, Job, NoJob, OptVersion
    <2>3. job \in {NoJob} \cup Job BY DEF IInv, Jobs
    <2> QED BY <2>1, <2>2, <2>3, Zenon DEF IInv, Types, TypeOK
<1> QED BY <1>1, DriversInvariant, PTL

\* No container of nextcloud is put over data that is more than one rung behind its image,
\* but by a hint that has outlived a removal (nextcloud.go:53-142).
THEOREM DriversNoRungSkipped == Spec => []NoRungSkipped
<1>1. IInv => NoRungSkipped BY DEF IInv, Reach, Stale, NoRungSkipped, Launched, Cloud, Data
<1> QED BY <1>1, DriversInvariant, PTL

\* One fault never puts nextcloud below its data, but in the cases that OneFaultRecovers
\* names (nextcloud.go:148).
THEOREM DriversOneFaultRecovers == Spec => []OneFaultRecovers
<1>1. IInv => OneFaultRecovers
    BY VersionAssumption DEF IInv, Booleans, Types, Sync, Calm, OneFaultRecovers
<1> QED BY <1>1, DriversInvariant, PTL

-----------------------------------------------------------------------------
\* What the box runs of an app is a version, nothing, or something torn.
LEMMA DeployedType ==
    ASSUME Types, NEW a \in App
    PROVE  Deployed(a) \in Version \cup {None, Torn}
BY DEF Types, Deployed, Container, Launched

\* The box shows the container and the volume of an app only.
LEMMA DeployedSame ==
    ASSUME NEW a \in App, cont'[a] = cont[a], vol'[a] = vol[a]
    PROVE  Deployed(a)' = Deployed(a)
BY DEF Deployed, Launched

\* A call of a Change works on the app of the Change.
LEMMA CallWorks ==
    ASSUME Types, Types', Jobs, pc # "idle", pc' # "idle", UNCHANGED <<job, rec, top>>,
           \A a \in App \ {job.app} : cont'[a] = cont[a] /\ vol'[a] = vol[a]
    PROVE  C!Work
<1>1. job \in Job /\ job.app \in App BY DEF Jobs, Job
<1>2. job # None BY <1>1, VersionAssumption
<1>3. Deployed(job.app)' \in Version \cup {None, Torn}
    BY <1>1 DEF Types, Deployed, Container, Launched
<1>4. \A a \in App \ {job.app} : Deployed(a)' = Deployed(a) BY DeployedSame
<1>5. [a \in App |-> Deployed(a)'] =
        [[a \in App |-> Deployed(a)] EXCEPT ![job.app] = Deployed(job.app)']
    BY <1>1, <1>4
<1> QED BY <1>1, <1>2, <1>3, <1>5 DEF C!Work

\* When a Change returns nil, the box runs what it was asked for, unless nextcloud was asked
\* for more before.
LEMMA DoneRight ==
    ASSUME IInv, pc = "done"
    PROVE  \/ Deployed(job.app) = job.to
           \/ job.app = "nextcloud" /\ job.to # None /\ job.to < top
<1> USE VersionAssumption DEF IInv, Types, Jobs, Conts, Deployed
<1>1. job \in Job /\ job.app \in App BY DEF Job
<1>2. CASE job.to = None BY <1>1, <1>2
<1>3. CASE job.to # None /\ job.app # "nextcloud" BY <1>1, <1>3 DEF Launched
<1>4. CASE job.to # None /\ job.app = "nextcloud"
    BY <1>1, <1>4 DEF On, Running, Launched, Data, Cloud
<1> QED BY <1>2, <1>3, <1>4

\* Every step is one that the manager expects of a Change, or it does not see it.
LEMMA ContractStep ==
    ASSUME IInv, IInv', [Next]_vars
    PROVE  [C!Next]_C!vars
<1> DEFINE Box == [a \in App |-> Deployed(a)]
<1>1. Types /\ Jobs /\ Types' BY DEF IInv
<1>2. pc # "idle" => job \in Job /\ job.app \in App /\ job # None
    BY <1>1, VersionAssumption DEF Jobs, Job
<1>3. ASSUME pc # "idle", pc' # "idle", UNCHANGED <<job, rec, top>>,
             \A a \in App \ {job.app} : cont'[a] = cont[a] /\ vol'[a] = vol[a]
      PROVE  C!Next
    BY <1>1, <1>3, CallWorks DEF C!Next
<1>4. ASSUME pc # "idle", pc' = "idle", rec' = rec, top' = top, Box' = Box PROVE C!Next
    BY <1>2, <1>4 DEF C!Next, C!Fail
<1>5. ASSUME pc = "idle", pc' = "idle", rec' = rec, top' = top, Box' = Box PROVE UNCHANGED C!vars
    BY <1>5 DEF C!vars
<1>6. (\A a \in App : cont'[a] = cont[a] /\ vol'[a] = vol[a]) => Box' = Box
    BY DeployedSame
<1> HIDE DEF Box
<1> USE DEF At, Goto, Stop, settings, worker, history
<1>7. ASSUME NEW a \in App, Update(a) \/ Reinstall(a) \/ Uninstall(a) PROVE C!Next
    <2>1. PICK t \in OptVersion : Begin(a, rec[a], t)
        BY <1>1, <1>7 DEF Update, Reinstall, Uninstall, Types, OptVersion
    <2>2. pc = "idle" /\ pc' # "idle" BY <2>1 DEF Begin, Entry
    <2>3. job' = [app |-> a, from |-> rec[a], to |-> t] /\ rec' = rec BY <2>1 DEF Begin
    <2>4. UNCHANGED Box BY <1>6, <2>1 DEF Begin
    <2>5. top' = IF a = "nextcloud" /\ t # None /\ t > top THEN t ELSE top
        BY <2>1 DEF Begin
    <2>6. C!Begin
        BY <1>1, <2>2, <2>3, <2>4, <2>5 DEF C!Begin, C!Call, Types, OptVersion, Box
    <2> QED BY <2>6 DEF C!Next
<1>8. ASSUME NEW a \in App, Boot(a) PROVE [C!Next]_C!vars
    <2>1. UNCHANGED <<pc, job, rec, top>> BY <1>8 DEF Boot
    <2>2. \A b \in App \ {a} : Deployed(b)' = Deployed(b)
        BY <1>1, <1>8, DeployedSame DEF Boot, Types
    <2>3. \/ Deployed(a)' = Deployed(a)
          \/ Deployed(a) = Torn /\ Deployed(a)' \in Version
        <3>1. /\ cont[a] # None /\ cont[a] \in Container /\ cont[a].state = "started"
              /\ cont[a].image \in Version
            BY <1>1, <1>8 DEF Boot, Types, Container
        <3>2. PICK s \in {"up", "refused"} : cont'[a] = [cont[a] EXCEPT !.state = s]
            BY <1>1, <1>8 DEF Boot, Types
        <3>3. cont'[a] \in Container /\ cont'[a].image = cont[a].image /\ cont'[a].state = s
            BY <3>1, <3>2 DEF Container
        <3>4. vol'[a] = vol[a] \/ (a = "nextcloud" /\ vol'[a] = cont[a].image)
            BY <1>1, <1>8 DEF Boot, Types
        <3>5. Launched(a) /\ Launched(a)' BY <3>1, <3>3, VersionAssumption DEF Launched
        <3> QED BY <3>1, <3>3, <3>4, <3>5 DEF Deployed, Launched
    <2>4. CASE Deployed(a)' = Deployed(a)
        <3>1. Box' = Box BY <2>2, <2>4 DEF Box
        <3> QED BY <2>1, <3>1 DEF C!vars, Box
    <2>5. CASE Deployed(a) = Torn /\ Deployed(a)' \in Version
        <3>1. Box' = [Box EXCEPT ![a] = Deployed(a)'] BY <2>2 DEF Box
        <3>2. Box[a] = Torn BY <2>5 DEF Box
        <3>3. C!Settle BY <2>1, <2>5, <3>1, <3>2 DEF C!Settle, Box
        <3> QED BY <3>3 DEF C!Next
    <2> QED BY <2>3, <2>4, <2>5
<1>9. CASE setRelease BY <1>5, <1>6, <1>9 DEF setRelease
<1>10. CASE DropIfExists BY <1>1, <1>3, <1>10 DEF DropIfExists, AfterDrop, Types
<1>11. CASE ReadPasswordOrSetRandom BY <1>1, <1>3, <1>11 DEF ReadPasswordOrSetRandom, Types
<1>12. CASE createCont BY <1>1, <1>3, <1>12 DEF createCont, Types
<1>13. CASE writeConfig BY <1>1, <1>3, <1>13 DEF writeConfig, Types, Jobs
<1>14. CASE Start BY <1>1, <1>3, <1>14 DEF Start, Types
<1>15. CASE RemoveVolume BY <1>1, <1>3, <1>15 DEF RemoveVolume, Types
<1>16. CASE waitDB BY <1>1, <1>3, <1>16 DEF waitDB, Types
<1>17. CASE loadConfig BY <1>1, <1>3, <1>17 DEF loadConfig, Types
<1>18. CASE readVersion BY <1>1, <1>3, <1>18 DEF readVersion, Climb, Types
<1>19. CASE waitReady BY <1>1, <1>3, <1>19 DEF waitReady, AfterReady, Types
<1>20. CASE setRedisPassword BY <1>1, <1>3, <1>20 DEF setRedisPassword, Types
<1>21. CASE fixVersion BY <1>1, <1>3, <1>21 DEF fixVersion, AfterFix, Types
<1>22. CASE setVersionHint BY <1>1, <1>3, <1>22 DEF setVersionHint, Climb, Types
<1>23. CASE registerDomains BY <1>1, <1>3, <1>23 DEF registerDomains, Types
<1>24. CASE createDB BY <1>1, <1>3, <1>24 DEF createDB, Types
<1>25. CASE dropDB BY <1>1, <1>3, <1>25 DEF dropDB, Types
<1>26. CASE Save
    <2>1. pc = "done" /\ pc' = "idle" /\ UNCHANGED <<cont, vol>> BY <1>26 DEF Save
    <2>2. rec' = [rec EXCEPT ![job.app] = job.to] BY <1>26 DEF Save
    <2>3. Box' = Box BY <1>6, <2>1
    <2>4. \/ Box[job.app] = job.to
          \/ job.app = "nextcloud" /\ job.to # None /\ job.to < top
        BY <1>2, <2>1, DoneRight DEF Box
    <2>5. C!Succeed BY <1>2, <1>26, <2>1, <2>2, <2>3, <2>4 DEF C!Succeed, Box, Save
    <2> QED BY <2>5 DEF C!Next
<1>27. CASE Error BY <1>4, <1>6, <1>27 DEF Error, Blocked
<1>28. CASE CutOff BY <1>4, <1>6, <1>28 DEF CutOff
<1>29. CASE Reboot
    <2>1. ASSUME NEW a \in App PROVE Deployed(a)' = Deployed(a)
        <3>1. cont[a] # None => cont[a] \in Container BY <1>1 DEF Types
        <3>2. cont'[a] = IF Running(a) /\ HasVolume(a)
                        THEN [cont[a] EXCEPT !.state = "started"] ELSE cont[a]
            BY <1>29 DEF Reboot
        <3>3. vol'[a] = vol[a] BY <1>29 DEF Reboot
        <3>4. CASE cont'[a] = cont[a] BY <3>3, <3>4, DeployedSame
        <3>5. CASE cont'[a] # cont[a]
            <4>1. /\ cont[a] # None /\ cont[a].state = "up"
                  /\ cont'[a] = [cont[a] EXCEPT !.state = "started"]
                BY <3>2, <3>5 DEF Running
            <4>2. /\ cont'[a] \in Container /\ cont'[a].image = cont[a].image
                  /\ cont'[a].state = "started"
                BY <3>1, <4>1 DEF Container
            <4> QED BY <3>3, <4>1, <4>2, VersionAssumption DEF Deployed, Launched
        <3> QED BY <3>4, <3>5
    <2>2. Box' = Box BY <2>1 DEF Box
    <2> QED BY <1>4, <1>5, <2>2, <1>29 DEF Reboot
<1>30. CASE UNCHANGED vars BY <1>3, <1>5, <1>6, <1>30 DEF vars
<1> QED
    BY <1>7, <1>8, <1>9, <1>10, <1>11, <1>12, <1>13, <1>14, <1>15, <1>16, <1>17,
       <1>18, <1>19, <1>20, <1>21, <1>22, <1>23, <1>24, <1>25, <1>26, <1>27, <1>28, <1>29, <1>30
       DEF Next, Step

\* The drivers keep what the apps manager relies on: a call changes its own app only, and
\* nil means that the app is at the version asked for, of nextcloud if it was never asked
\* for a later one (homeapp/app.go, nextcloud.go:103).
THEOREM DriversContract == Spec => ChangeContract
<1>1. Init => C!Init
    <2> SUFFICES ASSUME Init PROVE C!Init OBVIOUS
    <2> QED BY DEF Init, C!Init, Deployed
<1>2. IInv /\ IInv' /\ [Next]_vars => [C!Next]_C!vars BY ContractStep
<1> QED BY <1>1, <1>2, DriversInvariant, PTL DEF Spec, ChangeContract, C!Spec
=============================================================================
