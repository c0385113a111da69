---------------------------- MODULE DoorwayProofs ----------------------------
(***************************************************************************)
(* The safety properties of the doorway: as jarvis manages it (Doorway),   *)
(* for any domains, any number of commands that run at once, and any       *)
(* number of faults; and as it runs in its container (Listener), for any   *)
(* set of connections and any number of losses.                            *)
(***************************************************************************)
EXTENDS Doorway, Listener, TLAPS

\* The variables that are true or false.
Booleans == installed \in BOOLEAN /\ overlapped \in BOOLEAN /\ stranded \in BOOLEAN

\* What the settings, the container, the server and the task hold.
Types ==
    /\ subs \subseteq Sub /\ domains \subseteq AppDomain
    /\ cont \in Container \cup {None}
    /\ volKey \in 1 .. MaxKeys \cup {None} /\ registered \in 1 .. MaxKeys \cup {None}
    /\ newKey \in 1 .. MaxKeys \cup {None} /\ files \in HostMap \cup {None}
    /\ pc \in {"idle", "inspect", "key", "stop", "drop", "etc", "create", "copy",
               "copykey", "start", "initdone", "done", "undo", "failed"}
    /\ kind \in {None, "install", "update", "recreate"}
    /\ acked \subseteq Sub
    /\ keys \in 0 .. MaxKeys /\ faults \in 0 .. MaxFaults
    /\ commands \in 0 .. MaxCommands

\* The commands, and which of them the task is for.
Command == [at : {"idle", "set", "call", "wait"}, op : {None, "add", "remove"},
            sub : Sub \cup {None}, copy : SUBSET Sub, undone : BOOLEAN]
Commands ==
    /\ cli \in [Client -> Command] /\ by \in Client \cup {None}
    /\ \A c \in Client : cli[c].at = "wait" <=> by = c
    /\ \A c \in Client :
           cli[c].at # "idle" => cli[c].sub \in Sub /\ cli[c].op \in {"add", "remove"}
    /\ pc = "idle" => by = None

\* What the task has done to the container by the time it makes its next call.
Stages ==
    /\ pc \in {"stop", "drop", "copy", "copykey", "undo", "start", "initdone", "done"}
           => cont # None
    /\ pc \in {"copy", "copykey", "undo", "start"} => cont.state = "created"
    /\ pc \in {"create", "copy", "copykey", "start", "initdone", "done"} => files # None
    /\ pc \in {"copykey", "start", "initdone", "done"} => cont.hosts = files
    /\ Up => cont.hosts # None

\* Where the key that was registered last is.
Agree == volKey = registered
KeyInv ==
    /\ newKey # None => newKey = registered
    /\ pc = "copykey" => newKey # None
    /\ newKey # None /\ pc \in {"start", "initdone", "done"} => Agree
    /\ kind = "install" /\ pc \in {"etc", "create", "copy", "copykey", "start", "initdone"}
           => newKey # None
    /\ kind = "install" => pc \notin {"inspect", "stop", "drop"}
    /\ pc = "initdone" => kind = "install"
    /\ installed /\ (pc = "key" \/ (newKey # None /\ pc \in {"etc", "create"})) => cont = None
    /\ installed /\ ~ stranded =>
           /\ cont # None => Agree \/ (newKey # None /\ pc \in {"copy", "copykey", "undo"})
           /\ newKey = None /\ pc \in {"etc", "create"} => Agree

\* An addition that holds is in the settings; that and every one that was reported is
\* in the host map that was read for it, and so in the container.
Standing(b) == cli[b].at \in {"call", "wait"} /\ cli[b].op = "add" /\ ~ cli[b].undone
Settled ==
    /\ acked \subseteq subs
    /\ \A b \in Client : Standing(b) => cli[b].sub \in subs
    /\ files # None =>
           /\ acked \subseteq DOMAIN files
           /\ \A b \in Client : by = b /\ Standing(b) => cli[b].sub \in DOMAIN files
    /\ cont # None /\ cont.hosts # None => acked \subseteq DOMAIN cont.hosts
AckInv == overlapped \/ Settled

\* The inductive invariant.
IInv == Booleans /\ Types /\ Commands /\ Stages /\ KeyInv /\ AckInv

-----------------------------------------------------------------------------
\* The type invariant follows from the first three.
LEMMA TypeParts == Booleans /\ Types /\ Commands => TypeOK
BY DEF TypeOK, Booleans, Types, Commands, Command

\* The host map has every custom domain (doorway.go:86-124).
LEMMA HostMapType ==
    ASSUME Types
    PROVE  hostMap \in HostMap /\ subs \subseteq DOMAIN hostMap
<1> DEFINE main == IF External THEN {} ELSE {Main}
<1> DEFINE D == subs \cup domains \cup main
<1>1. D \in SUBSET Domain BY DEF Types, Domain
<1>2. hostMap \in [D -> {"custom", "app", "core"}] BY DEF hostMap
<1>3. DOMAIN hostMap = D BY DEF hostMap
<1> QED BY <1>1, <1>2, <1>3 DEF HostMap

\* Every step keeps the booleans.
LEMMA BooleansStep ==
    ASSUME Booleans, [Next]_vars
    PROVE  Booleans'
<1> USE Zenon DEF Booleans, task, owner, Run, Goto, EndTask
<1>1. CASE updateDoorway BY <1>1 DEF updateDoorway
<1>2. CASE install BY <1>2 DEF install
<1>3. CASE setDomains BY <1>3 DEF setDomains
<1>4. CASE update BY <1>4 DEF update
<1>5. CASE generateFabricsKey BY <1>5 DEF generateFabricsKey
<1>6. CASE stopAndDrop BY <1>6 DEF stopAndDrop
<1>7. CASE etcFiles BY <1>7 DEF etcFiles
<1>8. CASE start BY <1>8 DEF start, Effect
<1>9. CASE initDone BY <1>9 DEF initDone
<1>10. CASE dropTorn BY <1>10 DEF dropTorn
<1>11. CASE finish BY <1>11 DEF finish
<1>12. CASE giveUp BY <1>12 DEF giveUp
<1>13. CASE Fail BY <1>13 DEF Fail, Effect
<1>14. CASE Die BY <1>14 DEF Die
<1>15. ASSUME NEW c \in Client, taskRecreateDoorway(c) PROVE Booleans' BY <1>15 DEF taskRecreateDoorway
<1>16. ASSUME NEW c \in Client, loadCustomSubs(c) PROVE Booleans' BY <1>16 DEF loadCustomSubs
<1>17. ASSUME NEW c \in Client, setCustomSubs(c) PROVE Booleans' BY <1>17 DEF setCustomSubs, saveSubs
<1>18. CASE UNCHANGED vars BY <1>18 DEF vars
<1> QED
    BY <1>1, <1>2, <1>3, <1>4, <1>5, <1>6, <1>7, <1>8, <1>9, <1>10, <1>11, <1>12, <1>13,
       <1>14, <1>15, <1>16, <1>17, <1>18
       DEF Next

\* Every step keeps the types.
LEMMA TypesStep ==
    ASSUME Types, Commands, Stages, [Next]_vars
    PROVE  Types'
<1> USE DoorwayAssumption DEF Types, Container, task, owner, Run, Goto, EndTask
<1>1. CASE updateDoorway BY <1>1 DEF updateDoorway
<1>2. CASE install BY <1>2 DEF install
<1>3. CASE setDomains BY <1>3 DEF setDomains
<1>4. CASE update BY <1>4 DEF update
<1>5. CASE generateFabricsKey BY <1>5 DEF generateFabricsKey
<1>6. CASE stopAndDrop BY <1>6 DEF stopAndDrop, Stages
<1>7. CASE etcFiles
    <2>1. hostMap \in HostMap BY HostMapType
    <2> QED BY <1>7, <2>1 DEF etcFiles
<1>8. CASE start BY <1>8 DEF start, Effect, Stages
<1>9. CASE initDone BY <1>9 DEF initDone
<1>10. CASE dropTorn BY <1>10 DEF dropTorn
<1>11. CASE finish BY <1>11 DEF finish, Commands, Command
<1>12. CASE giveUp BY <1>12 DEF giveUp, Commands
<1>13. CASE Fail BY <1>13 DEF Fail, Effect, Stages
<1>14. CASE Die BY <1>14 DEF Die, Commands
<1>15. ASSUME NEW c \in Client, taskRecreateDoorway(c) PROVE Types' BY <1>15 DEF taskRecreateDoorway
<1>16. ASSUME NEW c \in Client, loadCustomSubs(c) PROVE Types' BY <1>16 DEF loadCustomSubs
<1>17. ASSUME NEW c \in Client, setCustomSubs(c) PROVE Types'
    BY <1>17 DEF setCustomSubs, Commands, Command, saveSubs
<1>18. CASE UNCHANGED vars BY <1>18 DEF vars
<1> QED
    BY <1>1, <1>2, <1>3, <1>4, <1>5, <1>6, <1>7, <1>8, <1>9, <1>10, <1>11, <1>12, <1>13,
       <1>14, <1>15, <1>16, <1>17, <1>18
       DEF Next

\* Every step keeps the commands, and who waits.
LEMMA CommandsStep ==
    ASSUME Booleans, Types, Commands, [Next]_vars
    PROVE  Commands'
<1> USE DoorwayAssumption DEF Types, Commands, Command, IdleCli, task, owner, Run, Goto, EndTask
<1>1. CASE updateDoorway BY <1>1 DEF updateDoorway
<1>2. CASE install BY <1>2 DEF install
<1>3. CASE setDomains BY <1>3 DEF setDomains
<1>4. CASE update BY <1>4 DEF update
<1>5. CASE generateFabricsKey BY <1>5 DEF generateFabricsKey
<1>6. CASE stopAndDrop BY <1>6 DEF stopAndDrop
<1>7. CASE etcFiles BY <1>7 DEF etcFiles
<1>8. CASE start BY <1>8 DEF start, Effect
<1>9. CASE initDone BY <1>9 DEF initDone
<1>10. CASE dropTorn BY <1>10 DEF dropTorn
<1>11. CASE finish BY <1>11 DEF finish
<1>12. CASE giveUp BY <1>12 DEF giveUp
<1>13. CASE Fail BY <1>13 DEF Fail, Effect
<1>14. CASE Die BY <1>14 DEF Die
<1>15. ASSUME NEW c \in Client, taskRecreateDoorway(c) PROVE Commands' BY <1>15 DEF taskRecreateDoorway
<1>16. ASSUME NEW c \in Client, loadCustomSubs(c) PROVE Commands' BY <1>16 DEF loadCustomSubs
<1>17. ASSUME NEW c \in Client, setCustomSubs(c) PROVE Commands'
    <2>1. by' = by /\ pc' = pc /\ Client' = Client BY <1>17 DEF setCustomSubs, saveSubs
    <2>2. DOMAIN cli' = Client /\ cli' = [b \in Client |-> cli'[b]] BY <1>17 DEF setCustomSubs, saveSubs
    <2>3. ASSUME NEW b \in Client
          PROVE  /\ cli'[b] \in Command
                 /\ cli'[b].at = "wait" <=> by = b
                 /\ cli'[b].at # "idle" =>
                        cli'[b].sub \in Sub /\ cli'[b].op \in {"add", "remove"}
        <3>1. CASE b = c
            BY <1>17, <3>1 DEF setCustomSubs, saveSubs
        <3>2. CASE b # c
            BY <1>17, <3>2 DEF setCustomSubs, saveSubs
        <3> QED BY <3>1, <3>2
    <2> QED BY <2>1, <2>2, <2>3
<1>18. CASE UNCHANGED vars BY <1>18 DEF vars
<1> QED
    BY <1>1, <1>2, <1>3, <1>4, <1>5, <1>6, <1>7, <1>8, <1>9, <1>10, <1>11, <1>12, <1>13,
       <1>14, <1>15, <1>16, <1>17, <1>18
       DEF Next

\* Every step leaves the container as the next call finds it.
LEMMA StagesStep ==
    ASSUME Types, Stages, [Next]_vars
    PROVE  Stages'
<1> USE DoorwayAssumption DEF Types, Container, Stages, Up, task, owner, Run, Goto, EndTask
<1>1. CASE updateDoorway BY <1>1 DEF updateDoorway
<1>2. CASE install BY <1>2 DEF install
<1>3. CASE setDomains BY <1>3 DEF setDomains
<1>4. CASE update BY <1>4 DEF update
<1>5. CASE generateFabricsKey BY <1>5 DEF generateFabricsKey
<1>6. CASE stopAndDrop BY <1>6 DEF stopAndDrop
<1>7. CASE etcFiles
    <2>1. hostMap \in HostMap BY HostMapType
    <2> QED BY <1>7, <2>1 DEF etcFiles
<1>8. CASE start BY <1>8 DEF start, Effect
<1>9. CASE initDone BY <1>9 DEF initDone
<1>10. CASE dropTorn BY <1>10 DEF dropTorn
<1>11. CASE finish BY <1>11 DEF finish
<1>12. CASE giveUp BY <1>12 DEF giveUp
<1>13. CASE Fail BY <1>13 DEF Fail, Effect
<1>14. CASE Die BY <1>14 DEF Die
<1>15. ASSUME NEW c \in Client, taskRecreateDoorway(c) PROVE Stages' BY <1>15 DEF taskRecreateDoorway
<1>16. ASSUME NEW c \in Client, loadCustomSubs(c) PROVE Stages' BY <1>16 DEF loadCustomSubs
<1>17. ASSUME NEW c \in Client, setCustomSubs(c) PROVE Stages' BY <1>17 DEF setCustomSubs, saveSubs
<1>18. CASE UNCHANGED vars BY <1>18 DEF vars
<1> QED
    BY <1>1, <1>2, <1>3, <1>4, <1>5, <1>6, <1>7, <1>8, <1>9, <1>10, <1>11, <1>12, <1>13,
       <1>14, <1>15, <1>16, <1>17, <1>18
       DEF Next

\* Every step keeps track of the key.
LEMMA KeyStep ==
    ASSUME Booleans, Types, Stages, KeyInv, [Next]_vars
    PROVE  KeyInv'
<1> USE DoorwayAssumption
    DEF Types, Booleans, Container, Stages, KeyInv, Agree, task, owner, Run, Goto, EndTask
<1>1. CASE updateDoorway BY <1>1 DEF updateDoorway
<1>2. CASE install BY <1>2 DEF install
<1>3. CASE setDomains BY <1>3 DEF setDomains
<1>4. CASE update BY <1>4 DEF update
<1>5. CASE generateFabricsKey
    <2>1. newKey' # None /\ newKey' = registered' /\ pc = "key" /\ pc' = "etc"
        BY <1>5 DEF generateFabricsKey
    <2>2. UNCHANGED <<installed, cont, kind, stranded>> BY <1>5 DEF generateFabricsKey
    <2> QED BY <2>1, <2>2
<1>6. CASE stopAndDrop BY <1>6 DEF stopAndDrop
<1>7. CASE etcFiles BY <1>7 DEF etcFiles
<1>8. CASE start
    <2>0. pc # "copykey" => (stranded' <=> stranded) BY Zenon, <1>8 DEF start
    <2>1. CASE pc = "create"
        <3>1. cont = None /\ pc' = "copy" /\ UNCHANGED <<installed, volKey, registered, newKey, kind>>
            BY <1>8, <2>1 DEF start, Effect
        <3> QED BY <3>1, <2>1, <2>0
    <2>2. CASE pc = "copy"
        <3>1. /\ pc' = (IF newKey = None THEN "start" ELSE "copykey")
              /\ UNCHANGED <<installed, volKey, registered, newKey, kind>>
            BY <1>8, <2>2 DEF start, Effect
        <3>2. cont # None BY <2>2
        <3> QED BY <3>1, <3>2, <2>2, <2>0
    <2>3. CASE pc = "copykey"
        <3>1. /\ pc' = "start" /\ volKey' = newKey
              /\ UNCHANGED <<installed, cont, registered, newKey, kind>>
            BY <1>8, <2>3 DEF start, Effect
        <3> QED BY <3>1, <2>3
    <2>4. CASE pc = "start"
        <3>1. /\ pc' = (IF kind = "install" THEN "initdone" ELSE "done")
              /\ UNCHANGED <<installed, volKey, registered, newKey, kind>>
            BY <1>8, <2>4 DEF start, Effect
        <3>2. cont # None BY <2>4
        <3> QED BY <3>1, <3>2, <2>4, <2>0
    <2> QED BY <1>8, <2>1, <2>2, <2>3, <2>4 DEF start, Effect
<1>9. CASE initDone
    <2>1. /\ pc = "initdone" /\ pc' = "done" /\ newKey # None
          /\ UNCHANGED <<cont, volKey, registered, newKey, kind>>
        BY <1>9 DEF initDone
    <2> QED BY <2>1
<1>10. CASE dropTorn
    <2>1. CASE cont' = None
        <3>1. pc' = "failed" /\ UNCHANGED <<volKey, registered, installed, newKey, kind>>
            BY <1>10 DEF dropTorn
        <3> QED BY <3>1, <2>1
    <2>2. CASE cont' # None
        <3>1. pc' = "failed" /\ UNCHANGED <<cont, volKey, registered, installed, newKey, kind>>
            BY <1>10, <2>2 DEF dropTorn
        <3>2. Torn \/ stranded => stranded' BY Zenon, <1>10, <2>2 DEF dropTorn
        <3>3. pc = "undo" BY <1>10 DEF dropTorn
        <3> QED BY <3>1, <3>2, <3>3, <2>2 DEF Torn
    <2> QED BY <2>1, <2>2
<1>11. CASE finish BY <1>11 DEF finish
<1>12. CASE giveUp BY <1>12 DEF giveUp
<1>13. CASE Fail
    <2>1. stranded => stranded' BY Zenon, <1>13 DEF Fail
    <2>2. pc' = (IF pc \in {"copy", "copykey"} THEN "undo" ELSE "failed")
          /\ UNCHANGED <<registered, installed, newKey, kind>>
        BY <1>13 DEF Fail
    <2>3. CASE UNCHANGED <<cont, volKey>>
        <3>1. pc # "undo" BY <1>13 DEF Fail
        <3> QED BY <2>1, <2>2, <2>3, <3>1
    <2>4. CASE pc = "create" /\ cont' # cont
        <3>1. Torn => stranded' BY Zenon, <1>13, <2>4 DEF Fail
        <3>2. volKey' = volKey BY <1>13, <2>4 DEF Fail, Effect
        <3> QED BY <2>1, <2>2, <2>4, <3>1, <3>2 DEF Torn
    <2>5. CASE pc = "copy" /\ volKey' = volKey /\ cont' # None
        BY <2>1, <2>2, <2>5
    <2>6. CASE pc = "copykey" /\ volKey' = newKey /\ cont' = cont
        BY <2>1, <2>2, <2>6
    <2>7. CASE pc = "start" /\ volKey' = volKey /\ cont' # None
        BY <2>1, <2>2, <2>7
    <2> QED BY <1>13, <2>3, <2>4, <2>5, <2>6, <2>7 DEF Fail, Effect
<1>14. CASE Die
    <2>1. stranded \/ (cont # None /\ Torn) => stranded' BY Zenon, <1>14 DEF Die
    <2> QED BY <1>14, <2>1 DEF Die, Torn
<1>15. ASSUME NEW c \in Client, taskRecreateDoorway(c) PROVE KeyInv' BY <1>15 DEF taskRecreateDoorway
<1>16. ASSUME NEW c \in Client, loadCustomSubs(c) PROVE KeyInv' BY <1>16 DEF loadCustomSubs
<1>17. ASSUME NEW c \in Client, setCustomSubs(c) PROVE KeyInv' BY <1>17 DEF setCustomSubs, saveSubs
<1>18. CASE UNCHANGED vars BY <1>18 DEF vars
<1> QED
    BY <1>1, <1>2, <1>3, <1>4, <1>5, <1>6, <1>7, <1>8, <1>9, <1>10, <1>11, <1>12, <1>13,
       <1>14, <1>15, <1>16, <1>17, <1>18
       DEF Next

\* Every step keeps track of the additions.
LEMMA AckStep ==
    ASSUME Booleans, Types, Commands, Stages, AckInv, [Next]_vars
    PROVE  AckInv'
<1> USE DoorwayAssumption
    DEF Types, Commands, Command, Container, Stages, AckInv, Settled, Standing, IdleCli,
        task, owner, Run, Goto, EndTask
<1>1. CASE updateDoorway BY <1>1 DEF updateDoorway
<1>2. CASE install BY <1>2 DEF install
<1>3. CASE setDomains BY <1>3 DEF setDomains
<1>4. CASE update BY <1>4 DEF update
<1>5. CASE generateFabricsKey BY <1>5 DEF generateFabricsKey
<1>6. CASE stopAndDrop BY <1>6 DEF stopAndDrop
<1>7. CASE etcFiles
    <2>1. hostMap \in HostMap /\ subs \subseteq DOMAIN hostMap BY HostMapType
    <2> QED BY <1>7, <2>1 DEF etcFiles
<1>8. CASE start BY <1>8 DEF start, Effect
<1>9. CASE initDone BY <1>9 DEF initDone
<1>10. CASE dropTorn BY <1>10 DEF dropTorn
<1>11. CASE finish BY <1>11 DEF finish
<1>12. CASE giveUp BY <1>12 DEF giveUp
<1>13. CASE Fail BY <1>13 DEF Fail, Effect
<1>14. CASE Die BY <1>14 DEF Die
<1>15. ASSUME NEW c \in Client, taskRecreateDoorway(c) PROVE AckInv' BY <1>15 DEF taskRecreateDoorway
<1>16. ASSUME NEW c \in Client, loadCustomSubs(c) PROVE AckInv' BY <1>16 DEF loadCustomSubs
<1>17. ASSUME NEW c \in Client, setCustomSubs(c) PROVE AckInv'
    <2>1. CASE overlapped \/ subs # cli[c].copy
        BY <1>17, <2>1 DEF setCustomSubs, saveSubs
    <2>2. CASE ~ overlapped /\ subs = cli[c].copy
        <3> DEFINE s == cli[c].sub
        <3>1. Settled BY <2>2
        <3>2. UNCHANGED <<cont, files, by>> BY <1>17 DEF setCustomSubs, saveSubs
        <3>3. /\ cli[c].op = "add" => subs' = subs \cup {s} /\ acked' = acked
              /\ cli[c].op # "add" => subs' = subs \ {s} /\ acked' = acked \ {s}
            BY <1>17, <2>2 DEF setCustomSubs, saveSubs
        <3>4. cli[c].at = "set" BY <1>17 DEF setCustomSubs, saveSubs
        <3>5. cli[c].op \in {"add", "remove"} BY <3>4
        <3>6. ASSUME NEW b \in Client, Standing(b)'
              PROVE  /\ cli'[b].sub = cli[b].sub /\ cli[b].sub \in subs'
                     /\ b # c => Standing(b)
            <4>1. CASE b = c
                <5>1. cli'[b] = [cli[c] EXCEPT !.at = "call"]
                    BY <1>17, <4>1 DEF setCustomSubs, saveSubs
                <5>2. cli[c] \in Command /\ cli[c].op = "add" BY <5>1, <4>1, <3>6
                <5>3. cli'[b].sub = s BY <5>1, <5>2
                <5> QED BY <5>2, <5>3, <4>1, <3>3
            <4>2. CASE b # c /\ cli[b].sub = s /\ cli[b].at \in {"call", "wait"}
                <5>1. cli'[b] = [cli[b] EXCEPT !.undone = (cli[b].undone \/ cli[c].op = "remove")]
                    BY <1>17, <4>2 DEF setCustomSubs, saveSubs
                <5>2. Standing(b) /\ cli'[b].sub = cli[b].sub BY <5>1, <3>6
                <5>3. cli[c].op # "remove" BY <5>1, <3>6
                <5>4. cli[b].sub \in subs BY <5>2, <3>1
                <5>5. cli[c].op = "add" BY <5>3, <3>5
                <5> QED BY <5>2, <5>4, <5>5, <3>3
            <4>3. CASE b # c /\ ~ (cli[b].sub = s /\ cli[b].at \in {"call", "wait"})
                <5>1. cli'[b] = cli[b] BY <1>17, <4>3 DEF setCustomSubs, saveSubs
                <5>2. Standing(b) /\ cli[b].sub # s BY <5>1, <4>3, <3>6
                <5> QED BY <5>1, <5>2, <3>1, <3>3
            <4> QED BY <4>1, <4>2, <4>3
        <3>7. acked' \subseteq subs' /\ acked' \subseteq acked BY <3>1, <3>3
        <3>8. by = c => FALSE BY <3>4
        <3>9. Settled' BY <3>1, <3>2, <3>6, <3>7, <3>8
        <3> QED BY <3>9
    <2> QED BY <2>1, <2>2
<1>18. CASE UNCHANGED vars BY <1>18 DEF vars
<1> QED
    BY <1>1, <1>2, <1>3, <1>4, <1>5, <1>6, <1>7, <1>8, <1>9, <1>10, <1>11, <1>12, <1>13,
       <1>14, <1>15, <1>16, <1>17, <1>18
       DEF Next

-----------------------------------------------------------------------------
\* The box starts in the invariant.
LEMMA InitIInv == Init => IInv
<1> SUFFICES ASSUME Init PROVE IInv OBVIOUS
<1>1. Booleans BY Zenon DEF Init, Booleans
<1>2. Types BY DoorwayAssumption DEF Init, Types
<1>3. Commands BY DoorwayAssumption DEF Init, Commands, Command, IdleCli
<1>4. Stages BY DEF Init, Stages, Up
<1>5. KeyInv BY DEF Init, KeyInv, Agree
<1>6. AckInv BY DEF Init, AckInv, Settled, Standing, IdleCli
<1> QED BY <1>1, <1>2, <1>3, <1>4, <1>5, <1>6 DEF IInv

\* Every step keeps it.
LEMMA StepIInv == IInv /\ [Next]_vars => IInv'
<1> SUFFICES ASSUME IInv, [Next]_vars PROVE IInv' OBVIOUS
<1>1. Booleans /\ Types /\ Commands /\ Stages /\ KeyInv /\ AckInv BY DEF IInv
<1>2. Booleans' BY <1>1, BooleansStep
<1>3. Types' BY <1>1, TypesStep
<1>4. Commands' BY <1>1, CommandsStep
<1>5. Stages' BY <1>1, StagesStep
<1>6. KeyInv' BY <1>1, KeyStep
<1>7. AckInv' BY <1>1, AckStep
<1> QED BY <1>2, <1>3, <1>4, <1>5, <1>6, <1>7 DEF IInv

\* The inductive invariant holds of every reachable state.
THEOREM DoorwayInvariant == Spec => []IInv
BY InitIInv, StepIInv, PTL DEF Spec

\* Settings, container, task and commands keep their types, and a task is for exactly
\* the command that waits for it.
THEOREM DoorwayTypeOK == Spec => []TypeOK
<1>1. IInv => TypeOK BY TypeParts DEF IInv
<1> QED BY <1>1, DoorwayInvariant, PTL

\* The doorway of an installed drive has the key the server knows, after any sequence
\* of failed calls and lost answers, failed drops and deaths, unless one of the three
\* left a container without the key made for it, and until a later key mends that
\* (doorway.go:64-84, 253-277).
THEOREM DoorwayKeyAgrees == Spec => []KeyAgrees
<1>1. IInv => KeyAgrees
    <2> SUFFICES ASSUME IInv, installed, Up, ~ stranded PROVE Agree BY DEF KeyAgrees, Agree
    <2>1. cont # None /\ cont.state = "up" BY DEF Up
    <2> QED BY <2>1 DEF IInv, KeyInv, Stages
<1> QED BY <1>1, DoorwayInvariant, PTL

\* A custom domain whose addition was reported is routed by every doorway that runs,
\* until it is removed or two commands overlap (custom_subs.go:58-129).
THEOREM DoorwayAckedRouted == Spec => []AckedRouted
<1>1. IInv => AckedRouted
    <2> SUFFICES ASSUME IInv, Up, ~ overlapped, NEW s \in acked
                 PROVE  cont.hosts # None /\ s \in DOMAIN cont.hosts
        BY DEF AckedRouted
    <2> QED BY DEF IInv, AckInv, Settled, Stages, Up
<1> QED BY <1>1, DoorwayInvariant, PTL
-----------------------------------------------------------------------------
(* The process in the container: Listener. *)

\* The variables that are true or false.
ServeBooleans ==
    /\ proxied \in BOOLEAN /\ tcpOpen \in BOOLEAN /\ session \in BOOLEAN
    /\ rlClosed \in BOOLEAN /\ lisClosed \in BOOLEAN /\ cancelled \in BOOLEAN

\* Where the goroutines are.
Places ==
    /\ rl \in {"accept", "send", "sleep", "dial", "done"}
    /\ tcpbg \in {"accept", "send", "err", "temp", "done"}
    /\ fabbg \in {"accept", "send", "err", "done"}
    /\ srv \in {"accept", "hello", "greeted", "failed", "returned", "panicked"}
    /\ closer \in {"idle", "tunnel", "chan", "wait", "done"}
    /\ losses \in 0 .. MaxLosses

\* Where the connections are.
Conns == at \in [Conn -> Place]

\* Who holds one.
Hands ==
    /\ Holds("rl", rl = "send") /\ Holds("tcpbg", tcpbg = "send")
    /\ Holds("fabbg", fabbg = "send") /\ Holds("hello", srv \in {"hello", "greeted"})

\* Only a close closes the channels, and only with them closed is one dropped.
Closing ==
    /\ rlClosed \/ lisClosed => closer # "idle"
    /\ NoneDropped

\* The inductive invariant.
ServeIInv == ServeBooleans /\ Places /\ Conns /\ Hands /\ Closing

-----------------------------------------------------------------------------
\* The type invariant is the first four.
LEMMA ServeTypeParts == ServeTypeOK <=> ServeBooleans /\ Places /\ Conns /\ Hands
BY DEF ServeTypeOK, ServeBooleans, Places, Conns, Hands

\* Every step keeps the booleans.
LEMMA ServeBooleansStep ==
    ASSUME ServeBooleans, [ServeNext]_serveVars
    PROVE  ServeBooleans'
<1> USE Zenon DEF ServeBooleans
<1>1. CASE Connect BY <1>1 DEF Connect
<1>2. CASE LoseSession BY <1>2 DEF LoseSession
<1>3. CASE Cancel BY <1>3 DEF Cancel
<1>4. CASE bgAccept BY <1>4 DEF bgAccept
<1>5. CASE bg BY <1>5 DEF bg
<1>6. CASE tcpAccept BY <1>6 DEF tcpAccept
<1>7. CASE fabAccept BY <1>7 DEF fabAccept
<1>8. CASE tcpSend BY <1>8 DEF tcpSend, bgSend
<1>9. CASE fabSend BY <1>9 DEF fabSend, bgSend
<1>10. CASE doClose BY <1>10 DEF doClose
<1>11. CASE acceptTag BY <1>11 DEF acceptTag
<1>12. CASE Accept BY <1>12 DEF Accept
<1>13. CASE serveReturn BY <1>13 DEF serveReturn
<1>14. CASE HelloInfo BY <1>14 DEF HelloInfo
<1>15. CASE forwardTCPConn BY <1>15 DEF forwardTCPConn
<1>16. CASE Leave BY <1>16 DEF Leave
<1>17. CASE UNCHANGED serveVars BY <1>17 DEF serveVars
<1> QED
    BY <1>1, <1>2, <1>3, <1>4, <1>5, <1>6, <1>7, <1>8, <1>9, <1>10, <1>11, <1>12, <1>13,
       <1>14, <1>15, <1>16, <1>17
       DEF ServeNext

\* Every step leaves each goroutine at a place of its own.
LEMMA PlacesStep ==
    ASSUME Places, [ServeNext]_serveVars
    PROVE  Places'
<1> USE ListenerAssumption DEF Places
<1>1. CASE Connect BY <1>1 DEF Connect
<1>2. CASE LoseSession BY <1>2 DEF LoseSession
<1>3. CASE Cancel BY <1>3 DEF Cancel
<1>4. CASE bgAccept BY <1>4 DEF bgAccept
<1>5. CASE bg BY <1>5 DEF bg
<1>6. CASE tcpAccept BY <1>6 DEF tcpAccept
<1>7. CASE fabAccept BY <1>7 DEF fabAccept
<1>8. CASE tcpSend BY <1>8 DEF tcpSend, bgSend
<1>9. CASE fabSend BY <1>9 DEF fabSend, bgSend
<1>10. CASE doClose BY <1>10 DEF doClose
<1>11. CASE acceptTag BY <1>11 DEF acceptTag
<1>12. CASE Accept BY <1>12 DEF Accept
<1>13. CASE serveReturn BY <1>13 DEF serveReturn
<1>14. CASE HelloInfo BY <1>14 DEF HelloInfo
<1>15. CASE forwardTCPConn BY <1>15 DEF forwardTCPConn
<1>16. CASE Leave BY <1>16 DEF Leave
<1>17. CASE UNCHANGED serveVars BY <1>17 DEF serveVars
<1> QED
    BY <1>1, <1>2, <1>3, <1>4, <1>5, <1>6, <1>7, <1>8, <1>9, <1>10, <1>11, <1>12, <1>13,
       <1>14, <1>15, <1>16, <1>17
       DEF ServeNext

\* Every step leaves each connection at a place.
LEMMA ConnsStep ==
    ASSUME Conns, [ServeNext]_serveVars
    PROVE  Conns'
<1> USE DEF Conns, Place, Move, Take
<1>1. CASE Connect BY <1>1 DEF Connect
<1>2. CASE LoseSession BY <1>2 DEF LoseSession
<1>3. CASE Cancel BY <1>3 DEF Cancel
<1>4. CASE bgAccept BY <1>4 DEF bgAccept
<1>5. CASE bg BY <1>5 DEF bg
<1>6. CASE tcpAccept BY <1>6 DEF tcpAccept
<1>7. CASE fabAccept BY <1>7 DEF fabAccept
<1>8. CASE tcpSend BY <1>8 DEF tcpSend, bgSend
<1>9. CASE fabSend BY <1>9 DEF fabSend, bgSend
<1>10. CASE doClose BY <1>10 DEF doClose
<1>11. CASE acceptTag BY <1>11 DEF acceptTag
<1>12. CASE Accept BY <1>12 DEF Accept
<1>13. CASE serveReturn BY <1>13 DEF serveReturn
<1>14. CASE HelloInfo BY <1>14 DEF HelloInfo
<1>15. CASE forwardTCPConn BY <1>15 DEF forwardTCPConn
<1>16. CASE Leave BY <1>16 DEF Leave
<1>17. CASE UNCHANGED serveVars BY <1>17 DEF serveVars
<1> QED
    BY <1>1, <1>2, <1>3, <1>4, <1>5, <1>6, <1>7, <1>8, <1>9, <1>10, <1>11, <1>12, <1>13,
       <1>14, <1>15, <1>16, <1>17
       DEF ServeNext

\* No step gives a goroutine a second connection, or one to two.
LEMMA HandsStep ==
    ASSUME Conns, Places, Hands, [ServeNext]_serveVars
    PROVE  Hands'
<1> USE DEF Conns, Places, Hands, Holds, Move, Take
<1>1. CASE Connect BY <1>1 DEF Connect
<1>2. CASE LoseSession BY <1>2 DEF LoseSession
<1>3. CASE Cancel BY <1>3 DEF Cancel
<1>4. CASE bgAccept BY <1>4 DEF bgAccept
<1>5. CASE bg BY <1>5 DEF bg
<1>6. CASE tcpAccept BY <1>6 DEF tcpAccept
<1>7. CASE fabAccept BY <1>7 DEF fabAccept
<1>8. CASE tcpSend BY <1>8 DEF tcpSend, bgSend
<1>9. CASE fabSend BY <1>9 DEF fabSend, bgSend
<1>10. CASE doClose BY <1>10 DEF doClose
<1>11. CASE acceptTag BY <1>11 DEF acceptTag
<1>12. CASE Accept BY <1>12 DEF Accept
<1>13. CASE serveReturn BY <1>13 DEF serveReturn
<1>14. CASE HelloInfo BY <1>14 DEF HelloInfo
<1>15. CASE forwardTCPConn BY <1>15 DEF forwardTCPConn
<1>16. CASE Leave BY <1>16 DEF Leave
<1>17. CASE UNCHANGED serveVars BY <1>17 DEF serveVars
<1> QED
    BY <1>1, <1>2, <1>3, <1>4, <1>5, <1>6, <1>7, <1>8, <1>9, <1>10, <1>11, <1>12, <1>13,
       <1>14, <1>15, <1>16, <1>17
       DEF ServeNext

\* No step drops a connection before the close.
LEMMA ClosingStep ==
    ASSUME Conns, Places, Closing, [ServeNext]_serveVars
    PROVE  Closing'
<1> USE DEF Conns, Places, Closing, NoneDropped, Move, Take
<1>1. CASE Connect BY <1>1 DEF Connect
<1>2. CASE LoseSession BY <1>2 DEF LoseSession
<1>3. CASE Cancel BY <1>3 DEF Cancel
<1>4. CASE bgAccept BY <1>4 DEF bgAccept
<1>5. CASE bg BY <1>5 DEF bg
<1>6. CASE tcpAccept BY <1>6 DEF tcpAccept
<1>7. CASE fabAccept BY <1>7 DEF fabAccept
<1>8. CASE tcpSend BY <1>8 DEF tcpSend, bgSend
<1>9. CASE fabSend BY <1>9 DEF fabSend, bgSend
<1>10. CASE doClose BY <1>10 DEF doClose
<1>11. CASE acceptTag BY <1>11 DEF acceptTag
<1>12. CASE Accept BY <1>12 DEF Accept
<1>13. CASE serveReturn BY <1>13 DEF serveReturn
<1>14. CASE HelloInfo BY <1>14 DEF HelloInfo
<1>15. CASE forwardTCPConn BY <1>15 DEF forwardTCPConn
<1>16. CASE Leave BY <1>16 DEF Leave
<1>17. CASE UNCHANGED serveVars BY <1>17 DEF serveVars
<1> QED
    BY <1>1, <1>2, <1>3, <1>4, <1>5, <1>6, <1>7, <1>8, <1>9, <1>10, <1>11, <1>12, <1>13,
       <1>14, <1>15, <1>16, <1>17
       DEF ServeNext

-----------------------------------------------------------------------------
\* The doorway starts in the invariant.
LEMMA ServeInitIInv == ServeInit => ServeIInv
<1> SUFFICES ASSUME ServeInit PROVE ServeIInv OBVIOUS
<1>1. ServeBooleans BY Zenon DEF ServeInit, ServeBooleans
<1>2. Places BY ListenerAssumption DEF ServeInit, Places
<1>3. Conns BY DEF ServeInit, Conns, Place
<1>4. Hands BY DEF ServeInit, Hands, Holds
<1>5. Closing BY DEF ServeInit, Closing, NoneDropped
<1> QED BY <1>1, <1>2, <1>3, <1>4, <1>5 DEF ServeIInv

\* Every step keeps it.
LEMMA ServeStepIInv == ServeIInv /\ [ServeNext]_serveVars => ServeIInv'
<1> SUFFICES ASSUME ServeIInv, [ServeNext]_serveVars PROVE ServeIInv' OBVIOUS
<1>1. ServeBooleans /\ Places /\ Conns /\ Hands /\ Closing BY DEF ServeIInv
<1>2. ServeBooleans' BY <1>1, ServeBooleansStep
<1>3. Places' BY <1>1, PlacesStep
<1>4. Conns' BY <1>1, ConnsStep
<1>5. Hands' BY <1>1, HandsStep
<1>6. Closing' BY <1>1, ClosingStep
<1> QED BY <1>2, <1>3, <1>4, <1>5, <1>6 DEF ServeIInv

\* The inductive invariant holds of every reachable state.
THEOREM ListenerInvariant == ServeSpec => []ServeIInv
BY ServeInitIInv, ServeStepIInv, PTL DEF ServeSpec

\* A goroutine holds one connection exactly when it is about to hand it over, and no
\* connection is in two hands.
THEOREM ListenerTypeOK == ServeSpec => []ServeTypeOK
<1>1. ServeIInv => ServeTypeOK BY ServeTypeParts DEF ServeIInv
<1> QED BY <1>1, ListenerInvariant, PTL

\* Until the listener is closed, no connection that was taken is dropped on its way to
\* the https server, however often the session is lost (reconnect_listener.go:140-144,
\* tunnel_listener.go:66-70).
THEOREM ListenerNoneDropped == ServeSpec => []NoneDropped
<1>1. ServeIInv => NoneDropped BY DEF ServeIInv, Closing
<1> QED BY <1>1, ListenerInvariant, PTL
=============================================================================
