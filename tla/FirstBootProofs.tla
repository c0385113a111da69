-------------------------- MODULE FirstBootProofs --------------------------
(***************************************************************************)
(* The safety properties of FirstBoot, for any number of versions, of      *)
(* attempts and of faults.                                                 *)
(***************************************************************************)
EXTENDS FirstBoot, TLAPS

\* How far the host, the installation and the core are, relative to each other:
\* rc.local waits while homeboot runs, and only a machine that is through its first
\* start has a core that goes past its wait for that.
Stages ==
    /\ rc # "done" => ~initDone
    /\ inst # "none" => rc = "wait"
    /\ inst \in {"copy", "start"} => core = "created"
    /\ jarvis \in {"source", "list", "upgrade", "bootpart", "reboot", "console", "serve"}
           => initDone
    /\ installed => initDone

\* Without a fault the first start goes straight through.
Straight ==
    faults = 0 =>
        /\ rc # "failed" /\ homeboot # "failed"
        /\ rc \in {"pull", "run"} => homeboot = "none" /\ keys = 0 /\ core = "none"
        /\ rc = "wait" => homeboot \in {"run", "ok"}
        /\ inst = "register" => keys = 0
        /\ inst \in {"register", "fetch", "download", "create"} => core = "none"

\* Where the key that was registered last is.
KeyInv ==
    /\ inst \in {"fetch", "download", "create", "copy", "start"} => key = registered
    /\ inst = "start" => volKey = key
    /\ KeyAgrees

\* What either boot entry names is there.
BootInv ==
    /\ default \in kernels
    /\ grub # None => grub \in kernels
    /\ jarvis = "bootpart" => want \in kernels

\* The variables that are true or false.
Booleans ==
    /\ image \in BOOLEAN /\ initDone \in BOOLEAN /\ installed \in BOOLEAN /\ updating \in BOOLEAN
    /\ source \in BOOLEAN /\ console \in BOOLEAN /\ uefi \in BOOLEAN /\ again \in BOOLEAN
    /\ offered \in BOOLEAN /\ missed \in BOOLEAN

\* The others.
Types ==
    /\ rc \in {"pull", "run", "wait", "mark", "done", "failed"}
    /\ homeboot \in {"none", "run", "ok", "failed"}
    /\ inst \in {"none", "register", "fetch", "download", "create", "copy", "start"}
    /\ homeboot = "run" <=> inst # "none"
    /\ {key, registered, volKey} \subseteq 1 .. keys \cup {None}
    /\ core \in {"none", "created", "up"}
    /\ jarvis \in {"off", "start", "initdone", "source", "list", "upgrade", "bootpart",
                   "reboot", "console", "serve"}
    /\ running # None => (core = "up" <=> jarvis # "off")
    /\ want \in Version
    /\ kernels \subseteq Version /\ default \in Version /\ grub \in Version \cup {None}
    /\ running \in Version \cup {None}
    /\ keys \in 0 .. MaxKeys /\ faults \in 0 .. MaxFaults

\* The inductive invariant.
IInv == Types /\ Booleans /\ Stages /\ Straight /\ KeyInv /\ BootInv

-----------------------------------------------------------------------------
\* The type invariant is those two.
LEMMA TypeParts == TypeOK <=> Types /\ Booleans
BY DEF TypeOK, Types, Booleans

\* The machine starts well typed.
LEMMA InitTypes == Init => Types /\ Booleans
<1> SUFFICES ASSUME Init PROVE Types /\ Booleans OBVIOUS
<1>1. Booleans BY Zenon DEF Init, Booleans
<1>2. Types BY FirstBootAssumption DEF Init, Types, Version
<1> QED BY <1>1, <1>2

\* Every step of FirstBoot assigns a boolean to a boolean.
LEMMA BooleansStep ==
    ASSUME Booleans, [Next]_vars
    PROVE  Booleans'
<1> USE Zenon DEF Booleans, host, install, box, plan, os, history, Fault, At, Exit, PowerUp
<1>1. CASE PowerLoss BY <1>1 DEF PowerLoss
<1>2. CASE Rescue BY <1>2 DEF Rescue
<1>3. CASE pull BY <1>3 DEF pull
<1>4. CASE dockerRun BY <1>4 DEF dockerRun
<1>5. CASE homebootReturns BY <1>5 DEF homebootReturns
<1>6. CASE markInitDone BY <1>6 DEF markInitDone
<1>7. CASE registerEndpoint BY <1>7 DEF registerEndpoint
<1>8. CASE downloadCore BY <1>8 DEF downloadCore
<1>9. CASE downloadImages BY <1>9 DEF downloadImages
<1>10. CASE createCore BY <1>10 DEF createCore
<1>11. CASE copyFiles BY <1>11 DEF copyFiles
<1>12. CASE startCore BY <1>12 DEF startCore
<1>13. CASE installFails BY <1>13 DEF installFails
<1>14. CASE maybeUpdateOS BY <1>14 DEF maybeUpdateOS
<1>15. CASE waitOSInitDone BY <1>15 DEF waitOSInitDone
<1>16. CASE setOSUpdateSource BY <1>16 DEF setOSUpdateSource
<1>17. CASE listOS BY <1>17 DEF listOS
<1>18. CASE upgradeBurmillaOS BY <1>18 DEF upgradeBurmillaOS
<1>19. CASE updateBootPart BY <1>19 DEF updateBootPart
<1>20. CASE reboot BY <1>20 DEF reboot
<1>21. CASE switchOSConsole BY <1>21 DEF switchOSConsole
<1>22. CASE osFails BY <1>22 DEF osFails
<1>23. CASE Installed BY <1>23 DEF Installed
<1>24. CASE UpdateCore BY <1>24 DEF UpdateCore
<1>25. CASE EditList BY <1>25 DEF EditList
<1>26. CASE UNCHANGED vars BY <1>26 DEF vars
<1> QED
    BY <1>1, <1>2, <1>3, <1>4, <1>5, <1>6, <1>7, <1>8, <1>9, <1>10, <1>11, <1>12, <1>13,
       <1>14, <1>15, <1>16, <1>17, <1>18, <1>19, <1>20, <1>21, <1>22, <1>23, <1>24, <1>25, <1>26
       DEF Next, RcLocal, Homeboot, Jarvis

\* Every step of FirstBoot keeps the types.
LEMMA TypesStep ==
    ASSUME Types, Stages, BootInv, [Next]_vars
    PROVE  Types'
<1> USE FirstBootAssumption DEF Types, Version, host, install, box, plan, os, history, Fault, At, Exit, PowerUp
<1>1. CASE PowerLoss BY <1>1 DEF PowerLoss, Entry, BootInv
<1>2. CASE Rescue BY <1>2 DEF Rescue, Stages
<1>3. CASE pull BY <1>3 DEF pull
<1>4. CASE dockerRun BY <1>4 DEF dockerRun
<1>5. CASE homebootReturns BY <1>5 DEF homebootReturns
<1>6. CASE markInitDone BY <1>6 DEF markInitDone
<1>7. CASE registerEndpoint BY <1>7 DEF registerEndpoint
<1>8. CASE downloadCore BY <1>8 DEF downloadCore
<1>9. CASE downloadImages BY <1>9 DEF downloadImages
<1>10. CASE createCore BY <1>10 DEF createCore
<1>11. CASE copyFiles BY <1>11 DEF copyFiles, Stages
<1>12. CASE startCore BY <1>12 DEF startCore
<1>13. CASE installFails BY <1>13 DEF installFails, Stages
<1>14. CASE maybeUpdateOS BY <1>14 DEF maybeUpdateOS
<1>15. CASE waitOSInitDone BY <1>15 DEF waitOSInitDone
<1>16. CASE setOSUpdateSource BY <1>16 DEF setOSUpdateSource
<1>17. CASE listOS BY <1>17 DEF listOS
<1>18. CASE upgradeBurmillaOS BY <1>18 DEF upgradeBurmillaOS
<1>19. CASE updateBootPart BY <1>19 DEF updateBootPart
<1>20. CASE reboot BY <1>20 DEF reboot, Entry, BootInv
<1>21. CASE switchOSConsole BY <1>21 DEF switchOSConsole
<1>22. CASE osFails BY <1>22 DEF osFails
<1>23. CASE Installed BY <1>23 DEF Installed
<1>24. CASE UpdateCore BY <1>24 DEF UpdateCore
<1>25. CASE EditList BY <1>25 DEF EditList
<1>26. CASE UNCHANGED vars BY <1>26 DEF vars
<1> QED
    BY <1>1, <1>2, <1>3, <1>4, <1>5, <1>6, <1>7, <1>8, <1>9, <1>10, <1>11, <1>12, <1>13,
       <1>14, <1>15, <1>16, <1>17, <1>18, <1>19, <1>20, <1>21, <1>22, <1>23, <1>24, <1>25, <1>26
       DEF Next, RcLocal, Homeboot, Jarvis

\* Every step keeps the host, the installation and the core in step.
LEMMA StagesStep ==
    ASSUME Types, Booleans, Stages, [Next]_vars
    PROVE  Stages'
<1> USE DEF Types, Booleans, Stages, host, install, box, plan, os, history, Fault, At, Exit, PowerUp
<1>1. CASE PowerLoss BY <1>1 DEF PowerLoss
<1>2. CASE Rescue BY <1>2 DEF Rescue
<1>3. CASE pull BY <1>3 DEF pull
<1>4. CASE dockerRun BY <1>4 DEF dockerRun
<1>5. CASE homebootReturns BY <1>5 DEF homebootReturns
<1>6. CASE markInitDone BY <1>6 DEF markInitDone
<1>7. CASE registerEndpoint BY <1>7 DEF registerEndpoint
<1>8. CASE downloadCore BY <1>8 DEF downloadCore
<1>9. CASE downloadImages BY <1>9 DEF downloadImages
<1>10. CASE createCore BY <1>10 DEF createCore
<1>11. CASE copyFiles BY <1>11 DEF copyFiles
<1>12. CASE startCore BY <1>12 DEF startCore
<1>13. CASE installFails BY <1>13 DEF installFails
<1>14. CASE maybeUpdateOS BY <1>14 DEF maybeUpdateOS
<1>15. CASE waitOSInitDone BY <1>15 DEF waitOSInitDone
<1>16. CASE setOSUpdateSource BY <1>16 DEF setOSUpdateSource
<1>17. CASE listOS BY <1>17 DEF listOS
<1>18. CASE upgradeBurmillaOS BY <1>18 DEF upgradeBurmillaOS
<1>19. CASE updateBootPart BY <1>19 DEF updateBootPart
<1>20. CASE reboot BY <1>20 DEF reboot
<1>21. CASE switchOSConsole BY <1>21 DEF switchOSConsole
<1>22. CASE osFails BY <1>22 DEF osFails
<1>23. CASE Installed BY <1>23 DEF Installed
<1>24. CASE UpdateCore BY <1>24 DEF UpdateCore
<1>25. CASE EditList BY <1>25 DEF EditList
<1>26. CASE UNCHANGED vars BY <1>26 DEF vars
<1> QED
    BY <1>1, <1>2, <1>3, <1>4, <1>5, <1>6, <1>7, <1>8, <1>9, <1>10, <1>11, <1>12, <1>13,
       <1>14, <1>15, <1>16, <1>17, <1>18, <1>19, <1>20, <1>21, <1>22, <1>23, <1>24, <1>25, <1>26
       DEF Next, RcLocal, Homeboot, Jarvis

\* Without a fault no step leaves the straight way.
LEMMA StraightStep ==
    ASSUME Types, Booleans, Stages, Straight, [Next]_vars
    PROVE  Straight'
<1> USE FirstBootAssumption DEF Types, Booleans, Stages, Straight, host, install, box, plan, os, history, Fault, At, Exit, PowerUp
<1>1. CASE PowerLoss BY <1>1 DEF PowerLoss
<1>2. CASE Rescue BY <1>2 DEF Rescue
<1>3. CASE pull BY <1>3 DEF pull
<1>4. CASE dockerRun BY <1>4 DEF dockerRun
<1>5. CASE homebootReturns BY <1>5 DEF homebootReturns
<1>6. CASE markInitDone BY <1>6 DEF markInitDone
<1>7. CASE registerEndpoint BY <1>7 DEF registerEndpoint
<1>8. CASE downloadCore BY <1>8 DEF downloadCore
<1>9. CASE downloadImages BY <1>9 DEF downloadImages
<1>10. CASE createCore BY <1>10 DEF createCore
<1>11. CASE copyFiles BY <1>11 DEF copyFiles
<1>12. CASE startCore BY <1>12 DEF startCore
<1>13. CASE installFails BY <1>13 DEF installFails
<1>14. CASE maybeUpdateOS BY <1>14 DEF maybeUpdateOS
<1>15. CASE waitOSInitDone BY <1>15 DEF waitOSInitDone
<1>16. CASE setOSUpdateSource BY <1>16 DEF setOSUpdateSource
<1>17. CASE listOS BY <1>17 DEF listOS
<1>18. CASE upgradeBurmillaOS BY <1>18 DEF upgradeBurmillaOS
<1>19. CASE updateBootPart BY <1>19 DEF updateBootPart
<1>20. CASE reboot BY <1>20 DEF reboot
<1>21. CASE switchOSConsole BY <1>21 DEF switchOSConsole
<1>22. CASE osFails BY <1>22 DEF osFails
<1>23. CASE Installed BY <1>23 DEF Installed
<1>24. CASE UpdateCore BY <1>24 DEF UpdateCore
<1>25. CASE EditList BY <1>25 DEF EditList
<1>26. CASE UNCHANGED vars BY <1>26 DEF vars
<1> QED
    BY <1>1, <1>2, <1>3, <1>4, <1>5, <1>6, <1>7, <1>8, <1>9, <1>10, <1>11, <1>12, <1>13,
       <1>14, <1>15, <1>16, <1>17, <1>18, <1>19, <1>20, <1>21, <1>22, <1>23, <1>24, <1>25, <1>26
       DEF Next, RcLocal, Homeboot, Jarvis

\* Every step keeps track of the key that was registered last.
LEMMA KeyStep ==
    ASSUME Types, Booleans, Stages, KeyInv, [Next]_vars
    PROVE  KeyInv'
<1> USE DEF Types, Booleans, Stages, KeyInv, KeyAgrees, host, install, box, plan, os, history, Fault, At, Exit, PowerUp
<1>1. CASE PowerLoss BY <1>1 DEF PowerLoss
<1>2. CASE Rescue BY <1>2 DEF Rescue
<1>3. CASE pull BY <1>3 DEF pull
<1>4. CASE dockerRun BY <1>4 DEF dockerRun
<1>5. CASE homebootReturns BY <1>5 DEF homebootReturns
<1>6. CASE markInitDone BY <1>6 DEF markInitDone
<1>7. CASE registerEndpoint BY <1>7 DEF registerEndpoint
<1>8. CASE downloadCore BY <1>8 DEF downloadCore
<1>9. CASE downloadImages BY <1>9 DEF downloadImages
<1>10. CASE createCore BY <1>10 DEF createCore
<1>11. CASE copyFiles BY <1>11 DEF copyFiles
<1>12. CASE startCore BY <1>12 DEF startCore
<1>13. CASE installFails BY <1>13 DEF installFails
<1>14. CASE maybeUpdateOS BY <1>14 DEF maybeUpdateOS
<1>15. CASE waitOSInitDone BY <1>15 DEF waitOSInitDone
<1>16. CASE setOSUpdateSource BY <1>16 DEF setOSUpdateSource
<1>17. CASE listOS BY <1>17 DEF listOS
<1>18. CASE upgradeBurmillaOS BY <1>18 DEF upgradeBurmillaOS
<1>19. CASE updateBootPart BY <1>19 DEF updateBootPart
<1>20. CASE reboot BY <1>20 DEF reboot
<1>21. CASE switchOSConsole BY <1>21 DEF switchOSConsole
<1>22. CASE osFails BY <1>22 DEF osFails
<1>23. CASE Installed BY <1>23 DEF Installed
<1>24. CASE UpdateCore BY <1>24 DEF UpdateCore
<1>25. CASE EditList BY <1>25 DEF EditList
<1>26. CASE UNCHANGED vars BY <1>26 DEF vars
<1> QED
    BY <1>1, <1>2, <1>3, <1>4, <1>5, <1>6, <1>7, <1>8, <1>9, <1>10, <1>11, <1>12, <1>13,
       <1>14, <1>15, <1>16, <1>17, <1>18, <1>19, <1>20, <1>21, <1>22, <1>23, <1>24, <1>25, <1>26
       DEF Next, RcLocal, Homeboot, Jarvis

\* Every step leaves both boot entries at a kernel that is there.
LEMMA BootStep ==
    ASSUME Types, BootInv, [Next]_vars
    PROVE  BootInv'
<1> USE DEF Types, BootInv, host, install, box, plan, os, history, Fault, At, Exit, PowerUp
<1>1. CASE PowerLoss BY <1>1 DEF PowerLoss
<1>2. CASE Rescue BY <1>2 DEF Rescue
<1>3. CASE pull BY <1>3 DEF pull
<1>4. CASE dockerRun BY <1>4 DEF dockerRun
<1>5. CASE homebootReturns BY <1>5 DEF homebootReturns
<1>6. CASE markInitDone BY <1>6 DEF markInitDone
<1>7. CASE registerEndpoint BY <1>7 DEF registerEndpoint
<1>8. CASE downloadCore BY <1>8 DEF downloadCore
<1>9. CASE downloadImages BY <1>9 DEF downloadImages
<1>10. CASE createCore BY <1>10 DEF createCore
<1>11. CASE copyFiles BY <1>11 DEF copyFiles
<1>12. CASE startCore BY <1>12 DEF startCore
<1>13. CASE installFails BY <1>13 DEF installFails
<1>14. CASE maybeUpdateOS BY <1>14 DEF maybeUpdateOS
<1>15. CASE waitOSInitDone BY <1>15 DEF waitOSInitDone
<1>16. CASE setOSUpdateSource BY <1>16 DEF setOSUpdateSource
<1>17. CASE listOS BY <1>17 DEF listOS
<1>18. CASE upgradeBurmillaOS BY <1>18 DEF upgradeBurmillaOS
<1>19. CASE updateBootPart BY <1>19 DEF updateBootPart
<1>20. CASE reboot BY <1>20 DEF reboot
<1>21. CASE switchOSConsole BY <1>21 DEF switchOSConsole
<1>22. CASE osFails BY <1>22 DEF osFails
<1>23. CASE Installed BY <1>23 DEF Installed
<1>24. CASE UpdateCore BY <1>24 DEF UpdateCore
<1>25. CASE EditList BY <1>25 DEF EditList
<1>26. CASE UNCHANGED vars BY <1>26 DEF vars
<1> QED
    BY <1>1, <1>2, <1>3, <1>4, <1>5, <1>6, <1>7, <1>8, <1>9, <1>10, <1>11, <1>12, <1>13,
       <1>14, <1>15, <1>16, <1>17, <1>18, <1>19, <1>20, <1>21, <1>22, <1>23, <1>24, <1>25, <1>26
       DEF Next, RcLocal, Homeboot, Jarvis
-----------------------------------------------------------------------------
\* The machine starts in the invariant.
LEMMA InitIInv == Init => IInv
<1> SUFFICES ASSUME Init PROVE IInv OBVIOUS
<1>1. Types /\ Booleans BY InitTypes
<1>2. Stages /\ Straight BY DEF Init, Stages, Straight
<1>3. KeyInv BY DEF Init, KeyInv, KeyAgrees
<1>4. BootInv BY DEF Init, BootInv
<1> QED BY <1>1, <1>2, <1>3, <1>4 DEF IInv

\* Every step keeps it.
LEMMA StepIInv == IInv /\ [Next]_vars => IInv'
<1> SUFFICES ASSUME IInv, [Next]_vars PROVE IInv' OBVIOUS
<1>1. Types /\ Booleans /\ Stages /\ Straight /\ KeyInv /\ BootInv BY DEF IInv
<1>2. Types' BY <1>1, TypesStep
<1>3. Booleans' BY <1>1, BooleansStep
<1>4. Stages' BY <1>1, StagesStep
<1>5. Straight' BY <1>1, StraightStep
<1>6. KeyInv' BY <1>1, KeyStep
<1>7. BootInv' BY <1>1, BootStep
<1> QED BY <1>2, <1>3, <1>4, <1>5, <1>6, <1>7 DEF IInv

\* It has the four properties.
LEMMA IInvImplies == IInv => TypeOK /\ InitNotCutOff /\ KeyAgrees /\ Bootable
<1> SUFFICES ASSUME IInv PROVE TypeOK /\ InitNotCutOff /\ KeyAgrees /\ Bootable OBVIOUS
<1>1. TypeOK BY TypeParts DEF IInv
<1>2. InitNotCutOff BY FirstBootAssumption DEF IInv, Types, Straight, InitNotCutOff
<1>3. KeyAgrees BY DEF IInv, KeyInv
<1>4. Bootable BY DEF IInv, BootInv, Bootable, Entry
<1> QED BY <1>1, <1>2, <1>3, <1>4

\* The inductive invariant holds of every reachable state.
THEOREM FirstBootInvariant == Spec => []IInv
BY InitIInv, StepIInv, PTL DEF Spec

\* Every variable keeps its type, homeboot runs exactly while its installation does,
\* and jarvis exactly while the core is up.
THEOREM FirstBootTypeOK == Spec => []TypeOK
BY FirstBootInvariant, IInvImplies, PTL

\* The first start fails only after a fault: the core that rc.local has started
\* never reboots the machine under it (update_os.go:132-157).
THEOREM FirstBootNotCutOff == Spec => []InitNotCutOff
BY FirstBootInvariant, IInvImplies, PTL

\* The core that runs has the key that was registered last (boot.go:202), unless a
\* box with a running core was registered anew.
THEOREM FirstBootKeyAgrees == Spec => []KeyAgrees
BY FirstBootInvariant, IInvImplies, PTL

\* Whatever entry the machine boots, its kernel is there, wherever an upgrade of the
\* OS was cut off (update_os.go:101-115).
THEOREM FirstBootBootable == Spec => []Bootable
BY FirstBootInvariant, IInvImplies, PTL
=============================================================================
