--------------------------- MODULE UpdateJournal ---------------------------
(***************************************************************************)
(* What the update machinery of the core promises to whoever reads the     *)
(* settings table: it works like a redo log.  The release to go to is      *)
(* written down first; apps and doorway may only change while that intent  *)
(* stands (or before the first installation is complete); "build" moves    *)
(* when they are at the release it names; the intent goes last.            *)
(***************************************************************************)
CONSTANTS Release, None, Mixed

VARIABLES
    committed,  \* the release the table says is installed, or None
    intent,     \* the release an update was started to, or None
    system      \* the release apps and doorway are at; Mixed in between

jvars == <<committed, intent, system>>

JInit == committed = None /\ intent = None /\ system = Mixed

Intend(r) == intent' = r /\ UNCHANGED <<committed, system>>

Work ==
    /\ intent # None \/ committed = None
    /\ system' \in Release \cup {Mixed}
    /\ UNCHANGED <<committed, intent>>

Commit ==
    /\ intent # None \/ committed = None
    /\ system \in Release
    /\ committed' = system
    /\ UNCHANGED <<intent, system>>

Forget ==
    /\ committed = system
    /\ intent' = None
    /\ UNCHANGED <<committed, system>>

JNext == (\E r \in Release : Intend(r)) \/ Work \/ Commit \/ Forget

JSpec == JInit /\ [][JNext]_jvars

\* Without an intent the table tells the truth about the box.
JournalCovers == committed # None /\ system # committed => intent # None
=============================================================================
