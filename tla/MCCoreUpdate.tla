---------------------------- MODULE MCCoreUpdate ----------------------------
(***************************************************************************)
(* Instances of CoreUpdate for TLC: two releases of the channel with       *)
(* different cores, and a pushed one with the core of the first.           *)
(***************************************************************************)
EXTENDS CoreUpdate

CONSTANTS r1, r2, hand, i1, i2

MCRelease == {r1, r2, hand}
MCManual == {hand}
MCJarvis == [r \in MCRelease |-> IF r = r2 THEN i2 ELSE i1]
=============================================================================
