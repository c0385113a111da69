--------------------------- MODULE MCAppClosure ---------------------------
(***************************************************************************)
(* Instances of AppClosure for TLC: every graph of dependencies over three *)
(* apps, with and without their metas.                                     *)
(***************************************************************************)
EXTENDS AppClosure

CONSTANTS a1, a2, a3

MCApp == {a1, a2, a3}
MCManifest == [MCApp -> [deps : SUBSET MCApp] \cup {None}]
=============================================================================
