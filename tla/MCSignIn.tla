------------------------------ MODULE MCSignIn ------------------------------
(***************************************************************************)
(* An instance of SignIn: two requests at a time, two passwords, two       *)
(* secrets, and a limit of two failures in a window of two ticks.          *)
(***************************************************************************)
EXTENDS SignIn, TLC

Symmetry == Permutations(Req) \cup Permutations(Password) \cup Permutations(Secret)

=============================================================================
