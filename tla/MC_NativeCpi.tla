---------------------------- MODULE MC_NativeCpi ----------------------------
(***************************************************************************)
(* Model-checking instance of NativeCpi.                                   *)
(***************************************************************************)
EXTENDS NativeCpi, TLC

CONSTANTS sys, a, b

\* The two non-system pubkeys are interchangeable.
KeySymmetry == Permutations({a, b})

=============================================================================
