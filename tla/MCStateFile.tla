----------------------------- MODULE MCStateFile -----------------------------
(***************************************************************************)
(* Three calls of any kind on one file, locked or not.                     *)
(***************************************************************************)
EXTENDS StateFile, TLC

CONSTANTS c1, c2, c3

CallsAreAlike == Permutations(Calls)

=============================================================================
