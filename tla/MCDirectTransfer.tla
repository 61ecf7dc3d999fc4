-------------------------- MODULE MCDirectTransfer --------------------------
(***************************************************************************)
(* Small instances of DirectTransfer for TLC.  Operations are model values *)
(* and interchangeable; the account's nonces are few, but enough for a     *)
(* foreign transaction to take a frozen nonce and for two transfers to be  *)
(* frozen with the same one.                                               *)
(***************************************************************************)
EXTENDS DirectTransfer, TLC

OpsAreAlike == Permutations(Ops)

=============================================================================
