--------------------------- MODULE MCRailOperation ---------------------------
(***************************************************************************)
(* Small instances of RailOperation for TLC: two revisions of the policy,  *)
(* between which the owner may change while a command is under way.        *)
(***************************************************************************)
EXTENDS RailOperation

TwoRevisions == {"first", "second"}
BothRails == {"solana", "tron"}

=============================================================================
