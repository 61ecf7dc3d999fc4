---------------------------- MODULE MCX402Payment ----------------------------
(***************************************************************************)
(* Small instances of X402Payment for TLC.  One purchase is enough: nonces *)
(* are random and per purchase, and the only state two purchases share is  *)
(* the ledger's sum, which AssetUsageLedger checks.                        *)
(***************************************************************************)
EXTENDS X402Payment

=============================================================================
