-------------------------- MODULE MCProviderTransfer --------------------------
(***************************************************************************)
(* Small instances of ProviderTransfer for TLC.  Two transfers share one   *)
(* account, so that one may be given the request of the other: p1 is of a  *)
(* lane whose outcome can be observed later, p2 of the one without.  One   *)
(* transfer is enough where the question is about one sealed effect.       *)
(***************************************************************************)
EXTENDS ProviderTransfer, TLC

CONSTANTS p1, p2

TwoLanesAndAwal == p1 :> {"guard", "delegated"} @@ p2 :> {"awal"}
AnyLane == p1 :> Lanes

=============================================================================
