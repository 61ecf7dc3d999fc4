----------------------------- MODULE LedgerRows -----------------------------
(***************************************************************************)
(* The rows of the shared usage ledger as a money rail may write them: one *)
(* hold per operation, taken once, and from there only along the table of  *)
(* assertTransition (asset-usage-ledger-record.ts).  Every rail that calls *)
(* the ledger is shown to keep to it, so that the ledger refuses none of   *)
(* its writes; and the ledger itself keeps its rows to it in every lane    *)
(* but the two that it treats apart: Relay's, which may open a released    *)
(* hold again, and Permit2's, which may release a hold before it is taken. *)
(***************************************************************************)
CONSTANT Ops

VARIABLE row   \* row[o]: the state of the hold of o, "none" before it is taken

States == {"none", "reserved", "submitted", "unknown_finality", "finalized",
           "failed_before_effect", "released_unsubmitted",
           "failed_confirmed_revert"}

(* A first reservation, and assertTransition.                              *)
Takes(from, to) ==
  \/ from = "none" /\ to = "reserved"
  \/ /\ from = "reserved"
     /\ to \in {"submitted", "unknown_finality", "finalized",
                "failed_before_effect", "released_unsubmitted"}
  \/ /\ from = "submitted"
     /\ to \in {"unknown_finality", "finalized", "failed_confirmed_revert"}
  \/ /\ from = "unknown_finality"
     /\ to \in {"finalized", "failed_confirmed_revert", "released_unsubmitted"}

Init == row = [o \in Ops |-> "none"]

Write(o, to) == Takes(row[o], to) /\ row' = [row EXCEPT ![o] = to]

Next == \E o \in Ops, to \in States : Write(o, to)

Spec == Init /\ [][Next]_row

=============================================================================
