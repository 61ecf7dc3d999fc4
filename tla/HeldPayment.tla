----------------------------- MODULE HeldPayment -----------------------------
(***************************************************************************)
(* What a money rail promises to the shared daily ledger, whatever it does *)
(* to reach it: an amount is held before its payment can reach the chain,  *)
(* it is charged only when the payment is there for good, and given back   *)
(* only when the payment never happens.  An amount whose payment may still *)
(* be pending stays held.                                                  *)
(***************************************************************************)
CONSTANT Ops

VARIABLES
  hold,   \* hold[o]: what the ledger says of the amount of o
  paid    \* operations whose payment is on the chain

vars == <<hold, paid>>

Holds == {"none", "held", "charged", "given_back"}

Init == hold = [o \in Ops |-> "none"] /\ paid = {}

Decide(o, from, to) ==
  /\ hold[o] = from
  /\ hold' = [hold EXCEPT ![o] = to]
  /\ UNCHANGED paid

Take(o) == Decide(o, "none", "held")

Charge(o) == o \in paid /\ Decide(o, "held", "charged")

GiveBack(o) == o \notin paid /\ Decide(o, "held", "given_back")

(* The payment reaches the chain, or a reorganisation takes it off again.  *)
Pay(o) == /\ hold[o] = "held"
          /\ paid' \in {paid \cup {o}, paid \ {o}}
          /\ UNCHANGED hold

Next == \E o \in Ops : Take(o) \/ Charge(o) \/ GiveBack(o) \/ Pay(o)

Spec == Init /\ [][Next]_vars

=============================================================================
