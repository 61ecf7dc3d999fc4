-------------------------- MODULE MCOperationIndex --------------------------
(* Instances of OperationIndex for TLC: two operations that ask for one     *)
(* account under two keys, or for two accounts under one key.               *)
EXTENDS OperationIndex

CONSTANTS o1, o2, alice, bob, k1, k2, p1, p2

Asks(account, key) == [account |-> account, key |-> key]
OneAccount == [o \in {o1, o2} |-> Asks(alice, IF o = o1 THEN k1 ELSE k2)]
OneKey == [o \in {o1, o2} |-> Asks(IF o = o1 THEN alice ELSE bob, k1)]
MCRequests == {OneAccount, OneKey}

MCPrepares == [p \in {p1, p2} |-> IF p = p1 THEN o1 ELSE o2]

(* o1 may be admitted again.                                                *)
MCAdmissions == [o \in Ops |-> IF o = o1 THEN 2 ELSE 1]
=============================================================================
