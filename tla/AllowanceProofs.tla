-------------------------- MODULE AllowanceProofs --------------------------
(* Theorems of the two stores that bound what a money operation may spend:   *)
(* one usage bucket, for every set of keys, policies, amounts and instants,  *)
(* and the allowlist of a profile, for every number of terminals, money      *)
(* operations, policy files, families and accounts, and for chains of any    *)
(* length.                                                                   *)
EXTENDS AssetUsageLedger, AllowlistPolicy, FiniteSetTheorems,
        WellFoundedInduction, TLAPS

-----------------------------------------------------------------------------
(* Sums over finite sets *)

Pick(s) == CHOOSE x \in s : TRUE
Folded(c, g, s) == IF s = {} THEN 0 ELSE c[Pick(s)] + g[s \ {Pick(s)}]
Adds(c, S, g) == g = [s \in SUBSET S |-> Folded(c, g, s)]

Family(S, F) == IsFiniteSet(S) /\ F \subseteq SUBSET S /\ F # {}
Smallest(T, F) == T \in F /\ \A U \in F : U \subseteq T => U = T

LEMMA FamilyHasSmallest ==
  ASSUME NEW S, NEW F, Family(S, F)
  PROVE  \E T : Smallest(T, F)
<1> DEFINE R == StrictSubsetOrdering(S)
           D == FiniteSubsetsOf(S)
<1>1. IsWellFoundedOn(R, D)
  BY FS_StrictSubsetOrderingWellFounded
<1>2. F \subseteq D /\ F # {}
  BY FS_Subset DEF Family, FiniteSubsetsOf
<1> HIDE DEF R, D
<1>3. PICK T \in F : \A U \in F : ~ (<<U, T>> \in R)
  BY <1>1, <1>2, WFMin
<1>4. ASSUME NEW U \in F, U \subseteq T PROVE U = T
  BY <1>3, <1>4 DEF Family, StrictSubsetOrdering, R
<1> QED BY <1>4 DEF Smallest

LEMMA LeastNumber ==
  ASSUME NEW N \in SUBSET Nat, N # {}
  PROVE  \E m \in N : \A n \in N : m <= n
<1>1. PICK k : k \in N
  OBVIOUS
<1> DEFINE F == {0 .. n : n \in {i \in N : i <= k}}
<1>2. F # {} /\ \A T \in F : \E n \in N : n <= k /\ T = 0 .. n
  BY <1>1
<1>3. F \subseteq SUBSET (0 .. k)
  <2>1. ASSUME NEW n \in Nat, n <= k PROVE 0 .. n \subseteq 0 .. k
    BY <1>1, <2>1
  <2> HIDE DEF F
  <2> QED BY <1>2, <2>1
<1>4. IsFiniteSet(0 .. k)
  BY <1>1, FS_Interval
<1> HIDE DEF F
<1>5. PICK T : Smallest(T, F)
  BY <1>2, <1>3, <1>4, FamilyHasSmallest DEF Family
<1>6. PICK m \in N : m <= k /\ T = 0 .. m
  BY <1>2, <1>5 DEF Smallest
<1>7. ASSUME NEW n \in N, n < m PROVE FALSE
  <2>1. 0 .. n \subseteq 0 .. m /\ m \in 0 .. m /\ m \notin 0 .. n
    BY <1>7
  <2>2. 0 .. n \in F
    BY <1>1, <1>6, <1>7 DEF F
  <2> QED BY <2>1, <2>2, <1>5, <1>6 DEF Smallest
<1> QED BY <1>7

LEMMA PickIn == ASSUME NEW s, s # {} PROVE Pick(s) \in s
BY DEF Pick

LEMMA AddsExists ==
  ASSUME NEW c, NEW S, IsFiniteSet(S)
  PROVE  \E g : Adds(c, S, g)
<1> DEFINE Upto(n) == {s \in SUBSET S : Cardinality(s) <= n}
           Good(g, n) == \A s \in Upto(n) : g[s] = Folded(c, g, s)
           Bad == {n \in Nat : ~ \E g : Good(g, n)}
<1>1. \A s \in SUBSET S : IsFiniteSet(s) /\ Cardinality(s) \in Nat
  BY FS_Subset, FS_CardinalityType
<1>2. \E g : Good(g, 0)
  <2>1. \A s \in Upto(0) : s = {}
    BY <1>1, FS_EmptySet
  <2>2. Good([s \in SUBSET S |-> 0], 0)
    BY <2>1 DEF Folded
  <2> QED BY <2>2
<1>3. ASSUME NEW n \in Nat, NEW g, Good(g, n) PROVE \E h : Good(h, n + 1)
  <2> DEFINE h == [s \in SUBSET S |-> IF s \in Upto(n) THEN g[s] ELSE Folded(c, g, s)]
  <2>1. ASSUME NEW s \in Upto(n + 1) PROVE h[s] = Folded(c, h, s)
    <3>1. h[s] = Folded(c, g, s)
      BY <1>3
    <3>2. CASE s = {}
      BY <3>1, <3>2 DEF Folded
    <3>3. CASE s # {}
      <4>1. Pick(s) \in s
        BY <3>3, PickIn
      <4> DEFINE t == s \ {Pick(s)}
      <4>2. Cardinality(t) = Cardinality(s) - 1 /\ t \in SUBSET S
        BY <1>1, <4>1, FS_RemoveElement
      <4>3. t \in Upto(n)
        BY <1>1, <4>2
      <4>4. h[t] = g[t]
        BY <4>3
      <4> QED BY <3>1, <3>3, <4>4 DEF Folded
    <3> QED BY <3>2, <3>3
  <2> QED BY <2>1
<1>4. Bad = {}
  <2> SUFFICES ASSUME Bad # {} PROVE FALSE
    OBVIOUS
  <2>1. PICK m \in Bad : \A n \in Bad : m <= n
    BY LeastNumber
  <2>2. m # 0
    BY <1>2
  <2>3. m - 1 \in Nat /\ m - 1 \notin Bad
    BY <2>1, <2>2
  <2>4. PICK g : Good(g, m - 1)
    BY <2>3
  <2> QED BY <1>3, <2>1, <2>3, <2>4
<1>5. PICK g : Good(g, Cardinality(S))
  BY <1>1, <1>4
<1>6. \A s \in SUBSET S : s \in Upto(Cardinality(S))
  BY FS_Subset
<1> DEFINE h == [s \in SUBSET S |-> g[s]]
<1>7. ASSUME NEW s \in SUBSET S PROVE h[s] = Folded(c, h, s)
  <2>1. h[s] = Folded(c, g, s)
    BY <1>5, <1>6
  <2> QED BY <2>1, PickIn DEF Folded
<1> QED BY <1>7 DEF Adds

LEMMA SumIsAdded ==
  ASSUME NEW c, NEW S, IsFiniteSet(S)
  PROVE  \E g : Adds(c, S, g) /\ SumFunctionOnSet(c, S) = g[S]
<1>1. SumFunctionOnSet(c, S) = (CHOOSE g : Adds(c, S, g))[S]
  BY DEF SumFunctionOnSet, FoldFunctionOnSet, MapThenFoldSet, Pick, Adds, Folded
<1> QED BY <1>1, AddsExists

LEMMA AddsAgree ==
  ASSUME NEW c, NEW S, NEW T \in SUBSET S, IsFiniteSet(S),
         NEW f, NEW g, Adds(c, S, f), Adds(c, T, g)
  PROVE  f[T] = g[T]
<1> DEFINE Bad == {U \in SUBSET T : f[U] # g[U]}
<1> SUFFICES ASSUME Bad # {} PROVE FALSE
  OBVIOUS
<1>1. PICK U \in Bad : \A V \in Bad : V \subseteq U => V = U
  <2>1. Family(T, Bad)
    BY FS_Subset DEF Family
  <2> HIDE DEF Bad
  <2> QED BY <2>1, FamilyHasSmallest DEF Smallest
<1>2. f[U] = Folded(c, f, U) /\ g[U] = Folded(c, g, U)
  BY DEF Adds
<1>3. U # {}
  BY <1>2 DEF Folded
<1>4. Pick(U) \in U
  BY <1>3, PickIn
<1>5. f[U \ {Pick(U)}] = g[U \ {Pick(U)}]
  BY <1>1, <1>4
<1> QED BY <1>2, <1>5 DEF Folded

LEMMA SumEmpty == ASSUME NEW c PROVE SumFunctionOnSet(c, {}) = 0
<1>1. PICK g : Adds(c, {}, g) /\ SumFunctionOnSet(c, {}) = g[{}]
  BY SumIsAdded, FS_EmptySet
<1>2. g[{}] = Folded(c, g, {})
  BY <1>1 DEF Adds
<1> QED BY <1>1, <1>2 DEF Folded

LEMMA SumPicks ==
  ASSUME NEW c, NEW S, IsFiniteSet(S), S # {}
  PROVE  SumFunctionOnSet(c, S) = c[Pick(S)] + SumFunctionOnSet(c, S \ {Pick(S)})
<1>1. PICK f : Adds(c, S, f) /\ SumFunctionOnSet(c, S) = f[S]
  BY SumIsAdded
<1> DEFINE T == S \ {Pick(S)}
<1>2. T \in SUBSET S /\ IsFiniteSet(T)
  BY FS_Subset
<1>3. PICK g : Adds(c, T, g) /\ SumFunctionOnSet(c, T) = g[T]
  BY <1>2, SumIsAdded
<1>4. f[T] = g[T]
  BY <1>1, <1>2, <1>3, AddsAgree
<1>5. f[S] = c[Pick(S)] + f[T]
  BY <1>1 DEF Adds, Folded
<1> QED BY <1>1, <1>3, <1>4, <1>5

Costs(c, S) == \A x \in S : c[x] \in Nat

LEMMA SumIsNatural ==
  ASSUME NEW c, NEW S, IsFiniteSet(S), Costs(c, S)
  PROVE  SumFunctionOnSet(c, S) \in Nat
<1> DEFINE Bad == {U \in SUBSET S : SumFunctionOnSet(c, U) \notin Nat}
<1> SUFFICES ASSUME Bad # {} PROVE FALSE
  OBVIOUS
<1>0. \A U \in SUBSET S : IsFiniteSet(U)
  BY FS_Subset
<1>1. PICK U \in Bad : \A V \in Bad : V \subseteq U => V = U
  <2>1. Family(S, Bad)
    BY FS_Subset DEF Family
  <2> HIDE DEF Bad
  <2> QED BY <2>1, FamilyHasSmallest DEF Smallest
<1>2. U # {}
  <2>1. SumFunctionOnSet(c, U) \notin Nat
    BY <1>1
  <2> QED BY <2>1, SumEmpty
<1>3. Pick(U) \in U
  BY <1>2, PickIn
<1>4. SumFunctionOnSet(c, U \ {Pick(U)}) \in Nat
  BY <1>1, <1>3
<1>5. c[Pick(U)] \in Nat
  BY <1>3 DEF Costs
<1> QED BY <1>0, <1>1, <1>2, <1>4, <1>5, SumPicks

LEMMA SumTakes ==
  ASSUME NEW c, NEW S, IsFiniteSet(S), Costs(c, S), NEW x \in S
  PROVE  SumFunctionOnSet(c, S) = c[x] + SumFunctionOnSet(c, S \ {x})
<1> DEFINE Sum(U) == SumFunctionOnSet(c, U)
           Bad == {U \in SUBSET S : \E y \in U : Sum(U) # c[y] + Sum(U \ {y})}
<1> HIDE DEF Sum
<1> SUFFICES ASSUME Bad # {} PROVE FALSE
  BY DEF Sum
<1>0. \A U \in SUBSET S : IsFiniteSet(U) /\ Costs(c, U)
  BY FS_Subset DEF Costs
<1>1. PICK U \in Bad : \A V \in Bad : V \subseteq U => V = U
  <2>1. Family(S, Bad)
    BY FS_Subset DEF Family
  <2> HIDE DEF Bad
  <2> QED BY <2>1, FamilyHasSmallest DEF Smallest
<1>2. PICK y \in U : Sum(U) # c[y] + Sum(U \ {y})
  OBVIOUS
<1> DEFINE p == Pick(U)
<1>3. p \in U
  BY <1>2, PickIn
<1> HIDE DEF p
<1>4. Sum(U) = c[p] + Sum(U \ {p})
  BY <1>0, <1>2, SumPicks DEF p, Sum
<1>5. p # y
  BY <1>2, <1>4
<1>6. U \ {p} \notin Bad /\ U \ {y} \notin Bad
  BY <1>1, <1>2, <1>3
<1>7. Sum(U \ {p}) = c[y] + Sum((U \ {p}) \ {y})
  BY <1>2, <1>3, <1>5, <1>6
<1>8. Sum(U \ {y}) = c[p] + Sum((U \ {y}) \ {p})
  BY <1>2, <1>3, <1>5, <1>6
<1>9. (U \ {p}) \ {y} = (U \ {y}) \ {p}
  OBVIOUS
<1>10. c[y] \in Nat /\ c[p] \in Nat /\ Sum((U \ {p}) \ {y}) \in Nat
  BY <1>0, <1>2, <1>3, SumIsNatural DEF Costs, Sum
<1> QED BY <1>2, <1>4, <1>7, <1>8, <1>9, <1>10

LEMMA SumGrows ==
  ASSUME NEW c, NEW d, NEW S, NEW T, IsFiniteSet(T), S \subseteq T,
         Costs(c, S), Costs(d, T), \A x \in S : c[x] <= d[x]
  PROVE  SumFunctionOnSet(c, S) <= SumFunctionOnSet(d, T)
<1> DEFINE Less(U) == \A V \in SUBSET T :
                        U \subseteq V => SumFunctionOnSet(c, U) <= SumFunctionOnSet(d, V)
           Bad == {U \in SUBSET S : ~ Less(U)}
<1> SUFFICES ASSUME Bad # {} PROVE FALSE
  OBVIOUS
<1>0. /\ \A U \in SUBSET S : IsFiniteSet(U) /\ Costs(c, U)
      /\ \A V \in SUBSET T : IsFiniteSet(V) /\ Costs(d, V)
  BY FS_Subset DEF Costs
<1>1. PICK U \in Bad : \A V \in Bad : V \subseteq U => V = U
  <2>1. Family(S, Bad)
    BY FS_Subset DEF Family
  <2> HIDE DEF Bad
  <2> QED BY <2>1, FamilyHasSmallest DEF Smallest
<1>2. PICK V \in SUBSET T : U \subseteq V /\ ~ (SumFunctionOnSet(c, U) <= SumFunctionOnSet(d, V))
  BY <1>1
<1>3. U # {}
  BY <1>0, <1>2, SumEmpty, SumIsNatural
<1>4. PICK x \in U : TRUE
  BY <1>3
<1>5. SumFunctionOnSet(c, U) = c[x] + SumFunctionOnSet(c, U \ {x})
  BY <1>0, SumTakes
<1>6. SumFunctionOnSet(d, V) = d[x] + SumFunctionOnSet(d, V \ {x})
  BY <1>0, <1>2, SumTakes
<1>7. Less(U \ {x})
  <2>1. /\ U \ {x} \in SUBSET S /\ U \ {x} \subseteq U /\ U \ {x} # U
    OBVIOUS
  <2> HIDE DEF Less
  <2> QED BY <1>1, <2>1
<1>8. SumFunctionOnSet(c, U \ {x}) <= SumFunctionOnSet(d, V \ {x})
  BY <1>2, <1>7
<1>9. /\ SumFunctionOnSet(c, U \ {x}) \in Nat /\ SumFunctionOnSet(d, V \ {x}) \in Nat
      /\ c[x] \in Nat /\ d[x] \in Nat /\ c[x] <= d[x]
  BY <1>0, <1>2, SumIsNatural DEF Costs
<1> QED BY <1>2, <1>5, <1>6, <1>8, <1>9

-----------------------------------------------------------------------------

(* The inductive invariant: rows have their type and pass the validation of *)
(* every read.  RowsValid is not inductive alone: a settlement's effect is  *)
(* stamped between the hold's last write and this one only because the      *)
(* stamps it is taken from are instants.                                   *)
IInv == TypeOK /\ RowsValid

(* A write either takes up a hold, which passes the daily cap if it is      *)
(* charged at all (a released row and a profile's own policy are not), ...  *)
Enters(k, r) ==
  /\ k \in Stored => rows[k].state = "failed_before_effect"
  /\ \/ r.policy \notin AllowlistPolicies
     \/ r.state = "released_unsubmitted"
     \/ /\ r.state = "reserved"
        /\ \E now \in Times :
             /\ now <= r.updatedAt
             /\ SumUsage(now) + r.amount <= DailyLimit[r.policy]

(* ... or carries an open hold on, at no more than it held and no earlier.  *)
Follows(k, r) ==
  /\ k \in Stored
  /\ rows[k].state \in Open
  /\ r.policy = rows[k].policy
  /\ r.amount = rows[k].amount
  /\ r.effectAt # Null => rows[k].updatedAt <= r.effectAt

(* What one write does, whichever operation makes it: the row it leaves is  *)
(* typed and valid, its stamp is the newest of the bucket, and the row it   *)
(* replaces was still open or is Relay's hold that failed before an effect. *)
(* A hold whose money may be out is not called untouched.                  *)
Writes(k, r) ==
  /\ Write(k, r)
  /\ r \in Row
  /\ RowValid(r)
  /\ \A j \in Stored : rows[j].updatedAt <= r.updatedAt
  /\ k \in Stored /\ rows[k].state \in Terminal =>
       /\ rows[k].state = "failed_before_effect"
       /\ Lane[k] = "bridge"
       /\ r.state = "reserved"
  /\ MaybeSent(k) => r.state \notin {"reserved", "failed_before_effect"}
  /\ Enters(k, r) \/ Follows(k, r)

(* The stamp of a write is an instant no older than any stamp it follows.  *)
LEMMA StampBounds ==
  ASSUME TypeOK, NEW now \in Times, NEW at \in Times, BucketStamp(at, now)
  PROVE  /\ at \in Nat
         /\ \A j \in Stored : rows[j].updatedAt <= at
BY TimeAssumption DEF BucketStamp, Times, TypeOK, Row

LEMMA StateNames ==
  /\ \A x \in {"reserved", "finalized", "failed_before_effect",
               "released_unsubmitted", "failed_confirmed_revert"} : x \in States
  /\ "reserved" \notin Terminal
BY DEF States, Terminal

(* q is row r with a new state, stamp, effect and consumption.             *)
Carries(q, r, s, at, e, c, f) ==
  /\ q \in Row
  /\ q.state = s /\ q.updatedAt = at /\ q.effectAt = e
  /\ q.amount = r.amount /\ q.reservedAt = r.reservedAt /\ q.policy = r.policy
  /\ q.consumed = c /\ q.actualFee = f

(* q is a valid hold, as one taken at that instant is.                     *)
FreshHold(q, p, a, at) ==
  /\ q \in Row /\ RowValid(q)
  /\ q.state = "reserved" /\ q.updatedAt = at /\ q.reservedAt = at
  /\ q.consumed = Null /\ q.actualFee = FALSE
  /\ q.policy = p /\ q.amount = a

(* The rows that an operation builds from the row it found.                *)
LEMMA RewrittenRow ==
  ASSUME NEW r \in Row, NEW s \in States, NEW at \in Times,
         NEW e \in Times \cup {Null}
  PROVE  Carries(Rewritten(r, s, at, e), r, s, at, e, r.consumed, r.actualFee)
BY DEF Carries, Rewritten, Row

LEMMA ConsumedRow ==
  ASSUME NEW r \in Row, NEW s \in States, NEW at \in Times,
         NEW e \in Times \cup {Null}, NEW c \in Nat
  PROVE  Carries(Consumed(r, s, at, e, c), r, s, at, e, c, r.actualFee)
<1> DEFINE w == Rewritten(r, s, at, e)
<1>1. Carries(w, r, s, at, e, r.consumed, r.actualFee)
  BY RewrittenRow
<1> HIDE DEF w
<1>2. Carries([w EXCEPT !.consumed = c], r, s, at, e, c, r.actualFee)
  BY <1>1 DEF Carries, Row
<1> QED BY <1>2 DEF Consumed, w

LEMMA ChargedFeeRow ==
  ASSUME NEW r \in Row, NEW at \in Times, NEW fee \in Nat
  PROVE  Carries(ChargedFee(r, at, fee), r, "finalized", at, at, fee, TRUE)
<1> DEFINE w == Consumed(r, "finalized", at, at, fee)
<1>1. Carries(w, r, "finalized", at, at, fee, r.actualFee)
  BY ConsumedRow, StateNames
<1> HIDE DEF w
<1>2. Carries([w EXCEPT !.actualFee = TRUE], r, "finalized", at, at, fee, TRUE)
  BY <1>1 DEF Carries, Row
<1> QED BY <1>2 DEF ChargedFee, w

LEMMA ReservedRow ==
  ASSUME NEW p \in Policies, NEW a \in Amounts, NEW at \in Times
  PROVE  FreshHold(Reserved(p, a, at), p, a, at)
BY AmountAssumption, TimeAssumption
DEF FreshHold, Reserved, Row, RowValid, Null, States, Terminal, Times

(* An open row that a valid bucket holds has consumed nothing yet.         *)
LEMMA OpenRow ==
  ASSUME NEW r \in Row, RowValid(r), r.state \notin {"finalized", "failed_confirmed_revert"}
  PROVE  r.consumed = Null /\ r.actualFee = FALSE
BY DEF RowValid, Row

LEMMA ReserveWrites ==
  ASSUME IInv, NEW k \in Keys, NEW now \in Times, NEW at \in Times,
         NEW p \in Policies, NEW a \in Amounts, Reserve(k, p, a, now, at)
  PROVE  \E r : Writes(k, r)
<1> DEFINE r == Reserved(p, a, at)
<1>1. \A j \in Stored : rows[j].updatedAt <= at
  BY StampBounds DEF Reserve, IInv
<1>2. /\ Write(k, r) /\ k \notin Stored
      /\ now <= at /\ SumUsage(now) + a <= DailyLimit[p]
  BY DEF Reserve, BucketStamp, Admitted
<1>3. /\ r \in Row /\ RowValid(r) /\ r.state = "reserved" /\ r.updatedAt = at
      /\ r.policy = p /\ r.amount = a
  <2>1. FreshHold(r, p, a, at)
    BY ReservedRow
  <2> HIDE DEF r
  <2> QED BY <2>1 DEF FreshHold
<1> HIDE DEF r
<1>4. Enters(k, r)
  BY <1>2, <1>3 DEF Enters
<1> QED BY <1>1, <1>2, <1>3, <1>4 DEF Writes, MaybeSent

LEMMA ReserveWithinOwnerCapWrites ==
  ASSUME IInv, NEW k \in Keys, NEW now \in Times, NEW at \in Times,
         NEW p \in Policies, NEW a \in Amounts,
         ReserveWithinOwnerCap(k, p, a, now, at)
  PROVE  \E r : Writes(k, r)
<1> DEFINE r == Reserved(p, a, at)
<1>1. \A j \in Stored : rows[j].updatedAt <= at
  BY StampBounds DEF ReserveWithinOwnerCap, IInv
<1>2. Write(k, r) /\ k \notin Stored
  BY DEF ReserveWithinOwnerCap
<1>3. /\ r \in Row /\ RowValid(r) /\ r.state = "reserved" /\ r.updatedAt = at
      /\ r.policy = p
  <2>1. FreshHold(r, p, a, at)
    BY ReservedRow
  <2> HIDE DEF r
  <2> QED BY <2>1 DEF FreshHold
<1> HIDE DEF r
<1>4. p \notin AllowlistPolicies
  BY CapAssumption DEF ReserveWithinOwnerCap
<1>5. Enters(k, r)
  BY <1>2, <1>3, <1>4 DEF Enters
<1> QED BY <1>1, <1>2, <1>3, <1>5 DEF Writes, MaybeSent

LEMMA ReopenFailedWrites ==
  ASSUME IInv, NEW k \in Keys, NEW now \in Times, NEW at \in Times,
         NEW p \in Policies, NEW a \in Amounts, ReopenFailed(k, p, a, now, at)
  PROVE  \E r : Writes(k, r)
<1> DEFINE w == Rewritten(rows[k], "reserved", at, Null)
           r == [w EXCEPT !.reservedAt = at]
<1>1. rows[k] \in Row /\ RowValid(rows[k]) /\ rows[k].state = "failed_before_effect"
  BY DEF ReopenFailed, IInv, TypeOK, RowsValid
<1>2. \A j \in Stored : rows[j].updatedAt <= at
  BY StampBounds DEF ReopenFailed, IInv
<1>3. Write(k, r) /\ Lane[k] = "bridge"
  BY DEF ReopenFailed
<1>4. Carries(w, rows[k], "reserved", at, Null, Null, FALSE)
  <2>1. rows[k].consumed = Null /\ rows[k].actualFee = FALSE
    BY <1>1, OpenRow
  <2>2. Carries(w, rows[k], "reserved", at, Null, rows[k].consumed, rows[k].actualFee)
    BY <1>1, RewrittenRow, StateNames
  <2> HIDE DEF w
  <2> QED BY <2>1, <2>2
<1> HIDE DEF w
<1>5. /\ r \in Row
      /\ r.state = "reserved" /\ r.updatedAt = at /\ r.effectAt = Null
      /\ r.reservedAt = at /\ r.consumed = Null /\ r.actualFee = FALSE
      /\ r.policy = rows[k].policy /\ r.amount = rows[k].amount
  BY <1>4 DEF Carries, Row
<1> HIDE DEF r
<1>6. RowValid(r)
  BY <1>5, TimeAssumption DEF RowValid, Row, Null, Times
<1>7. /\ now <= at /\ SumUsage(now) + a <= DailyLimit[p]
      /\ rows[k].policy = p /\ rows[k].amount = a
  BY DEF ReopenFailed, BucketStamp, Admitted, AssertReplay
<1>8. Enters(k, r)
  BY <1>1, <1>5, <1>7 DEF Enters
<1> QED BY <1>1, <1>2, <1>3, <1>5, <1>6, <1>8 DEF Writes, MaybeSent

LEMMA TransitionWrites ==
  ASSUME IInv, NEW k \in Keys, NEW now \in Times, NEW at \in Times,
         NEW s \in States \ {"reserved"},
         NEW c \in Amounts \cup {0, Null}, NEW proven \in Times \cup {Null},
         Transition(k, s, c, proven, now, at)
  PROVE  \E r : Writes(k, r)
<1> DEFINE effect == EffectStamp(rows[k], proven, at)
<1>1. rows[k] \in Row /\ RowValid(rows[k])
  BY DEF Transition, IInv, TypeOK, RowsValid
<1>2. k \in Stored /\ rows[k].state \in {"reserved", "submitted", "unknown_finality"}
  BY DEF Transition, AssertTransition
<1>3. /\ rows[k].state \notin Terminal /\ rows[k].state \in Open
      /\ rows[k].consumed = Null /\ rows[k].actualFee = FALSE
  BY <1>1, <1>2, OpenRow DEF Terminal, Open, States
<1>4. \A j \in Stored : rows[j].updatedAt <= at
  BY StampBounds DEF Transition, IInv
<1>5. rows[k].updatedAt <= at /\ rows[k].reservedAt <= rows[k].updatedAt
  BY <1>1, <1>2, <1>4 DEF RowValid
<1>6. c # Null => c \in Nat /\ c <= rows[k].amount /\ s = "failed_confirmed_revert"
  <2>1. c # Null => c \in Nat
    BY AmountAssumption
  <2>2. c # Null => c <= rows[k].amount /\ s = "failed_confirmed_revert"
    BY DEF Transition
  <2> QED BY <2>1, <2>2
<1>7. MaybeSent(k) => s \notin {"reserved", "failed_before_effect"}
  BY DEF Transition, AssertTransition, MaybeSent
<1>8. CASE s = "finalized"
  <2>1. PICK e \in Times : /\ e = effect
                           /\ rows[k].updatedAt <= e
                           /\ e <= at
    BY <1>1, <1>5, TimeAssumption DEF EffectStamp, Row, Times, Null
  <2> HIDE DEF effect
  <2> DEFINE r == Rewritten(rows[k], s, at, e)
  <2>2. Write(k, r)
    BY <1>8, <2>1 DEF Transition, effect
  <2>3. Carries(r, rows[k], s, at, e, Null, FALSE)
    <3>1. Carries(r, rows[k], s, at, e, rows[k].consumed, rows[k].actualFee)
      BY <1>1, RewrittenRow
    <3> HIDE DEF r
    <3> QED BY <1>3, <3>1
  <2> HIDE DEF r
  <2>4. RowValid(r)
    BY <1>1, <1>5, <1>8, <2>1, <2>3, TimeAssumption
    DEF Carries, RowValid, Row, Null, Times
  <2>5. Follows(k, r)
    BY <1>2, <1>3, <2>1, <2>3 DEF Carries, Follows
  <2> QED BY <1>3, <1>4, <1>7, <2>2, <2>3, <2>4, <2>5 DEF Carries, Writes
<1>9. CASE s # "finalized" /\ c # Null
  <2> DEFINE r == Consumed(rows[k], s, at, at, c)
  <2>1. Write(k, r)
    BY <1>9 DEF Transition
  <2>2. Carries(r, rows[k], s, at, at, c, FALSE)
    <3>1. Carries(r, rows[k], s, at, at, c, rows[k].actualFee)
      BY <1>1, <1>6, <1>9, ConsumedRow
    <3> HIDE DEF r
    <3> QED BY <1>3, <3>1
  <2> HIDE DEF r
  <2>3. RowValid(r)
    BY <1>1, <1>5, <1>6, <1>9, <2>2, TimeAssumption
    DEF Carries, RowValid, Row, Null, Times
  <2>4. Follows(k, r)
    BY <1>2, <1>3, <1>5, <2>2 DEF Carries, Follows
  <2> QED BY <1>3, <1>4, <1>7, <2>1, <2>2, <2>3, <2>4 DEF Carries, Writes
<1>10. CASE s # "finalized" /\ c = Null
  <2> DEFINE r == Rewritten(rows[k], s, at, Null)
  <2>1. Write(k, r)
    BY <1>10 DEF Transition
  <2>2. Carries(r, rows[k], s, at, Null, Null, FALSE)
    <3>1. Carries(r, rows[k], s, at, Null, rows[k].consumed, rows[k].actualFee)
      BY <1>1, RewrittenRow
    <3> HIDE DEF r
    <3> QED BY <1>3, <3>1
  <2> HIDE DEF r
  <2>3. RowValid(r)
    BY <1>1, <1>5, <1>10, <2>2, TimeAssumption, SMTT(30)
    DEF Carries, RowValid, Row, Null, Times
  <2>4. Follows(k, r)
    BY <1>2, <1>3, <2>2 DEF Carries, Follows
  <2> QED BY <1>3, <1>4, <1>7, <2>1, <2>2, <2>3, <2>4 DEF Carries, Writes
<1> QED BY <1>8, <1>9, <1>10

(* A hold released without effect, by its owner or by a cancellation.      *)
LEMMA ReleasedRow ==
  ASSUME NEW q \in Row, RowValid(q), q.state = "reserved",
         NEW at \in Times, q.updatedAt <= at,
         NEW s \in {"failed_before_effect", "released_unsubmitted"}
  PROVE  LET r == Rewritten(q, s, at, Null)
         IN  Carries(r, q, s, at, Null, Null, FALSE) /\ RowValid(r)
<1> DEFINE r == Rewritten(q, s, at, Null)
<1>1. q.consumed = Null /\ q.actualFee = FALSE
  BY OpenRow
<1>2. Carries(r, q, s, at, Null, q.consumed, q.actualFee)
  BY RewrittenRow, StateNames
<1> HIDE DEF r
<1>3. RowValid(r)
  BY <1>1, <1>2, TimeAssumption DEF Carries, RowValid, Row, Null, Times
<1> QED BY <1>1, <1>2, <1>3 DEF r

LEMMA ReleaseDirectReservedAfterWrites ==
  ASSUME IInv, NEW k \in Keys, NEW now \in Times, NEW at \in Times,
         ReleaseDirectReservedAfter(k, now, at)
  PROVE  \E r : Writes(k, r)
<1>1. \A j \in Stored : rows[j].updatedAt <= at
  BY StampBounds DEF ReleaseDirectReservedAfter, IInv
<1>2. /\ k \in Stored /\ rows[k] \in Row /\ RowValid(rows[k])
      /\ rows[k].state = "reserved"
      /\ Write(k, Rewritten(rows[k], "failed_before_effect", at, Null))
  BY DEF ReleaseDirectReservedAfter, IInv, TypeOK, RowsValid
<1> DEFINE r == Rewritten(rows[k], "failed_before_effect", at, Null)
<1>3. /\ Carries(r, rows[k], "failed_before_effect", at, Null, Null, FALSE)
      /\ RowValid(r)
  BY <1>1, <1>2, ReleasedRow
<1> HIDE DEF r
<1>4. rows[k].state \in Open /\ rows[k].state \notin Terminal
  BY <1>2, StateNames DEF Open
<1>5. Follows(k, r)
  BY <1>2, <1>3, <1>4 DEF Carries, Follows
<1>6. Write(k, r)
  BY <1>2 DEF r
<1> QED BY <1>1, <1>2, <1>3, <1>4, <1>5, <1>6 DEF Carries, Writes, MaybeSent

LEMMA CancelWrites ==
  ASSUME IInv, NEW k \in Keys, NEW now \in Times, NEW at \in Times,
         NEW p \in Policies, NEW a \in Amounts,
         CancelUnsubmittedReservation(k, p, a, now, at)
  PROVE  \E r : Writes(k, r)
<1>1. \A j \in Stored : rows[j].updatedAt <= at
  BY StampBounds DEF CancelUnsubmittedReservation, IInv
<1>2. CASE k \in Stored
  <2>1. /\ rows[k] \in Row /\ RowValid(rows[k]) /\ rows[k].state = "reserved"
        /\ Write(k, Rewritten(rows[k], "released_unsubmitted", at, Null))
    BY <1>2 DEF CancelUnsubmittedReservation, IInv, TypeOK, RowsValid
  <2> DEFINE r == Rewritten(rows[k], "released_unsubmitted", at, Null)
  <2>2. /\ Carries(r, rows[k], "released_unsubmitted", at, Null, Null, FALSE)
        /\ RowValid(r)
    BY <1>1, <1>2, <2>1, ReleasedRow
  <2>3. Write(k, r)
    BY <2>1
  <2> HIDE DEF r
  <2>4. rows[k].state \in Open /\ rows[k].state \notin Terminal
    BY <2>1, StateNames DEF Open
  <2>5. Follows(k, r)
    BY <1>2, <2>2, <2>4 DEF Carries, Follows
  <2> QED BY <1>1, <1>2, <2>1, <2>2, <2>3, <2>4, <2>5
          DEF Carries, Writes, MaybeSent
<1>3. CASE k \notin Stored
  <2>1. Write(k, Rewritten(Reserved(p, a, at), "released_unsubmitted", at, Null))
    BY <1>3 DEF CancelUnsubmittedReservation
  <2> DEFINE h == Reserved(p, a, at)
             r == Rewritten(h, "released_unsubmitted", at, Null)
  <2>2. FreshHold(h, p, a, at)
    BY ReservedRow
  <2> HIDE DEF h
  <2>3. at <= at
    BY TimeAssumption DEF Times
  <2>4. /\ Carries(r, h, "released_unsubmitted", at, Null, Null, FALSE)
        /\ RowValid(r)
    BY <2>2, <2>3, ReleasedRow DEF FreshHold
  <2>5. Write(k, r)
    BY <2>1 DEF h
  <2> HIDE DEF r
  <2>6. Enters(k, r)
    BY <1>3, <2>4 DEF Carries, Enters
  <2> QED BY <1>1, <1>3, <2>4, <2>5, <2>6 DEF Carries, Writes, MaybeSent
<1> QED BY <1>2, <1>3

(* A sent hold settled by its canonical receipt: at its actual fee, ...    *)
LEMMA FeeSettles ==
  ASSUME IInv, NEW k \in Stored, NEW at \in Times,
         \A j \in Stored : rows[j].updatedAt <= at,
         rows[k].state \in {"submitted", "unknown_finality"},
         NEW fee \in Nat, fee <= rows[k].amount,
         Write(k, ChargedFee(rows[k], at, fee))
  PROVE  \E r : Writes(k, r)
<1> DEFINE r == ChargedFee(rows[k], at, fee)
<1>1. rows[k] \in Row /\ rows[k].reservedAt <= rows[k].updatedAt
  BY DEF IInv, TypeOK, RowsValid, RowValid
<1>2. Carries(r, rows[k], "finalized", at, at, fee, TRUE)
  BY <1>1, ChargedFeeRow
<1>3. Write(k, r)
  OBVIOUS
<1> HIDE DEF r
<1>4. RowValid(r)
  BY <1>1, <1>2, TimeAssumption DEF Carries, RowValid, Row, Null, Times
<1>5. rows[k].state \in Open /\ rows[k].state \notin Terminal
  BY DEF Open, States, Terminal
<1>6. Follows(k, r)
  BY <1>2, <1>5 DEF Carries, Follows
<1> QED BY <1>2, <1>3, <1>4, <1>5, <1>6 DEF Carries, Writes

(* ... as spent, ...                                                       *)
LEMMA SpendSettles ==
  ASSUME IInv, NEW k \in Stored, NEW at \in Times,
         \A j \in Stored : rows[j].updatedAt <= at,
         rows[k].state \in {"submitted", "unknown_finality"},
         Write(k, Rewritten(rows[k], "finalized", at, at))
  PROVE  \E r : Writes(k, r)
<1> DEFINE r == Rewritten(rows[k], "finalized", at, at)
<1>1. rows[k] \in Row /\ RowValid(rows[k])
  BY DEF IInv, TypeOK, RowsValid
<1>2. Carries(r, rows[k], "finalized", at, at, Null, FALSE)
  <2>1. rows[k].consumed = Null /\ rows[k].actualFee = FALSE
    BY <1>1, OpenRow
  <2>2. Carries(r, rows[k], "finalized", at, at, rows[k].consumed, rows[k].actualFee)
    BY <1>1, RewrittenRow, StateNames
  <2> HIDE DEF r
  <2> QED BY <2>1, <2>2
<1>3. Write(k, r)
  OBVIOUS
<1> HIDE DEF r
<1>4. RowValid(r)
  BY <1>1, <1>2, TimeAssumption DEF Carries, RowValid, Row, Null, Times
<1>5. rows[k].state \in Open /\ rows[k].state \notin Terminal
  BY DEF Open, States, Terminal
<1>6. Follows(k, r)
  BY <1>2, <1>5 DEF Carries, Follows
<1> QED BY <1>2, <1>3, <1>4, <1>5, <1>6 DEF Carries, Writes

(* ... or as reverted at no cost.                                          *)
LEMMA RevertSettles ==
  ASSUME IInv, NEW k \in Stored, NEW at \in Times,
         \A j \in Stored : rows[j].updatedAt <= at,
         rows[k].state \in {"submitted", "unknown_finality"},
         Write(k, Consumed(rows[k], "failed_confirmed_revert", at, at, 0))
  PROVE  \E r : Writes(k, r)
<1> DEFINE r == Consumed(rows[k], "failed_confirmed_revert", at, at, 0)
<1>1. rows[k] \in Row /\ RowValid(rows[k])
  BY DEF IInv, TypeOK, RowsValid
<1>2. Carries(r, rows[k], "failed_confirmed_revert", at, at, 0, FALSE)
  <2>1. rows[k].consumed = Null /\ rows[k].actualFee = FALSE
    BY <1>1, OpenRow
  <2>2. Carries(r, rows[k], "failed_confirmed_revert", at, at, 0, rows[k].actualFee)
    BY <1>1, ConsumedRow, StateNames
  <2> HIDE DEF r
  <2> QED BY <2>1, <2>2
<1>3. Write(k, r)
  OBVIOUS
<1> HIDE DEF r
<1>4. RowValid(r)
  BY <1>1, <1>2, TimeAssumption DEF Carries, RowValid, Row, Null, Times
<1>5. rows[k].state \in Open /\ rows[k].state \notin Terminal
  BY DEF Open, States, Terminal
<1>6. Follows(k, r)
  BY <1>2, <1>5 DEF Carries, Follows
<1> QED BY <1>2, <1>3, <1>4, <1>5, <1>6 DEF Carries, Writes

LEMMA SettleMerchantWrites ==
  ASSUME IInv, NEW k \in Keys, NEW now \in Times, NEW at \in Times,
         NEW fee \in Amounts \cup {0},
         SettleMerchantNativeActualFee(k, fee, now, at)
  PROVE  \E r : Writes(k, r)
<1>1. \A j \in Stored : rows[j].updatedAt <= at
  BY StampBounds DEF SettleMerchantNativeActualFee, IInv
<1>2. fee \in Nat
  BY AmountAssumption
<1> QED BY <1>1, <1>2, FeeSettles DEF SettleMerchantNativeActualFee

LEMMA SettleMetaMaskWrites ==
  ASSUME IInv, NEW k \in Keys, NEW now \in Times, NEW at \in Times,
         NEW fee \in Amounts \cup {0}, NEW accepted \in BOOLEAN,
         SettleMetaMaskNativeActual(k, fee, accepted, now, at)
  PROVE  \E r : Writes(k, r)
<1>1. \A j \in Stored : rows[j].updatedAt <= at
  BY StampBounds DEF SettleMetaMaskNativeActual, IInv
<1>2. /\ k \in Stored
      /\ rows[k].state \in {"submitted", "unknown_finality"}
      /\ \/ fee \in 1 .. rows[k].amount /\ Write(k, ChargedFee(rows[k], at, fee))
         \/ Write(k, Rewritten(rows[k], "finalized", at, at))
         \/ Write(k, Consumed(rows[k], "failed_confirmed_revert", at, at, 0))
  BY DEF SettleMetaMaskNativeActual
<1>3. rows[k] \in Row /\ fee \in Nat
  BY <1>2, AmountAssumption DEF IInv, TypeOK
<1>4. fee \in 1 .. rows[k].amount => fee <= rows[k].amount
  BY <1>3 DEF Row
<1> QED BY <1>1, <1>2, <1>3, <1>4, FeeSettles, SpendSettles, RevertSettles

(* Every step of the bucket is such a write.                               *)
LEMMA StepWrites ==
  ASSUME IInv, Next
  PROVE  \E k \in Keys : \E r : Writes(k, r)
<1>1. PICK k \in Keys, now \in Times, at \in Times :
        \/ \E p \in Policies, a \in Amounts :
             \/ Reserve(k, p, a, now, at)
             \/ ReopenFailed(k, p, a, now, at)
             \/ ReserveWithinOwnerCap(k, p, a, now, at)
             \/ CancelUnsubmittedReservation(k, p, a, now, at)
        \/ \E s \in States \ {"reserved"}, c \in Amounts \cup {0, Null},
              proven \in Times \cup {Null} : Transition(k, s, c, proven, now, at)
        \/ ReleaseDirectReservedAfter(k, now, at)
        \/ \E fee \in Amounts \cup {0} :
             \/ SettleMerchantNativeActualFee(k, fee, now, at)
             \/ \E accepted \in BOOLEAN :
                  SettleMetaMaskNativeActual(k, fee, accepted, now, at)
  BY DEF Next
<1>2. ASSUME NEW p \in Policies, NEW a \in Amounts,
             \/ Reserve(k, p, a, now, at)
             \/ ReopenFailed(k, p, a, now, at)
             \/ ReserveWithinOwnerCap(k, p, a, now, at)
             \/ CancelUnsubmittedReservation(k, p, a, now, at)
      PROVE  \E r : Writes(k, r)
  BY <1>2, ReserveWrites, ReopenFailedWrites, ReserveWithinOwnerCapWrites,
     CancelWrites
<1>3. ASSUME NEW s \in States \ {"reserved"}, NEW c \in Amounts \cup {0, Null},
             NEW proven \in Times \cup {Null}, Transition(k, s, c, proven, now, at)
      PROVE  \E r : Writes(k, r)
  BY <1>3, TransitionWrites
<1>4. ASSUME NEW fee \in Amounts \cup {0}, NEW accepted \in BOOLEAN,
             \/ SettleMerchantNativeActualFee(k, fee, now, at)
             \/ SettleMetaMaskNativeActual(k, fee, accepted, now, at)
      PROVE  \E r : Writes(k, r)
  BY <1>4, SettleMerchantWrites, SettleMetaMaskWrites
<1> QED BY <1>1, <1>2, <1>3, <1>4, ReleaseDirectReservedAfterWrites

LEMMA WriteKeepsIInv ==
  ASSUME IInv, NEW k \in Keys, NEW r, Writes(k, r)
  PROVE  IInv'
<1>1. DOMAIN rows' = Stored \cup {k}
  BY DEF Writes, Write
<1>2. \A j \in DOMAIN rows' : rows'[j] = IF j = k THEN r ELSE rows[j]
  BY DEF Writes, Write
<1>3. TypeOK'
  BY <1>1, <1>2 DEF Writes, Write, IInv, TypeOK, Stored
<1>4. RowsValid'
  BY <1>1, <1>2 DEF Writes, IInv, RowsValid, Stored
<1> QED BY <1>3, <1>4 DEF IInv

LEMMA IInvStep ==
  ASSUME IInv, [Next]_vars
  PROVE  IInv'
<1>1. CASE UNCHANGED vars
  BY <1>1 DEF vars, IInv, TypeOK, RowsValid, Stored
<1>2. CASE Next
  BY <1>2, StepWrites, WriteKeepsIInv
<1> QED BY <1>1, <1>2

(* No sequence of ledger calls leaves the bucket unreadable: rows keep their *)
(* type and every row passes the validation each later read applies.       *)
THEOREM RowsStayReadable == Spec => [](TypeOK /\ RowsValid)
<1>1. Init => IInv
  BY DEF Init, IInv, TypeOK, RowsValid, Stored
<1>2. IInv /\ [Next]_vars => IInv'
  BY IInvStep
<1> QED BY <1>1, <1>2, PTL DEF Spec, IInv

(* Rule R9: a write's stamp is never older than a stamp it follows, however  *)
(* far the clock was set back.                                             *)
THEOREM StampsAreMonotone == Spec => StampsNeverGoBack
<1> DEFINE Newest == \A k \in DOMAIN rows' :
                       (k \in Stored => rows'[k] # rows[k]) =>
                         \A j \in Stored : rows[j].updatedAt <= rows'[k].updatedAt
<1>1. IInv /\ Next => Newest
  <2> SUFFICES ASSUME IInv, Next PROVE Newest
    OBVIOUS
  <2>0. PICK k \in Keys : \E r : Writes(k, r)
    BY StepWrites
  <2>1. PICK r : Writes(k, r)
    BY <2>0
  <2> QED BY <2>1 DEF Writes, Write
<1>2. IInv /\ [Next]_vars => [Newest]_vars
  BY <1>1
<1>3. Spec => []IInv
  BY RowsStayReadable, PTL DEF IInv
<1> QED BY <1>2, <1>3, PTL DEF Spec, StampsNeverGoBack

(* A settled or released hold stays as it is, but for Relay's reopening of a *)
(* hold that failed before any effect.                                     *)
THEOREM TerminalStays == Spec => TerminalIsFinal
<1> DEFINE Final == \A k \in Stored : rows[k].state \in Terminal =>
                      /\ k \in DOMAIN rows'
                      /\ \/ rows'[k] = rows[k]
                         \/ /\ rows[k].state = "failed_before_effect"
                            /\ Lane[k] = "bridge"
                            /\ rows'[k].state = "reserved"
<1>1. IInv /\ Next => Final
  <2> SUFFICES ASSUME IInv, Next PROVE Final
    OBVIOUS
  <2>0. PICK k \in Keys : \E r : Writes(k, r)
    BY StepWrites
  <2>1. PICK r : Writes(k, r)
    BY <2>0
  <2> QED BY <2>1 DEF Writes, Write
<1>2. IInv /\ [Next]_vars => [Final]_vars
  BY <1>1
<1>3. Spec => []IInv
  BY RowsStayReadable, PTL DEF IInv
<1> QED BY <1>2, <1>3, PTL DEF Spec, TerminalIsFinal

(* Once its money may have been sent, a hold is never again treated as       *)
(* untouched: no later call reserves it anew or fails it before its effect   *)
(* (assertTransition, and the reopening of a failed hold only), and no call  *)
(* removes its row.                                                          *)
THEOREM SentIsRemembered == Spec => ExposureIsRemembered
<1> DEFINE Touched(k) == /\ k \in Stored
                         /\ rows[k].state \notin {"reserved", "failed_before_effect"}
<1>1. ASSUME NEW k \in Keys
      PROVE  IInv /\ Touched(k) /\ [Next]_vars => Touched(k)'
  <2> SUFFICES ASSUME IInv, Touched(k), [Next]_vars PROVE Touched(k)'
    OBVIOUS
  <2>1. CASE UNCHANGED vars
    BY <2>1 DEF vars, Stored
  <2>2. CASE Next
    <3>0. PICK j \in Keys : \E r : Writes(j, r)
      BY <2>2, StepWrites
    <3>1. PICK r : Writes(j, r)
      BY <3>0
    <3>2. DOMAIN rows' = Stored \cup {j}
          /\ rows'[k] = IF k = j THEN r ELSE rows[k]
      BY <3>1 DEF Writes, Write
    <3>3. rows[k].state \in Terminal \cup {"submitted", "unknown_finality"}
      BY DEF IInv, TypeOK, Row, States, Terminal
    <3>4. j = k => r.state \notin {"reserved", "failed_before_effect"}
      BY <3>1, <3>3 DEF Writes, MaybeSent
    <3> QED BY <3>2, <3>4 DEF Stored
  <2> QED BY <2>1, <2>2
<1>2. ASSUME NEW k \in Keys
      PROVE  MaybeSent(k) => Touched(k)
  BY DEF MaybeSent
<1>3. Spec => []IInv
  BY RowsStayReadable, PTL DEF IInv
<1>4. ASSUME NEW k \in Keys
      PROVE  Spec => [](MaybeSent(k) => []Touched(k))
  BY <1>1, <1>2, <1>3, PTL DEF Spec
<1> QED BY <1>4 DEF ExposureIsRemembered

-----------------------------------------------------------------------------
(* The daily cap *)

(* A row that may be charged to day d.                                     *)
MayCharge(r, d) ==
  /\ r.policy \in AllowlistPolicies
  /\ \/ r.state \in Open /\ Day(r.updatedAt) <= d
     \/ r.effectAt # Null /\ Day(r.effectAt) = d

Days == {Day(t) : t \in Times}

(* before[k] are the holds taken no later than k was: an order in which the *)
(* rows were admitted.  The stamps do not give it, since many rows may bear *)
(* the same one.                                                           *)
Admission(before) ==
  /\ before \in [Stored -> SUBSET Stored]
  /\ \A j, k \in Stored : j \in before[k] \/ k \in before[j]
  /\ \A i, j, k \in Stored : i \in before[j] /\ j \in before[k] => i \in before[k]

(* On each day, what a row and its predecessors may charge is within the    *)
(* cap that this row was admitted under.                                   *)
EachWithinCap(before) ==
  \A d \in Days : \A k \in MayChargeDay(d) :
    SumFunctionOnSet(Charges, MayChargeDay(d) \cap before[k])
      <= DailyLimit[rows[k].policy]

(* DailyCap is not inductive: when the row whose cap bounds the sum leaves  *)
(* the day, another's cap must bound what is left.                         *)
CapInv ==
  /\ IsFiniteSet(Stored)
  /\ \E before : Admission(before) /\ EachWithinCap(before)

LEMMA DayGrows ==
  ASSUME NEW s \in Times, NEW t \in Times, s <= t
  PROVE  Day(s) \in Nat /\ Day(t) \in Nat /\ Day(s) <= Day(t)
<1>1. s \in Nat /\ t \in Nat /\ DayLength \in Nat \ {0}
  BY TimeAssumption DEF Times
<1> QED BY <1>1 DEF Day

LEMMA DayIsNatural == \A d \in Days : d \in Nat
BY DayGrows, TimeAssumption DEF Days, Times

(* What a valid row that may be charged to a day costs.                    *)
LEMMA ChargeIsNatural ==
  ASSUME NEW r \in Row, RowValid(r), NEW d, MayCharge(r, d)
  PROVE  Charge(r) \in Nat
<1>1. CASE r.state \in Open
  <2>1. r.state \notin {"finalized", "failed_confirmed_revert"}
    BY <1>1 DEF Open, Terminal
  <2>2. r.actualFee = FALSE
    BY <2>1, OpenRow
  <2> QED BY <2>1, <2>2 DEF Charge, Row
<1>2. CASE r.effectAt # Null
  <2>1. r.state = "failed_confirmed_revert" \/ r.actualFee => r.consumed # Null
    BY <1>2 DEF RowValid
  <2>2. r.consumed \in Nat \cup {Null} /\ r.amount \in Nat
    BY DEF Row
  <2> QED BY <2>1, <2>2 DEF Charge
<1> QED BY <1>1, <1>2 DEF MayCharge

(* The cap is checked against all that may be charged to this day or later. *)
LEMMA ChargedIsCounted ==
  ASSUME NEW r \in Row, RowValid(r), NEW d \in Days, MayCharge(r, d),
         NEW now \in Times, Day(now) <= d
  PROVE  Counted(r, now)
<1>1. CASE r.state \in Open
  BY <1>1 DEF Counted, Open, Terminal
<1>2. CASE r.effectAt # Null
  <2>1. /\ r.state \in {"finalized", "failed_confirmed_revert"}
        /\ r.state = "failed_confirmed_revert" => r.consumed # Null
    BY <1>2 DEF RowValid
  <2>2. CASE r.state \in Open
    BY <2>1, <2>2 DEF Open, Terminal
  <2>3. CASE Day(r.effectAt) = d
    BY <2>1, <2>3 DEF Counted
  <2> QED BY <2>2, <2>3 DEF MayCharge
<1> QED BY <1>1, <1>2 DEF MayCharge

LEMMA CountedCosts ==
  ASSUME NEW r \in Row, RowValid(r), NEW now, Counted(r, now)
  PROVE  Charge(r) \in Nat
<1>1. r.state = "failed_confirmed_revert" \/ r.actualFee => r.consumed # Null
  BY DEF Counted, RowValid
<1>2. r.consumed \in Nat \cup {Null} /\ r.amount \in Nat
  BY DEF Row
<1> QED BY <1>1, <1>2 DEF Charge

(* A hold that is carried on is charged to no new day, and no more.        *)
LEMMA FollowingShrinks ==
  ASSUME IInv, NEW k, NEW r, Writes(k, r), Follows(k, r),
         NEW d \in Days, MayCharge(r, d)
  PROVE  MayCharge(rows[k], d) /\ Charge(r) <= Charge(rows[k])
<1> DEFINE q == rows[k]
<1>1. /\ q \in Row /\ RowValid(q) /\ q.state \in Open
      /\ r \in Row /\ RowValid(r) /\ q.updatedAt <= r.updatedAt
      /\ r.policy = q.policy /\ r.amount = q.amount
      /\ r.effectAt # Null => q.updatedAt <= r.effectAt
  BY DEF IInv, TypeOK, RowsValid, Writes, Follows
<1> HIDE DEF q
<1>2. q.updatedAt \in Times /\ r.updatedAt \in Times /\ r.effectAt \in Times \cup {Null}
  BY <1>1 DEF Row
<1>3. Day(q.updatedAt) <= d
  <2>1. CASE r.state \in Open /\ Day(r.updatedAt) <= d
    <3>1. /\ Day(q.updatedAt) \in Nat /\ Day(r.updatedAt) \in Nat
          /\ Day(q.updatedAt) <= Day(r.updatedAt)
      BY <1>1, <1>2, DayGrows
    <3>2. d \in Nat
      BY DayIsNatural
    <3> QED BY <2>1, <3>1, <3>2
  <2>2. CASE r.effectAt # Null /\ Day(r.effectAt) = d
    BY <1>1, <1>2, <2>2, DayGrows
  <2> QED BY <2>1, <2>2 DEF MayCharge
<1>4. MayCharge(q, d)
  BY <1>1, <1>3 DEF MayCharge
<1>5. Charge(q) = q.amount
  <2>1. q.state \notin {"finalized", "failed_confirmed_revert"}
    BY <1>1 DEF Open, Terminal
  <2> QED BY <1>1, <2>1, OpenRow DEF Charge
<1>6. Charge(r) <= r.amount
  <2>1. r.amount \in Nat /\ r.consumed <= r.amount
    BY <1>1 DEF Row, RowValid
  <2> QED BY <2>1 DEF Charge
<1> QED BY <1>1, <1>4, <1>5, <1>6 DEF q

(* What the days' charges are once row r is written at key k.              *)
LEMMA ChargesAfter ==
  ASSUME IInv, NEW k \in Keys, NEW r, Writes(k, r)
  PROVE  /\ Stored' = Stored \cup {k}
         /\ \A j \in Stored' : /\ rows'[j] = IF j = k THEN r ELSE rows[j]
                               /\ Charges'[j] = Charge(rows'[j])
         /\ \A j \in Stored : Charges[j] = Charge(rows[j])
         /\ \A d : MayChargeDay(d) = {j \in Stored : MayCharge(rows[j], d)}
         /\ \A d : MayChargeDay(d)' = {j \in Stored' : MayCharge(rows'[j], d)}
<1>1. /\ Stored' = Stored \cup {k}
      /\ \A j \in Stored' : rows'[j] = IF j = k THEN r ELSE rows[j]
  BY DEF Writes, Write, Stored
<1>2. Charges' = [j \in Stored' |-> Charge(rows'[j])]
  BY DEF Charges, Stored
<1>3. \A d : MayChargeDay(d)' = {j \in Stored' : MayCharge(rows'[j], d)}
  BY DEF MayChargeDay, MayCharge
<1> QED BY <1>1, <1>2, <1>3 DEF Charges, MayChargeDay, MayCharge

(* Both sums of a comparison below are over natural numbers.               *)
LEMMA DaysCost ==
  ASSUME IInv, NEW k \in Keys, NEW r, Writes(k, r), IsFiniteSet(Stored)
  PROVE  /\ IsFiniteSet(Stored')
         /\ \A d \in Days :
              /\ IsFiniteSet(MayChargeDay(d)) /\ Costs(Charges, MayChargeDay(d))
              /\ IsFiniteSet(MayChargeDay(d)') /\ Costs(Charges', MayChargeDay(d)')
<1>1. IsFiniteSet(Stored')
  BY ChargesAfter, FS_AddElement
<1>2. ASSUME NEW d \in Days
      PROVE  /\ MayChargeDay(d) \subseteq Stored
             /\ MayChargeDay(d)' \subseteq Stored'
  BY ChargesAfter
<1>3. ASSUME NEW d \in Days, NEW j \in MayChargeDay(d) PROVE Charges[j] \in Nat
  BY <1>3, ChargesAfter, ChargeIsNatural DEF IInv, TypeOK, RowsValid
<1>4. ASSUME NEW d \in Days, NEW j \in MayChargeDay(d)' PROVE Charges'[j] \in Nat
  <2>1. IInv'
    BY WriteKeepsIInv
  <2>2. j \in Stored' /\ rows'[j] \in Row /\ RowValid(rows'[j]) /\ MayCharge(rows'[j], d)
    BY <2>1, <1>4, ChargesAfter DEF IInv, TypeOK, RowsValid
  <2> QED BY <2>2, ChargesAfter, ChargeIsNatural
<1> QED BY <1>1, <1>2, <1>3, <1>4, FS_Subset DEF Costs

(* A hold that is carried on keeps its place.                              *)
LEMMA FollowingKeepsCap ==
  ASSUME IInv, CapInv, NEW k \in Keys, NEW r, Writes(k, r), Follows(k, r)
  PROVE  CapInv'
<1>1. PICK before : Admission(before) /\ EachWithinCap(before)
  BY DEF CapInv
<1>2. Stored' = Stored
  BY ChargesAfter DEF Follows
<1>3. Admission(before)'
  BY <1>1, <1>2 DEF Admission
<1>4. ASSUME NEW d \in Days, NEW j \in MayChargeDay(d)'
      PROVE  /\ j \in MayChargeDay(d)
             /\ Charges'[j] <= Charges[j]
             /\ rows'[j].policy = rows[j].policy
  <2>1. /\ j \in Stored /\ rows'[j] = IF j = k THEN r ELSE rows[j]
        /\ MayCharge(rows'[j], d)
    BY <1>2, ChargesAfter
  <2>2. CASE j = k
    <3>1. MayCharge(rows[k], d) /\ Charge(r) <= Charge(rows[k])
      BY <2>1, <2>2, FollowingShrinks
    <3> QED BY <1>2, <2>1, <2>2, <3>1, ChargesAfter DEF Follows
  <2>3. CASE j # k
    <3>1. Charge(rows[j]) \in Nat
      BY <2>1, <2>3, ChargeIsNatural DEF IInv, TypeOK, RowsValid
    <3> QED BY <1>2, <2>1, <2>3, <3>1, ChargesAfter
  <2> QED BY <2>2, <2>3
<1>5. ASSUME NEW d \in Days, NEW j \in MayChargeDay(d)'
      PROVE  SumFunctionOnSet(Charges', MayChargeDay(d)' \cap before[j])
               <= DailyLimit[rows'[j].policy]
  <2> DEFINE A == MayChargeDay(d)' \cap before[j]
             B == MayChargeDay(d) \cap before[j]
  <2>1. A \subseteq B /\ \A x \in A : Charges'[x] <= Charges[x]
    BY <1>4
  <2>2. IsFiniteSet(B) /\ IsFiniteSet(A) /\ Costs(Charges, B) /\ Costs(Charges', A)
    BY DaysCost, FS_Subset DEF CapInv, Costs
  <2>3. SumFunctionOnSet(Charges, B) <= DailyLimit[rows[j].policy]
    BY <1>1, <1>4 DEF EachWithinCap
  <2>4. rows'[j].policy = rows[j].policy /\ DailyLimit[rows[j].policy] \in Nat
    BY <1>4, CapAssumption DEF MayChargeDay
  <2> HIDE DEF A, B
  <2>5. SumFunctionOnSet(Charges', A) <= SumFunctionOnSet(Charges, B)
    BY <2>1, <2>2, SumGrows
  <2>6. SumFunctionOnSet(Charges', A) \in Nat /\ SumFunctionOnSet(Charges, B) \in Nat
    BY <2>2, SumIsNatural
  <2> QED BY <2>3, <2>4, <2>5, <2>6 DEF A
<1>6. EachWithinCap(before)'
  BY <1>5 DEF EachWithinCap
<1> QED BY <1>2, <1>3, <1>6 DEF CapInv

(* A hold that is taken up becomes the last to be admitted.                *)
LEMMA EnteringKeepsCap ==
  ASSUME IInv, CapInv, NEW k \in Keys, NEW r, Writes(k, r), Enters(k, r)
  PROVE  CapInv'
<1>1. PICK before : Admission(before) /\ EachWithinCap(before)
  BY DEF CapInv
<1>0. PICK after : after = [j \in Stored \cup {k} |->
                              IF j = k THEN Stored \cup {k} ELSE before[j] \ {k}]
  OBVIOUS
<1>2. Stored' = Stored \cup {k}
  BY ChargesAfter
<1>3. Admission(after)'
  <2>1. after \in [Stored' -> SUBSET Stored']
    BY <1>0, <1>1, <1>2 DEF Admission
  <2>2. \A i, j \in Stored' : i \in after[j] \/ j \in after[i]
    BY <1>0, <1>1, <1>2 DEF Admission
  <2>3. \A h, i, j \in Stored' : h \in after[i] /\ i \in after[j] => h \in after[j]
    BY <1>0, <1>1, <1>2 DEF Admission
  <2> QED BY <2>1, <2>2, <2>3 DEF Admission
<1>4. ASSUME NEW d \in Days, NEW j \in MayChargeDay(d)', j # k
      PROVE  /\ j \in MayChargeDay(d)
             /\ Charges'[j] = Charges[j] /\ rows'[j] = rows[j]
             /\ Charges[j] \in Nat
  <2>1. j \in Stored /\ rows'[j] = rows[j] /\ MayCharge(rows[j], d)
    BY <1>2, <1>4, ChargesAfter
  <2>2. Charge(rows[j]) \in Nat
    BY <2>1, ChargeIsNatural DEF IInv, TypeOK, RowsValid
  <2> QED BY <1>2, <2>1, <2>2, ChargesAfter
<1>5. \A d \in Days : k \notin MayChargeDay(d)
  <2>1. k \in Stored => rows[k].state \notin Open /\ rows[k].effectAt = Null
    <3>1. k \in Stored => RowValid(rows[k])
      BY DEF IInv, RowsValid
    <3> QED BY <3>1 DEF Enters, RowValid, Open, Terminal
  <2> QED BY <2>1 DEF MayChargeDay
<1>6. ASSUME NEW d \in Days, NEW j \in MayChargeDay(d)', j # k
      PROVE  SumFunctionOnSet(Charges', MayChargeDay(d)' \cap after[j])
               <= DailyLimit[rows'[j].policy]
  <2> DEFINE A == MayChargeDay(d)' \cap after[j]
             B == MayChargeDay(d) \cap before[j]
  <2>0. j \in MayChargeDay(d) /\ j \in Stored /\ rows'[j] = rows[j]
    BY <1>4, <1>6, ChargesAfter
  <2>1. A \subseteq B /\ \A x \in A : Charges'[x] <= Charges[x]
    <3>1. after[j] = before[j] \ {k}
      BY <1>0, <1>6, <2>0
    <3> QED BY <1>4, <3>1
  <2>2. IsFiniteSet(B) /\ IsFiniteSet(A) /\ Costs(Charges, B) /\ Costs(Charges', A)
    BY DaysCost, FS_Subset DEF CapInv, Costs
  <2>3. SumFunctionOnSet(Charges, B) <= DailyLimit[rows[j].policy]
    BY <1>1, <2>0 DEF EachWithinCap
  <2>4. DailyLimit[rows[j].policy] \in Nat
    BY <2>0, CapAssumption DEF MayChargeDay
  <2> HIDE DEF A, B
  <2>5. SumFunctionOnSet(Charges', A) <= SumFunctionOnSet(Charges, B)
    BY <2>1, <2>2, SumGrows
  <2>6. SumFunctionOnSet(Charges', A) \in Nat /\ SumFunctionOnSet(Charges, B) \in Nat
    BY <2>2, SumIsNatural
  <2> QED BY <2>0, <2>3, <2>4, <2>5, <2>6 DEF A
<1>7. ASSUME NEW d \in Days, k \in MayChargeDay(d)'
      PROVE  SumFunctionOnSet(Charges', MayChargeDay(d)' \cap after[k])
               <= DailyLimit[rows'[k].policy]
  <2> DEFINE A == MayChargeDay(d)'
  <2>1. MayCharge(r, d) /\ rows'[k] = r /\ Charges'[k] = Charge(r) /\ k \in Stored'
    BY <1>2, <1>7, ChargesAfter
  <2>2. r.policy \in AllowlistPolicies /\ r.state = "reserved" /\ r.effectAt = Null
    BY <2>1 DEF MayCharge, Enters, Writes, RowValid, Open, Terminal
  <2>3. PICK now \in Times : /\ now <= r.updatedAt
                             /\ SumUsage(now) + r.amount <= DailyLimit[r.policy]
    BY <2>2 DEF Enters
  <2> DEFINE B == {j \in Stored : Counted(rows[j], now)}
  <2>4. Day(now) <= d
    <3>1. Day(r.updatedAt) <= d /\ r.updatedAt \in Times
      BY <2>1, <2>2 DEF MayCharge, Writes, Row
    <3>2. Day(now) \in Nat /\ Day(r.updatedAt) \in Nat /\ Day(now) <= Day(r.updatedAt)
      BY <2>3, <3>1, DayGrows
    <3> QED BY <3>1, <3>2, DayIsNatural
  <2>5. A \ {k} \subseteq B /\ \A x \in A \ {k} : Charges'[x] <= Charges[x]
    <3>1. ASSUME NEW j \in A \ {k} PROVE j \in B /\ Charges'[j] <= Charges[j]
      <4>1. j \in MayChargeDay(d) /\ Charges'[j] = Charges[j] /\ Charges[j] \in Nat
        BY <1>4, <3>1
      <4>2. j \in Stored /\ MayCharge(rows[j], d)
        BY <4>1, ChargesAfter
      <4>3. Counted(rows[j], now)
        BY <2>4, <4>2, ChargedIsCounted DEF IInv, TypeOK, RowsValid
      <4> QED BY <4>1, <4>2, <4>3
    <3> QED BY <3>1
  <2>6. IsFiniteSet(B) /\ Costs(Charges, B)
    <3>1. B \in SUBSET Stored
      OBVIOUS
    <3>2. ASSUME NEW j \in B PROVE Charges[j] \in Nat
      BY <3>2, ChargesAfter, CountedCosts DEF IInv, TypeOK, RowsValid
    <3> QED BY <3>1, <3>2, FS_Subset DEF CapInv, Costs
  <2>7. IsFiniteSet(A) /\ Costs(Charges', A) /\ IsFiniteSet(A \ {k}) /\ Costs(Charges', A \ {k})
    BY DaysCost, FS_RemoveElement DEF CapInv, Costs
  <2>8. SumUsage(now) = SumFunctionOnSet(Charges, B)
    BY DEF SumUsage
  <2>9. A \cap after[k] = A
    BY <1>0, <1>2, ChargesAfter
  <2>10. Charge(r) = r.amount /\ r.amount \in Nat
    <3>1. r \in Row /\ RowValid(r)
      BY DEF Writes
    <3> QED BY <2>2, <3>1, OpenRow DEF Charge, Row
  <2>11. DailyLimit[r.policy] \in Nat
    BY <2>2, CapAssumption
  <2> HIDE DEF A, B
  <2>12. SumFunctionOnSet(Charges', A)
           = Charges'[k] + SumFunctionOnSet(Charges', A \ {k})
    BY <1>7, <2>7, SumTakes DEF A
  <2>13. SumFunctionOnSet(Charges', A \ {k}) <= SumFunctionOnSet(Charges, B)
    BY <2>5, <2>6, <2>7, SumGrows
  <2>14. /\ SumFunctionOnSet(Charges', A \ {k}) \in Nat
         /\ SumFunctionOnSet(Charges, B) \in Nat
    BY <2>6, <2>7, SumIsNatural
  <2>15. SumFunctionOnSet(Charges', A) <= DailyLimit[r.policy]
    BY <2>1, <2>3, <2>8, <2>10, <2>11, <2>12, <2>13, <2>14
  <2> QED BY <2>1, <2>9, <2>15 DEF A
<1>8. EachWithinCap(after)'
  <2> QED BY <1>6, <1>7 DEF EachWithinCap
<1>9. IsFiniteSet(Stored')
  BY DaysCost DEF CapInv
<1> QED BY <1>3, <1>8, <1>9 DEF CapInv

LEMMA CapInvStep ==
  ASSUME IInv, CapInv, [Next]_vars
  PROVE  CapInv'
<1>1. CASE UNCHANGED vars
  <2>1. UNCHANGED rows
    BY <1>1 DEF vars
  <2> QED BY <2>1 DEF CapInv, Admission, EachWithinCap, MayChargeDay, Charges, Stored
<1>2. CASE Next
  <2>0. PICK k \in Keys : \E r : Writes(k, r)
    BY <1>2, StepWrites
  <2>1. PICK r : Writes(k, r)
    BY <2>0
  <2>2. Enters(k, r) \/ Follows(k, r)
    BY <2>1 DEF Writes
  <2> QED BY <2>1, <2>2, EnteringKeepsCap, FollowingKeepsCap
<1> QED BY <1>1, <1>2

(* The rows of a day have a last one, and its cap bounds the day.          *)
LEMMA LastAdmitted ==
  ASSUME NEW before, Admission(before), NEW M \in SUBSET Stored, IsFiniteSet(M),
         M # {}
  PROVE  \E k \in M : M \subseteq before[k]
<1> DEFINE HasLast(U) == \E k \in U : U \subseteq before[k]
           Bad == {U \in SUBSET M : U # {} /\ ~ HasLast(U)}
<1> SUFFICES ASSUME Bad # {} PROVE FALSE
  OBVIOUS
<1>1. PICK U \in Bad : \A V \in Bad : V \subseteq U => V = U
  <2>1. Family(M, Bad)
    BY DEF Family
  <2> HIDE DEF Bad
  <2> QED BY <2>1, FamilyHasSmallest DEF Smallest
<1>2. PICK x : x \in U
  OBVIOUS
<1>3. x \in Stored /\ U \subseteq Stored /\ ~ HasLast(U)
  BY <1>2
<1>4. x \in before[x]
  BY <1>3 DEF Admission
<1>5. U \ {x} # {}
  <2>1. U = {x} => HasLast(U)
    BY <1>4
  <2> HIDE DEF HasLast
  <2> QED BY <1>2, <1>3, <2>1
<1>6. HasLast(U \ {x})
  <2>1. U \ {x} \in SUBSET M /\ U \ {x} \subseteq U /\ U \ {x} # U
    BY <1>2
  <2> HIDE DEF HasLast
  <2> QED BY <1>1, <1>5, <2>1
<1>7. PICK k \in U \ {x} : U \ {x} \subseteq before[k]
  BY <1>6
<1>8. CASE x \in before[k]
  BY <1>3, <1>7, <1>8
<1>9. CASE k \in before[x]
  <2>1. \A i \in U \ {x} : i \in before[x]
    BY <1>3, <1>7, <1>9 DEF Admission
  <2> QED BY <1>2, <1>3, <1>4, <2>1
<1> QED BY <1>3, <1>7, <1>8, <1>9 DEF Admission

(* Rule R9 (usageTotals against evaluateAssetPolicy): for every number of   *)
(* keys and every length of a day, what is charged or may still be charged  *)
(* to a UTC day stays within the daily cap of one of the policies it was    *)
(* admitted under, that of the hold admitted last.                          *)
THEOREM DailyCapHolds == Spec => []DailyCap
<1>1. Init => CapInv
  <2> SUFFICES ASSUME Init PROVE CapInv
    OBVIOUS
  <2>1. Stored = {}
    BY DEF Init, Stored
  <2>2. Admission(<< >>)
    BY <2>1 DEF Admission
  <2>3. EachWithinCap(<< >>)
    BY <2>1 DEF EachWithinCap, MayChargeDay
  <2> QED BY <2>1, <2>2, <2>3, FS_EmptySet DEF CapInv
<1>2. IInv /\ CapInv /\ [Next]_vars => CapInv'
  BY CapInvStep
<1>3. CapInv => DailyCap
  <2> SUFFICES ASSUME CapInv, NEW d \in Days, MayChargeDay(d) # {}
               PROVE  \E k \in MayChargeDay(d) :
                        SumFunctionOnSet(Charges, MayChargeDay(d))
                          <= DailyLimit[rows[k].policy]
    BY DEF DailyCap, Days
  <2>1. PICK before : Admission(before) /\ EachWithinCap(before)
    BY DEF CapInv
  <2>2. MayChargeDay(d) \in SUBSET Stored /\ IsFiniteSet(MayChargeDay(d))
    BY FS_Subset DEF MayChargeDay, CapInv
  <2>3. PICK k \in MayChargeDay(d) : MayChargeDay(d) \subseteq before[k]
    BY <2>1, <2>2, LastAdmitted
  <2>4. MayChargeDay(d) \cap before[k] = MayChargeDay(d)
    BY <2>3
  <2> QED BY <2>1, <2>3, <2>4 DEF EachWithinCap
<1>4. Spec => []IInv
  BY RowsStayReadable, PTL DEF IInv
<1> QED BY <1>1, <1>2, <1>3, <1>4, PTL DEF Spec

-----------------------------------------------------------------------------
(* The table of the holds *)

(* What LedgerRows says a ledger takes is what assertTransition takes of a   *)
(* row that is stored, and for a row that is not, its reservation.           *)
LEMMA TableIsAssertTransition ==
  ASSUME NEW from, NEW to
  PROVE  Table!Takes(from, to) <=>
           AssertTransition(from, to) \/ (from = "none" /\ to = "reserved")
BY DEF Table!Takes, AssertTransition

ByTable(k, r) ==
  /\ Write(k, r)
  /\ k \in Ordinary => Table!Takes(HoldState(k), r.state)

LEMMA StepGoesByTable ==
  ASSUME IInv, Next
  PROVE  \E k \in Keys : \E r : ByTable(k, r)
<1>1. PICK k \in Keys, now \in Times, at \in Times :
        \/ \E p \in Policies, a \in Amounts :
             \/ Reserve(k, p, a, now, at)
             \/ ReopenFailed(k, p, a, now, at)
             \/ ReserveWithinOwnerCap(k, p, a, now, at)
             \/ CancelUnsubmittedReservation(k, p, a, now, at)
        \/ \E s \in States \ {"reserved"}, c \in Amounts \cup {0, Null},
              proven \in Times \cup {Null} : Transition(k, s, c, proven, now, at)
        \/ ReleaseDirectReservedAfter(k, now, at)
        \/ \E fee \in Amounts \cup {0} :
             \/ SettleMerchantNativeActualFee(k, fee, now, at)
             \/ \E accepted \in BOOLEAN :
                  SettleMetaMaskNativeActual(k, fee, accepted, now, at)
  BY DEF Next
<1>2. k \in Stored => rows[k] \in Row /\ HoldState(k) = rows[k].state
  BY DEF IInv, TypeOK, HoldState
<1>3. ASSUME NEW p, NEW a, Reserve(k, p, a, now, at) \/ ReserveWithinOwnerCap(k, p, a, now, at)
      PROVE  \E r : ByTable(k, r)
  <2>1. k \notin Stored /\ Write(k, Reserved(p, a, at))
    BY <1>3 DEF Reserve, ReserveWithinOwnerCap
  <2>2. Reserved(p, a, at).state = "reserved"
    BY DEF Reserved
  <2> QED BY <2>1, <2>2, TableIsAssertTransition DEF ByTable, HoldState
<1>4. ASSUME NEW p, NEW a,
             ReopenFailed(k, p, a, now, at) \/ CancelUnsubmittedReservation(k, p, a, now, at)
      PROVE  \E r : ByTable(k, r)
  <2>1. k \notin Ordinary
    BY <1>4 DEF ReopenFailed, CancelUnsubmittedReservation, Ordinary
  <2>2. \E r : Write(k, r)
    BY <1>4 DEF ReopenFailed, CancelUnsubmittedReservation
  <2> QED BY <2>1, <2>2 DEF ByTable
<1>5. ASSUME NEW r, k \in Stored, Write(k, r), AssertTransition(rows[k].state, r.state)
      PROVE  \E q : ByTable(k, q)
  BY <1>2, <1>5, TableIsAssertTransition DEF ByTable
<1>6. ASSUME k \in Stored
      PROVE  \A s, e, c :
               /\ Rewritten(rows[k], s, at, e).state = s
               /\ Consumed(rows[k], s, at, e, c).state = s
               /\ ChargedFee(rows[k], at, c).state = "finalized"
  BY <1>2, <1>6 DEF Rewritten, Consumed, ChargedFee, Row
<1>7. ASSUME NEW s, NEW c, NEW proven, Transition(k, s, c, proven, now, at)
      PROVE  \E r : ByTable(k, r)
  <2>1. k \in Stored /\ AssertTransition(rows[k].state, s)
    BY <1>7 DEF Transition
  <2>2. \/ Write(k, Rewritten(rows[k], s, at, EffectStamp(rows[k], proven, at)))
        \/ Write(k, Consumed(rows[k], s, at, at, c))
        \/ Write(k, Rewritten(rows[k], s, at, Null))
    BY <1>7 DEF Transition
  <2>3. \E r : Write(k, r) /\ r.state = s
    BY <1>6, <2>1, <2>2
  <2> QED BY <1>5, <2>1, <2>3
<1>8. CASE ReleaseDirectReservedAfter(k, now, at)
  <2>1. /\ k \in Stored /\ rows[k].state = "reserved"
        /\ Write(k, Rewritten(rows[k], "failed_before_effect", at, Null))
    BY <1>8 DEF ReleaseDirectReservedAfter
  <2>2. AssertTransition("reserved", "failed_before_effect")
    BY DEF AssertTransition
  <2>3. \E r : Write(k, r) /\ r.state = "failed_before_effect"
    BY <1>6, <2>1
  <2> QED BY <1>5, <2>1, <2>2, <2>3
<1>9. ASSUME NEW fee, NEW accepted,
             \/ SettleMerchantNativeActualFee(k, fee, now, at)
             \/ SettleMetaMaskNativeActual(k, fee, accepted, now, at)
      PROVE  \E r : ByTable(k, r)
  <2>1. /\ k \in Stored /\ rows[k].state \in {"submitted", "unknown_finality"}
        /\ \/ Write(k, ChargedFee(rows[k], at, fee))
           \/ Write(k, Rewritten(rows[k], "finalized", at, at))
           \/ Write(k, Consumed(rows[k], "failed_confirmed_revert", at, at, 0))
    BY <1>9 DEF SettleMerchantNativeActualFee, SettleMetaMaskNativeActual
  <2>2. \E r : Write(k, r) /\ r.state \in {"finalized", "failed_confirmed_revert"}
    BY <1>6, <2>1
  <2>3. \A s \in {"finalized", "failed_confirmed_revert"} : AssertTransition(rows[k].state, s)
    BY <2>1 DEF AssertTransition
  <2> QED BY <1>5, <2>1, <2>2, <2>3
<1> QED BY <1>1, <1>3, <1>4, <1>7, <1>8, <1>9

(* The bucket keeps the holds of every rail but Relay and Permit2 to the     *)
(* table that the rails are shown to keep to themselves: a hold is taken     *)
(* once, and no call of the ledger takes it anywhere else (assertTransition, *)
(* and the settlements that write a row without it).                         *)
THEOREM LedgerKeepsItsTable == Spec => HoldsFollowTheTable
<1> DEFINE shown == [k \in Ordinary |-> HoldState(k)]
<1>1. Init => Table!Init
  BY DEF Init, Table!Init, HoldState, Stored
<1>2. IInv /\ [Next]_vars => [Table!Next]_shown
  <2> SUFFICES ASSUME IInv, [Next]_vars, shown' # shown PROVE Table!Next
    OBVIOUS
  <2>1. rows' # rows
    BY DEF HoldState, Stored
  <2>2. PICK k \in Keys : \E r : ByTable(k, r)
    BY <2>1, StepGoesByTable DEF vars
  <2>3. PICK r : ByTable(k, r)
    BY <2>2
  <2>4. /\ DOMAIN rows' = Stored \cup {k}
        /\ \A j \in Stored \cup {k} : rows'[j] = IF j = k THEN r ELSE rows[j]
    BY <2>3 DEF ByTable, Write
  <2>5. \A j \in Keys : HoldState(j)' = IF j = k THEN r.state ELSE HoldState(j)
    BY <2>4 DEF HoldState, Stored
  <2>6. Ordinary \subseteq Keys
    BY DEF Ordinary
  <2>7. shown' = [shown EXCEPT ![k] = r.state]
    BY <2>5, <2>6
  <2>8. k \in Ordinary
    BY <2>7
  <2>9. Table!Takes(shown[k], r.state)
    BY <2>3, <2>8 DEF ByTable
  <2>10. r.state \in Table!States
    BY <2>9 DEF Table!Takes, Table!States
  <2> HIDE DEF shown
  <2>11. Table!Write(k, r.state)
    BY <2>7, <2>9 DEF Table!Write, shown
  <2> QED BY <2>8, <2>10, <2>11 DEF Table!Next
<1>3. Spec => []IInv
  BY RowsStayReadable, PTL DEF IInv
<1> QED BY <1>1, <1>2, <1>3, PTL DEF Spec, HoldsFollowTheTable, Table!Spec

-----------------------------------------------------------------------------
(* The allowlist of a profile: its revisions and its owner's decisions       *)

(* A screen that still waits for its owner shows a change of the chain as it *)
(* was when the screen was drawn: it revokes what was active then, or        *)
(* activates what was not.  Only the comparison of appendDecision turns this *)
(* into a fact about the chain that the decision joins.                      *)
ScreensFit ==
  \A c \in Commands : run[c].at = "ask" =>
    /\ run[c].saw \in 0..Len(entries)
    /\ (run[c].status = "revoked")
         = (ActiveAfter(run[c].saw) = run[c].revision)

(* A prepared operation is bound to an activation of a revision that names   *)
(* its account, and a gasless approval that has read the policy keeps the    *)
(* chain from growing.                                                       *)
BindingsFit ==
  \A o \in Ops :
    /\ bound[o] # 0 =>
         /\ entries[bound[o]].status = "active"
         /\ Account(entries[bound[o]].revision, OwnerOf[o].family)
              = OwnerOf[o].account
    /\ busy[o] = "confirmed" =>
         /\ bound[o] # 0
         /\ LaneOf[o] = "gasless" => Len(entries) = bound[o]

-----------------------------------------------------------------------------
LEMMA PolicyInitTyped == PolicyInit => PolicyTypeOK
BY DEF PolicyInit, PolicyTypeOK, Idle, Run

(* The store loads after every step.                                         *)
LEMMA PolicyNextTyped == PolicyTypeOK /\ [PolicyNext]_policyVars => PolicyTypeOK'
<1> SUFFICES ASSUME PolicyTypeOK, [PolicyNext]_policyVars PROVE PolicyTypeOK'
  OBVIOUS
<1>1. ASSUME NEW c \in Commands, Author(c) PROVE PolicyTypeOK'
  <2>1. Len(records) \in Nat
    BY DEF PolicyTypeOK
  <2>2. run' = [run EXCEPT ![c] = [at |-> "author", status |-> "active",
                                  revision |-> 0, saw |-> Len(records)]]
    BY <1>1 DEF Author
  <2>3. /\ run' \in [Commands -> Run]
        /\ \A d \in Commands : run'[d].at = "ask" => run'[d] = run[d]
    BY <2>1, <2>2 DEF PolicyTypeOK, Run
  <2> QED BY <1>1, <2>3 DEF Author, PolicyTypeOK
<1>2. ASSUME NEW c \in Commands, NEW file \in Files, Stage(c, file)
      PROVE PolicyTypeOK'
  <2>1. [file |-> file, over |-> run[c].saw] \in Revision
    BY <1>2 DEF PolicyTypeOK, Revision, Run
  <2>2. /\ records' \in Seq(Revision) /\ DOMAIN records \subseteq DOMAIN records'
    BY <1>2, <2>1 DEF Stage, PolicyTypeOK
  <2>3. /\ run' \in [Commands -> Run]
        /\ \A d \in Commands : run'[d].at = "ask" => run'[d] = run[d]
    BY <1>2 DEF Stage, PolicyTypeOK, Idle, Run
  <2> QED BY <1>2, <2>2, <2>3 DEF Stage, PolicyTypeOK
<1>3. ASSUME NEW c \in Commands, NEW n \in DOMAIN records, NEW now \in Instants,
             Activate(c, n, now)
      PROVE PolicyTypeOK'
  BY <1>3 DEF Activate, PolicyTypeOK, Run
<1>4. ASSUME NEW c \in Commands, Revoke(c) PROVE PolicyTypeOK'
  <2>1. Active \in DOMAIN records /\ Len(entries) \in Nat /\ Active \in Nat
    BY <1>4 DEF Revoke, Active, PolicyTypeOK, Entry
  <2> QED BY <1>4, <2>1 DEF Revoke, PolicyTypeOK, Run
<1>5. ASSUME NEW c \in Commands, AppendDecision(c) PROVE PolicyTypeOK'
  <2> DEFINE e == [status |-> run[c].status, shown |-> run[c].saw,
                   revision |-> run[c].revision]
  <2>1. e \in Entry /\ e.revision \in DOMAIN records
    BY <1>5 DEF AppendDecision, PolicyTypeOK, Entry, Run
  <2>2. entries' = Append(entries, e)
    BY <1>5 DEF AppendDecision
  <2> HIDE DEF e
  <2>3. /\ entries' \in Seq(Entry) /\ Len(entries') = Len(entries) + 1
        /\ \A n \in DOMAIN entries' : entries'[n].revision \in DOMAIN records
    BY <2>1, <2>2 DEF PolicyTypeOK
  <2>4. /\ run' \in [Commands -> Run]
        /\ \A d \in Commands : run'[d].at = "ask" => run'[d] = run[d]
    BY <1>5 DEF AppendDecision, PolicyTypeOK, Idle, Run
  <2>5. \A o \in Ops : bound[o] \in 0..Len(entries')
    BY <2>3 DEF PolicyTypeOK
  <2> QED BY <1>5, <2>3, <2>4, <2>5 DEF AppendDecision, PolicyTypeOK
<1>6. ASSUME NEW c \in Commands, GiveUp(c) PROVE PolicyTypeOK'
  BY <1>6 DEF GiveUp, PolicyTypeOK, Idle, Run
<1>7. ASSUME NEW o \in Ops, NEW now \in Instants, Prepare(o, now) PROVE PolicyTypeOK'
  <2>1. Len(entries) \in Nat
    BY DEF PolicyTypeOK
  <2> QED BY <1>7, <2>1 DEF Prepare, PolicyTypeOK
<1>8. ASSUME NEW o \in Ops, NEW now \in Instants, Confirm(o, now) PROVE PolicyTypeOK'
  BY <1>8 DEF Confirm, PolicyTypeOK
<1>9. ASSUME NEW o \in Ops, ReserveUnder(o) \/ Stop(o) PROVE PolicyTypeOK'
  BY <1>9 DEF ReserveUnder, Stop, PolicyTypeOK
<1>10. CASE UNCHANGED policyVars
  BY <1>10 DEF policyVars, PolicyTypeOK
<1> QED BY <1>1, <1>2, <1>3, <1>4, <1>5, <1>6, <1>7, <1>8, <1>9, <1>10 DEF PolicyNext

LEMMA PolicyTyped == PolicySpec => []PolicyTypeOK
<1> QED BY PolicyInitTyped, PolicyNextTyped, PTL DEF PolicySpec

-----------------------------------------------------------------------------
(* A revision only joins records that agree with it; nothing changes one.  *)
LEMMA NextBound ==
  PolicyTypeOK /\ FamilyHasOneAccount /\ [PolicyNext]_policyVars
    => FamilyHasOneAccount'
<1> SUFFICES ASSUME PolicyTypeOK, FamilyHasOneAccount, [PolicyNext]_policyVars
             PROVE  FamilyHasOneAccount'
  OBVIOUS
<1>1. ASSUME NEW c \in Commands, NEW file \in Files, Stage(c, file)
      PROVE FamilyHasOneAccount'
  <2> DEFINE r == [file |-> file, over |-> run[c].saw]
  <2>1. records' = Append(records, r) /\ r.file = file /\ records \in Seq(Revision)
    BY <1>1 DEF Stage, PolicyTypeOK
  <2> HIDE DEF r
  <2>2. /\ DOMAIN records' = DOMAIN records \cup {Len(records) + 1}
        /\ \A n \in DOMAIN records : records'[n] = records[n]
        /\ records'[Len(records) + 1].file = file
    BY <2>1
  <2>3. Unbound(file)
    BY <1>1 DEF Stage
  <2> QED BY <2>2, <2>3 DEF FamilyHasOneAccount, Unbound, Account
<1>2. CASE UNCHANGED records
  BY <1>2 DEF FamilyHasOneAccount, Account
<1> QED BY <1>1, <1>2 DEF PolicyNext, policyVars, Author, Activate,
           Revoke, AppendDecision, GiveUp, Prepare,
           Confirm, ReserveUnder, Stop

(* "A family's account is bound": over all records of the profile, staged  *)
(* from whatever terminal and decided or not, a family has one account       *)
(* (assertCompatibleRevision, allowlist-policy-store.ts).                    *)
THEOREM FamilyStaysBound == PolicySpec => []FamilyHasOneAccount
<1>1. PolicyInit => FamilyHasOneAccount
  BY DEF PolicyInit, FamilyHasOneAccount
<1> QED BY <1>1, PolicyTyped, NextBound, PTL DEF PolicySpec

-----------------------------------------------------------------------------
(* The chain's head, as Active and as ActiveAfter say it.                    *)
LEMMA HeadIsActive == PolicyTypeOK => Active = ActiveAfter(Len(entries))
BY DEF PolicyTypeOK, Active, ActiveAfter

(* What joins the chain leaves what was active before it as it was.          *)
LEMMA ChainOnlyGrows ==
  ASSUME PolicyTypeOK, NEW e, entries' = Append(entries, e)
  PROVE  /\ Len(entries') = Len(entries) + 1
         /\ DOMAIN entries' = DOMAIN entries \cup {Len(entries')}
         /\ \A n \in DOMAIN entries : entries'[n] = entries[n]
         /\ entries'[Len(entries')] = e
         /\ \A n \in 0..Len(entries) : ActiveAfter(n)' = ActiveAfter(n)
<1>1. /\ Len(entries') = Len(entries) + 1
      /\ DOMAIN entries' = DOMAIN entries \cup {Len(entries')}
      /\ \A n \in DOMAIN entries : entries'[n] = entries[n]
      /\ entries'[Len(entries')] = e
      /\ DOMAIN entries = 1..Len(entries) /\ Len(entries) \in Nat
  BY DEF PolicyTypeOK
<1> QED BY <1>1 DEF ActiveAfter

LEMMA NextScreens ==
  PolicyTypeOK /\ ScreensFit /\ NothingIsOverlooked /\ [PolicyNext]_policyVars
    => ScreensFit' /\ NothingIsOverlooked'
<1> SUFFICES ASSUME PolicyTypeOK, ScreensFit, NothingIsOverlooked,
       [PolicyNext]_policyVars
             PROVE  ScreensFit' /\ NothingIsOverlooked'
  OBVIOUS
<1>1. ASSUME NEW c \in Commands, NEW file \in Files, Stage(c, file)
      PROVE ScreensFit' /\ NothingIsOverlooked'
  <2> DEFINE r == [file |-> file, over |-> run[c].saw]
  <2>1. records' = Append(records,
         r) /\ r.over = Len(records) /\ records \in Seq(Revision)
    BY <1>1 DEF Stage, PolicyTypeOK
  <2> HIDE DEF r
  <2>2. \A n \in DOMAIN records' : records'[n].over = n - 1
    BY <2>1 DEF NothingIsOverlooked
  <2>3. \A d \in Commands : run'[d].at = "ask" => run'[d] = run[d]
    BY <1>1 DEF Stage, PolicyTypeOK, Idle
  <2>4. entries' = entries
    BY <1>1 DEF Stage
  <2> QED BY <2>2, <2>3, <2>4 DEF ScreensFit, NothingIsOverlooked, ActiveAfter
<1>2. ASSUME NEW c \in Commands, NEW n \in DOMAIN records, NEW now \in Instants,
             Activate(c, n, now)
      PROVE ScreensFit' /\ NothingIsOverlooked'
  <2>1. Len(entries) \in 0..Len(entries) /\ n # ActiveAfter(Len(entries))
    BY <1>2, HeadIsActive DEF Activate, PolicyTypeOK
  <2>2. /\ run'[c].saw = Len(entries) /\ run'[c].status = "active"
        /\ run'[c].revision = n
        /\ \A d \in Commands \ {c} : run'[d] = run[d]
        /\ entries' = entries /\ records' = records
    BY <1>2 DEF Activate, PolicyTypeOK
  <2>3. \A k : ActiveAfter(k)' = ActiveAfter(k)
    BY <2>2 DEF ActiveAfter
  <2>4. Len(entries') = Len(entries)
    BY <2>2
  <2> QED BY <2>1, <2>2, <2>3, <2>4 DEF ScreensFit, NothingIsOverlooked
<1>3. ASSUME NEW c \in Commands, Revoke(c)
      PROVE ScreensFit' /\ NothingIsOverlooked'
  <2>1. Len(entries) \in 0..Len(entries) /\ Active = ActiveAfter(Len(entries))
    BY HeadIsActive DEF PolicyTypeOK
  <2>2. /\ run'[c].saw = Len(entries) /\ run'[c].status = "revoked"
        /\ run'[c].revision = Active
        /\ \A d \in Commands \ {c} : run'[d] = run[d]
        /\ entries' = entries /\ records' = records
    BY <1>3 DEF Revoke, PolicyTypeOK
  <2> QED BY <2>1, <2>2 DEF ScreensFit, NothingIsOverlooked, ActiveAfter
<1>4. ASSUME NEW c \in Commands, AppendDecision(c)
      PROVE ScreensFit' /\ NothingIsOverlooked'
  <2> DEFINE e == [status |-> run[c].status, shown |-> run[c].saw,
                   revision |-> run[c].revision]
  <2>1. /\ entries' = Append(entries, e) /\ records' = records
        /\ (e.status = "revoked") = (ActiveAfter(Len(entries)) = e.revision)
    BY <1>4 DEF AppendDecision, ScreensFit
  <2>2. \A d \in Commands : run'[d].at = "ask" => run'[d] = run[d]
    BY <1>4 DEF AppendDecision, PolicyTypeOK, Idle
  <2> HIDE DEF e
  <2>3. /\ Len(entries') = Len(entries) + 1
        /\ DOMAIN entries' = DOMAIN entries \cup {Len(entries')}
        /\ \A n \in DOMAIN entries : entries'[n] = entries[n]
        /\ entries'[Len(entries')] = e
        /\ \A n \in 0..Len(entries) : ActiveAfter(n)' = ActiveAfter(n)
    BY <2>1, ChainOnlyGrows
  <2>4. Len(entries) \in Nat /\ DOMAIN entries = 1..Len(entries)
    BY DEF PolicyTypeOK
  <2>5. ScreensFit'
    BY <2>2, <2>3, <2>4 DEF ScreensFit
  <2>6. \A n \in DOMAIN entries' :
          (entries'[n].status = "revoked") = (ActiveAfter(n - 1)' = entries'[n].revision)
    <3>1. ASSUME NEW n \in DOMAIN entries
          PROVE (entries'[n].status = "revoked")
                  = (ActiveAfter(n - 1)' = entries'[n].revision)
      <4>1. n - 1 \in 0..Len(entries)
        BY <2>4
      <4> QED BY <2>3, <4>1 DEF NothingIsOverlooked
    <3>2. Len(entries') - 1 = Len(entries) /\ Len(entries) \in 0..Len(entries)
      BY <2>3, <2>4
    <3> QED BY <2>1, <2>3, <3>1, <3>2
  <2> QED BY <2>1, <2>5, <2>6 DEF NothingIsOverlooked
<1>5. ASSUME NEW c \in Commands, Author(c) \/ GiveUp(c)
      PROVE ScreensFit' /\ NothingIsOverlooked'
  <2>1. /\ \A d \in Commands : run'[d].at = "ask" => run'[d] = run[d]
        /\ entries' = entries /\ records' = records
    <3>1. CASE Author(c)
      <4>1. run' = [run EXCEPT ![c] = [at |-> "author", status |-> "active",
                                      revision |-> 0, saw |-> Len(records)]]
        BY <3>1 DEF Author
      <4> QED BY <3>1, <4>1 DEF Author, PolicyTypeOK
    <3>2. CASE GiveUp(c)
      BY <3>2 DEF GiveUp, PolicyTypeOK, Idle
    <3> QED BY <1>5, <3>1, <3>2
  <2> QED BY <2>1 DEF ScreensFit, NothingIsOverlooked, ActiveAfter
<1>6. CASE UNCHANGED <<records, entries, run>>
  BY <1>6 DEF ScreensFit, NothingIsOverlooked, ActiveAfter
<1> QED BY <1>1, <1>2, <1>3, <1>4, <1>5, <1>6 DEF PolicyNext, policyVars, Prepare,
           Confirm, ReserveUnder, Stop

(* No revision is written over one its author had not seen, and no decision  *)
(* replaces another policy than the one its screen showed, however many      *)
(* owners decide at however many terminals (stage and appendDecision).       *)
THEOREM OwnersOverlookNothing == PolicySpec => []NothingIsOverlooked
<1>1. PolicyInit => ScreensFit /\ NothingIsOverlooked
  BY DEF PolicyInit, ScreensFit, NothingIsOverlooked, Idle
<1> QED BY <1>1, PolicyTyped, NextScreens, PTL DEF PolicySpec

-----------------------------------------------------------------------------
LEMMA NextBindings == PolicyTypeOK /\ BindingsFit /\ [PolicyNext]_policyVars => BindingsFit'
<1> SUFFICES ASSUME PolicyTypeOK, BindingsFit, [PolicyNext]_policyVars PROVE BindingsFit'
  OBVIOUS
<1>1. ASSUME NEW c \in Commands, NEW file \in Files, Stage(c, file)
      PROVE BindingsFit'
  <2>1. /\ \A n \in DOMAIN records : records'[n] = records[n]
        /\ UNCHANGED <<entries, bound, busy>>
    BY <1>1 DEF Stage, PolicyTypeOK
  <2>2. \A o \in Ops : bound[o] # 0 => entries[bound[o]].revision \in DOMAIN records
    BY DEF PolicyTypeOK
  <2> QED BY <2>1, <2>2 DEF BindingsFit, Account
<1>2. ASSUME NEW c \in Commands, AppendDecision(c) PROVE BindingsFit'
  <2>1. \A o \in Ops : busy[o] = "confirmed" => LaneOf[o] # "gasless"
    BY <1>2 DEF AppendDecision, Free
  <2>2. /\ \A n \in DOMAIN entries : entries'[n] = entries[n]
        /\ UNCHANGED <<records, bound, busy>>
    BY <1>2 DEF AppendDecision, PolicyTypeOK
  <2>3. \A o \in Ops : bound[o] # 0 => bound[o] \in DOMAIN entries
    BY DEF PolicyTypeOK
  <2> QED BY <2>1, <2>2, <2>3 DEF BindingsFit, Account
<1>3. ASSUME NEW o \in Ops, NEW now \in Instants, Prepare(o, now) PROVE BindingsFit'
  <2>1. /\ Active # 0 /\ Account(Active,
         OwnerOf[o].family) = OwnerOf[o].account
        /\ bound[o] = 0
    BY <1>3 DEF Prepare, Admits
  <2>2. /\ entries[Len(entries)].status = "active"
        /\ entries[Len(entries)].revision = Active
    <3>1. entries # << >> /\ entries[Len(entries)].status # "revoked"
          /\ entries[Len(entries)].revision = Active
      BY <2>1 DEF Active
    <3>2. Len(entries) \in DOMAIN entries
      BY <3>1 DEF PolicyTypeOK
    <3>3. entries[Len(entries)] \in Entry
      BY <3>2 DEF PolicyTypeOK
    <3> QED BY <3>1, <3>3 DEF Entry
  <2>3. /\ bound'[o] = Len(entries) /\ \A q \in Ops \ {o} : bound'[q] = bound[q]
        /\ UNCHANGED <<records, entries, busy>>
    BY <1>3 DEF Prepare, PolicyTypeOK
  <2> QED BY <2>1, <2>2, <2>3 DEF BindingsFit, Account
<1>4. ASSUME NEW o \in Ops, NEW now \in Instants, Confirm(o, now) PROVE BindingsFit'
  <2>1. bound[o] # 0 /\ (LaneOf[o] = "gasless" => Len(entries) = bound[o])
    BY <1>4 DEF Confirm, Unchanged
  <2>2. /\ \A q \in Ops \ {o} : busy'[q] = busy[q]
        /\ UNCHANGED <<records, entries, bound>>
    BY <1>4 DEF Confirm, PolicyTypeOK
  <2> QED BY <2>1, <2>2 DEF BindingsFit, Account
<1>5. ASSUME NEW o \in Ops, ReserveUnder(o) \/ Stop(o) PROVE BindingsFit'
  <2>1. /\ \A q \in Ops : busy'[q] = "confirmed" => busy[q] = "confirmed"
        /\ UNCHANGED <<records, entries, bound>>
    BY <1>5 DEF ReserveUnder, Stop, PolicyTypeOK
  <2> QED BY <2>1 DEF BindingsFit, Account
<1>6. CASE UNCHANGED <<records, entries, bound, busy>>
  BY <1>6 DEF BindingsFit, Account
<1> QED BY <1>1, <1>2, <1>3, <1>4, <1>5, <1>6 DEF PolicyNext, policyVars, Author,
           Activate, Revoke, GiveUp

(* Whatever owners decide while operations are prepared and approved, an     *)
(* operation's amount is held only under the policy it was prepared      *)
(* under, which names its account; in the gasless lane while that activation *)
(* is still the head of the chain (confirm in asset-policy.ts, assert in     *)
(* direct-allowlist-gate.ts).                                                *)
THEOREM ReservedUnderOwnRevision == PolicySpec => HeldUnderOwnRevision
<1>1. PolicyInit => BindingsFit
  BY DEF PolicyInit, BindingsFit
<1>2. PolicyTypeOK /\ BindingsFit /\ [PolicyNext]_policyVars =>
        [\A o \in Ops : held'[o] /\ ~held[o] =>
           /\ bound'[o] = bound[o] /\ entries[bound[o]].status = "active"
           /\ Account(entries[bound[o]].revision, OwnerOf[o].family)
                = OwnerOf[o].account
           /\ LaneOf[o] = "gasless" => Len(entries) = bound[o]]_policyVars
  <2>1. ASSUME PolicyTypeOK, NEW q \in Ops, ReserveUnder(q), NEW o \in Ops, held'[o],
         ~held[o]
        PROVE busy[o] = "confirmed" /\ bound'[o] = bound[o]
    BY <2>1 DEF ReserveUnder, PolicyTypeOK
  <2>2. ASSUME PolicyTypeOK, [PolicyNext]_policyVars, NEW o \in Ops, held'[o],
         ~held[o]
        PROVE \E q \in Ops : ReserveUnder(q)
    BY <2>2 DEF PolicyNext, policyVars, Author, Stage, Activate,
           Revoke, AppendDecision, GiveUp,
           Prepare, Confirm, Stop
  <2> QED BY <2>1, <2>2 DEF BindingsFit
<1> QED BY <1>1, <1>2, PolicyTyped, NextBindings, PTL DEF PolicySpec,
       HeldUnderOwnRevision

=============================================================================
