------------------------ MODULE OperationIndexProofs ------------------------
(* Theorems of the operation index, for every number of operations,          *)
(* preparers, accounts and keys.                                             *)
EXTENDS OperationIndex, Integers, TLAPS

(* The lock of an operation's family: one process at a time prepares it.    *)
OneEach == \A p, q \in Preparers : Prepares[p] = Prepares[q] => p = q

Files == [state : {"none", "admitted", "active", "terminal"}, no : Nat]
StepNames == {"idle", "names", "walk", "list", "check", "put_open", "put_entry", "forget",
              "work", "after"}
Processes == [step : StepNames, todo : SUBSET Ops, seen : [Ops -> Files],
              of : Ops \cup {Collector}, new : Files, then : {"idle", "walk", "check"},
              clear : SUBSET Ops, again : BOOLEAN]

Typed ==
  /\ wanted \in Requests
  /\ rec \in [Ops -> {"none", "open", "terminal"}]
  /\ entry \in [Ops -> Files] /\ open \in [Ops -> Files]
  /\ pointer \in [Keys -> SUBSET Ops]
  /\ admissions \in [Ops -> Nat] /\ lapsed \in [Ops -> Nat]
  /\ cutShort \subseteq Ops
  /\ at \in [Procs -> Processes]

(* What a file e of operation q says of q was so when it was written.       *)
Says(q, e) ==
  /\ e.state = "none" => e = Absent
  /\ e.state = "admitted" => e.no \in 1 .. admissions[q]
  /\ e.state = "active" => rec[q] # "none"
  /\ e.state = "terminal" => rec[q] = "terminal"

(* The files of q: neither is ahead of the record, and an entry comes last. *)
Bound(q) == q \in pointer[Key(q)]
OpFits(q) ==
  /\ Says(q, entry[q]) /\ Says(q, open[q]) /\ open[q].state # "terminal"
  /\ lapsed[q] <= admissions[q]
  /\ q \notin cutShort /\ rec[q] # "none" /\ entry[q] # Absent =>
       Bound(q) /\ (rec[q] = "open" => open[q] # Absent)

(* p runs its prepare body, on an admission of its operation.               *)
Uses(p, q) == p \in Preparers /\ Prepares[p] = q /\ at[p].step \in {"work", "after"}
(* Two operations, with a record or about to write one.                     *)
Has(q) == rec[q] # "none" \/ InUse(q)
Live(q) == rec[q] = "open" \/ InUse(q)
PairFits(o, q) ==
  /\ Key(o) = Key(q) /\ Has(o) /\ Has(q) => {o, q} \cap cutShort # {}
  /\ q \in Colliding(o) /\ Live(o) /\ Live(q) =>
       \E r \in {o, q} : admissions[r] > 1 \/ r \in cutShort

(* What a check has found dead needs another admission to come alive.       *)
Harmless(q) ==
  \/ rec[q] = "terminal" \/ q \in cutShort \/ admissions[q] > 1
  \/ rec[q] = "none" /\ lapsed[q] = admissions[q] /\ admissions[q] = 1

(* Process x, about to drop entry e of q, meets a newer one if there is a   *)
(* record by now or somebody else works under an admission.                 *)
Droppable(x, q, e) ==
  \/ q \in cutShort
  \/ rec[q] = "none" /\ \A p \in Preparers \ {x} : ~Uses(p, q)
  \/ e.no < admissions[q] /\ entry[q] # e

(* The walk has given every record its entry.                               *)
Walked == \A q \in Ops : rec[q] # "none" /\ q \notin cutShort => entry[q] # Absent

(* What the loop of a process in state s relies on: that what it writes, or *)
(* drops, or has read, fits the record; that the walk has covered what it   *)
(* left behind; that the check has cleared only what is harmless; that the  *)
(* admission it works under is the newest one.                              *)
PutFits(s) ==
  /\ s.of \in Ops /\ s.new.state \in {"active", "terminal"} /\ Says(s.of, s.new)
  /\ s.of \notin cutShort => Bound(s.of)
  /\ s.then = "check" => rec[s.of] = "terminal"
  /\ s.step = "put_entry" /\ rec[s.of] = "open" /\ s.of \notin cutShort =>
       open[s.of] # Absent
ForgetFits(x, s) ==
  /\ s.of \in Ops /\ s.seen[s.of].state = "admitted" /\ Says(s.of, s.seen[s.of])
  /\ Droppable(x, s.of, s.seen[s.of])
  /\ s.then # "walk" /\ (s.then = "check" => Harmless(s.of))
SeenFits(s) == \A q \in s.todo : s.seen[q].state \in {"admitted", "active"} /\ Says(q, s.seen[q])
WalkFits(s) ==
  \A q \in Ops :
    /\ rec[q] # "none" /\ q \notin cutShort => q \in s.todo \/ entry[q] # Absent
    /\ s.step # "names" /\ q \in s.todo => rec[q] # "none"
CheckFits(p, s) ==
  /\ Walked
  /\ rec[Prepares[p]] = "none" \/ Prepares[p] \in cutShort
  /\ \A q \in s.clear : Harmless(q)
WorkFits(p, s) ==
  LET o == Prepares[p]
  IN o \notin cutShort =>
       /\ entry[o] # Absent /\ open[o] # Absent /\ Bound(o)
       /\ entry[o].state = "admitted" => entry[o].no = admissions[o]
       /\ lapsed[o] < admissions[o]
       /\ rec[o] # "terminal" /\ (s.step = "work" => rec[o] = "none")

Puts == {"put_open", "put_entry"}
Walking(s) == s.step \in {"names", "walk"} \/ (s.step \in Puts /\ s.then = "walk")
Looking(s) == s.step = "check" \/ (s.step \in Puts \cup {"forget"} /\ s.then = "check")
Checking(s) == s.step = "list" \/ Looking(s)
ProcFits(x, s) ==
  /\ s.step \in Puts => PutFits(s)
  /\ s.step = "forget" => ForgetFits(x, s)
  /\ Looking(s) => SeenFits(s)
  /\ x \in Preparers =>
       /\ Walking(s) => WalkFits(s)
       /\ Checking(s) => CheckFits(x, s)
       /\ s.step \in {"work", "after"} => WorkFits(x, s)
  /\ x = Collector => s.step \in {"idle", "check", "forget"} \cup Puts /\ s.then = "idle"

IInv ==
  /\ Typed /\ \A q \in Ops : OpFits(q) /\ \A o \in Ops \ {q} : PairFits(q, o)
  /\ \A x \in Procs : ProcFits(x, at[x])

-----------------------------------------------------------------------------
(* What a step of process x leaves to the others: records and counts only   *)
(* move on, only work gives an operation its record, only an admission is a *)
(* new entry, and no file goes that a record or another's work rests on.    *)
CalmAt(x, q) ==
  /\ q \in cutShort => q \in cutShort'
  /\ rec[q] # "none" => rec'[q] # "none"
  /\ rec[q] = "terminal" => rec'[q] = "terminal"
  /\ rec[q] = "none" /\ rec'[q] # "none" =>
       Uses(x, q) /\ at[x].step = "work" /\ entry'[q] = entry[q] /\ rec'[q] = "open"
  /\ rec[q] # "terminal" /\ rec'[q] = "terminal" => ~InUse(q)
  /\ \/ admissions'[q] = admissions[q]
     \/ /\ admissions'[q] = admissions[q] + 1
        /\ x \in Preparers /\ Prepares[x] = q /\ ~Uses(x, q)
  /\ \/ lapsed'[q] = lapsed[q]
     \/ /\ lapsed'[q] = admissions[q] /\ admissions'[q] = admissions[q]
        /\ InUse(q) => q \in cutShort'
  /\ entry'[q].state = "admitted" =>
       \/ entry'[q] = entry[q]
       \/ entry'[q].no > admissions[q] /\ admissions'[q] # admissions[q]
  /\ Uses(x, q)' /\ ~Uses(x, q) =>
       admissions'[q] # admissions[q] /\ entry'[q] = Admission(admissions'[q])
  /\ q \notin cutShort' /\ (rec[q] # "none" \/ \E p \in Preparers \ {x} : Uses(p, q)) =>
       /\ Bound(q) => Bound(q)'
       /\ entry[q] # Absent => entry'[q] # Absent
       /\ open[q] # Absent /\ rec'[q] # "terminal" => open'[q] # Absent
Calm(x) ==
  /\ wanted' = wanted
  /\ \A y \in Procs \ {x} : at'[y] = at[y]
  /\ \A q \in Ops : CalmAt(x, q)

LEMMA Counts ==
  ASSUME Typed, NEW x, NEW q \in Ops, Calm(x)
  PROVE  /\ admissions[q] \in Nat /\ lapsed[q] \in Nat
         /\ admissions'[q] \in {admissions[q], admissions[q] + 1}
         /\ lapsed'[q] \in {lapsed[q], admissions[q]}
BY DEF Typed, Calm, CalmAt

LEMMA SaysStays ==
  ASSUME Typed, NEW x, Calm(x), NEW q \in Ops, NEW e \in Files, Says(q, e)
  PROVE  Says(q, e)'
<1>1. admissions[q] \in Nat /\ admissions'[q] \in {admissions[q], admissions[q] + 1}
  BY Counts
<1>2. e.no \in 1 .. admissions[q] => e.no \in 1 .. admissions'[q]
  BY <1>1
<1> QED BY <1>2 DEF Says, Calm, CalmAt, Files

LEMMA Working ==
  ASSUME IInv, NEW p, NEW q \in Ops, Uses(p, q), q \notin cutShort
  PROVE  /\ entry[q] # Absent /\ open[q] # Absent /\ Bound(q)
         /\ entry[q].state = "admitted" => entry[q].no = admissions[q]
         /\ lapsed[q] < admissions[q]
         /\ rec[q] # "terminal" /\ (at[p].step = "work" => rec[q] = "none")
BY DEF IInv, Procs, Uses, ProcFits, WorkFits

LEMMA Users ==
  ASSUME NEW q \in Ops
  PROVE  InUse(q) <=> \E p \in Preparers : Uses(p, q)
BY DEF InUse, Uses

LEMMA HarmlessStays ==
  ASSUME IInv, NEW x, Calm(x), NEW q \in Ops, Harmless(q)
  PROVE  Harmless(q)'
<1>1. /\ CalmAt(x, q) /\ admissions[q] \in Nat /\ lapsed[q] \in Nat
      /\ admissions'[q] \in {admissions[q], admissions[q] + 1}
      /\ lapsed'[q] \in {lapsed[q], admissions[q]}
  BY Counts DEF IInv, Calm
<1>2. CASE rec[q] = "terminal" \/ q \in cutShort \/ admissions[q] > 1
  BY <1>1, <1>2 DEF Harmless, CalmAt
<1>3. CASE /\ rec[q] = "none" /\ lapsed[q] = admissions[q] /\ admissions[q] = 1
           /\ q \notin cutShort
  <2>1. rec'[q] = "none"
    BY <1>1, <1>3, Working DEF CalmAt
  <2>2. lapsed'[q] = 1 /\ admissions'[q] \in {1, 2}
    BY <1>1, <1>3
  <2> QED BY <2>1, <2>2 DEF Harmless
<1> QED BY <1>2, <1>3 DEF Harmless

LEMMA DroppableStays ==
  ASSUME IInv, NEW x, Calm(x), NEW y \in Procs \ {x}, NEW q \in Ops,
         NEW e \in Files, e.state = "admitted", Says(q, e), Droppable(y, q, e)
  PROVE  Droppable(y, q, e)'
<1>1. /\ CalmAt(x, q) /\ admissions[q] \in Nat /\ e.no \in Nat /\ e.no <= admissions[q]
      /\ admissions'[q] \in {admissions[q], admissions[q] + 1}
  BY Counts DEF IInv, Calm, Files, Says
<1>2. CASE q \in cutShort
  BY <1>1, <1>2 DEF CalmAt, Droppable
<1>3. CASE rec[q] = "none" /\ \A p \in Preparers \ {y} : ~Uses(p, q)
  <2>1. rec'[q] = "none"
    BY <1>1, <1>3 DEF CalmAt, Uses
  <2>2. CASE \A p \in Preparers \ {y} : ~Uses(p, q)'
    BY <2>1, <2>2 DEF Droppable
  <2>3. ASSUME NEW p \in Preparers \ {y}, Uses(p, q)' PROVE Droppable(y, q, e)'
    <3>1. p = x
      BY <1>3, <2>3 DEF Calm, Uses, Procs
    <3>2. admissions'[q] # admissions[q] /\ entry'[q] = Admission(admissions'[q])
      BY <1>1, <1>3, <2>3, <3>1 DEF CalmAt
    <3>3. e.no < admissions'[q] /\ entry'[q].no = admissions'[q]
      BY <1>1, <3>2 DEF Admission
    <3> QED BY <1>1, <3>3 DEF Droppable
  <2> QED BY <2>2, <2>3
<1>4. CASE e.no < admissions[q] /\ entry[q] # e
  <2>1. e.no < admissions'[q] /\ entry'[q] # e
    BY <1>1, <1>4 DEF CalmAt
  <2> QED BY <2>1 DEF Droppable
<1> QED BY <1>2, <1>3, <1>4 DEF Droppable

LEMMA OthersFit ==
  ASSUME OneEach, IInv, NEW x, Calm(x), NEW y \in Procs \ {x}
  PROVE  ProcFits(y, at[y])'
<1>1. PICK s \in Processes : at[y] = s /\ at'[y] = s
  BY DEF IInv, Typed, Calm
<1>2. ProcFits(y, s) /\ Typed
  BY <1>1 DEF IInv
<1>3. \A q \in Ops : CalmAt(x, q)
  BY DEF Calm
<1>4. ASSUME NEW q \in Ops, rec[q] = "none", rec'[q] # "none", q \notin cutShort'
      PROVE  entry'[q] # Absent
  BY <1>3, <1>4, Working DEF CalmAt
<1>5. ASSUME s.step \in Puts PROVE PutFits(s)'
  <2>1. PutFits(s) /\ s.of \in Ops /\ s.new \in Files
    BY <1>2, <1>5 DEF ProcFits, PutFits, Processes
  <2>2. PICK q \in Ops : s.of = q
    BY <2>1
  <2>3. Says(q, s.new)' /\ rec[q] # "none" /\ CalmAt(x, q)
    BY <1>2, <1>3, <2>1, <2>2, SaysStays DEF PutFits, Says
  <2>4. /\ q \notin cutShort' => Bound(q)'
        /\ s.then = "check" => rec'[q] = "terminal"
        /\ s.step = "put_entry" /\ rec'[q] = "open" /\ q \notin cutShort' => open'[q] # Absent
    <3>1. /\ q \notin cutShort => Bound(q)
          /\ s.then = "check" => rec[q] = "terminal"
          /\ s.step = "put_entry" /\ rec[q] = "open" /\ q \notin cutShort => open[q] # Absent
          /\ rec[q] \in {"none", "open", "terminal"}
      BY <1>2, <2>1, <2>2 DEF PutFits, Typed
    <3> QED BY <2>3, <3>1 DEF CalmAt
  <2> QED BY <2>1, <2>2, <2>3, <2>4 DEF PutFits
<1>6. ASSUME s.step = "forget" PROVE ForgetFits(y, s)'
  <2>1. ForgetFits(y, s) /\ s.of \in Ops /\ s.seen[s.of] \in Files
    BY <1>2, <1>6 DEF ProcFits, ForgetFits, Processes
  <2>2. Says(s.of, s.seen[s.of])' /\ Droppable(y, s.of, s.seen[s.of])'
    BY <1>2, <2>1, SaysStays, DroppableStays DEF ForgetFits
  <2>3. s.then # "walk" /\ (s.then = "check" => Harmless(s.of)')
    BY <2>1, HarmlessStays DEF ForgetFits
  <2> QED BY <2>1, <2>2, <2>3 DEF ForgetFits
<1>7. ASSUME Looking(s) PROVE SeenFits(s)'
  <2>1. SeenFits(s) /\ s.todo \subseteq Ops /\ s.seen \in [Ops -> Files]
    BY <1>2, <1>7 DEF ProcFits, Processes
  <2> QED BY <1>2, <2>1, SaysStays DEF SeenFits
<1>8. ASSUME y \in Preparers, Walking(s) PROVE WalkFits(s)'
  <2>1. WalkFits(s)
    BY <1>2, <1>8 DEF ProcFits
  <2> QED BY <1>3, <1>4, <2>1 DEF WalkFits, CalmAt
<1>9. ASSUME y \in Preparers, Checking(s) PROVE CheckFits(y, s)'
  <2>1. CheckFits(y, s) /\ s.clear \subseteq Ops /\ Prepares[y] \in Ops
    BY <1>2, <1>9, ProcessAssumption DEF ProcFits, Processes
  <2>2. Walked'
    BY <1>3, <1>4, <2>1 DEF CheckFits, Walked, CalmAt
  <2>3. rec'[Prepares[y]] = "none" \/ Prepares[y] \in cutShort'
    BY <1>3, <1>9, <2>1 DEF CheckFits, CalmAt, Uses, OneEach
  <2> QED BY <2>1, <2>2, <2>3, HarmlessStays DEF CheckFits
<1>10. ASSUME y \in Preparers, s.step \in {"work", "after"} PROVE WorkFits(y, s)'
  <2> DEFINE o == Prepares[y]
  <2>1. /\ o \in Ops /\ Uses(y, o) /\ InUse(o) /\ ~Uses(x, o)
        /\ x \in Preparers => Prepares[x] # o
    BY <1>1, <1>10, ProcessAssumption, Users DEF Uses, OneEach
  <2> HIDE DEF o
  <2>2. SUFFICES ASSUME o \notin cutShort'
                 PROVE  /\ entry'[o] # Absent /\ open'[o] # Absent /\ Bound(o)'
                        /\ entry'[o].state = "admitted" => entry'[o].no = admissions'[o]
                        /\ lapsed'[o] < admissions'[o]
                        /\ rec'[o] # "terminal" /\ (s.step = "work" => rec'[o] = "none")
    BY DEF WorkFits, o
  <2>3. CalmAt(x, o) /\ o \notin cutShort
    BY <1>3, <2>1, <2>2 DEF CalmAt
  <2>4. /\ entry[o] # Absent /\ open[o] # Absent /\ Bound(o)
        /\ entry[o].state = "admitted" => entry[o].no = admissions[o]
        /\ lapsed[o] < admissions[o]
        /\ rec[o] # "terminal" /\ (s.step = "work" => rec[o] = "none")
    BY <1>1, <2>1, <2>3, Working
  <2>5. /\ rec'[o] # "terminal" /\ (s.step = "work" => rec'[o] = "none")
        /\ admissions'[o] = admissions[o] /\ lapsed'[o] = lapsed[o]
    BY <2>1, <2>2, <2>3, <2>4 DEF CalmAt
  <2> QED BY <1>10, <2>1, <2>2, <2>3, <2>4, <2>5 DEF CalmAt
<1> QED BY <1>1, <1>2, <1>5, <1>6, <1>7, <1>8, <1>9, <1>10 DEF ProcFits

(* The records and the index files alone.                                   *)
Stored ==
  /\ wanted \in Requests
  /\ rec \in [Ops -> {"none", "open", "terminal"}]
  /\ entry \in [Ops -> Files] /\ open \in [Ops -> Files]
  /\ pointer \in [Keys -> SUBSET Ops]
  /\ admissions \in [Ops -> Nat] /\ lapsed \in [Ops -> Nat]
  /\ cutShort \subseteq Ops

(* A step of x is judged by what it leaves to the others, by the operations *)
(* it touched and by where it leaves x.                                     *)
LEMMA StepKeeps ==
  ASSUME OneEach, IInv, NEW x \in Procs, NEW s \in Processes, Become(x, s), wanted' = wanted,
         Stored', \A q \in Ops : CalmAt(x, q), \A q \in Ops : OpFits(q)',
         \A q \in Ops : \A o \in Ops \ {q} : PairFits(q, o)', ProcFits(x, s)'
  PROVE  IInv'
<1>1. at \in [Procs -> Processes]
  BY DEF IInv, Typed
<1>2. at' \in [Procs -> Processes] /\ at'[x] = s /\ \A y \in Procs \ {x} : at'[y] = at[y]
  BY <1>1 DEF Become
<1>3. Calm(x) /\ Typed'
  BY <1>2 DEF Calm, Typed, Stored
<1>4. ASSUME NEW y \in Procs PROVE ProcFits(y, at[y])'
  <2>1. CASE y = x
    BY <1>2, <2>1
  <2>2. CASE y # x
    BY <1>3, <2>2, OthersFit
  <2> QED BY <2>1, <2>2
<1> QED BY <1>3, <1>4 DEF IInv

(* Only an admission makes an operation live, or gives it a key.            *)
LEMMA PairsStay ==
  ASSUME IInv, wanted' = wanted, NEW q \in Ops, NEW o \in Ops \ {q},
         Has(q)' => Has(q), Has(o)' => Has(o), Live(q)' => Live(q), Live(o)' => Live(o),
         \A r \in Ops : /\ admissions[r] > 1 => admissions'[r] > 1
                        /\ r \in cutShort => r \in cutShort'
  PROVE  PairFits(q, o)'
<1>1. PairFits(q, o)
  BY DEF IInv
<1>2. (Key(q) = Key(o))' => Key(q) = Key(o)
  BY DEF Key
<1>3. (o \in Colliding(q))' => o \in Colliding(q)
  BY DEF Colliding
<1>4. ASSUME (Key(q) = Key(o))', Has(q)', Has(o)' PROVE {q, o} \cap cutShort' # {}
  <2>1. Key(q) = Key(o)
    BY <1>2, <1>4
  <2>2. Has(q) /\ Has(o)
    BY <1>4
  <2>3. {q, o} \cap cutShort # {}
    BY <1>1, <2>1, <2>2 DEF PairFits
  <2> QED BY <2>3
<1>5. ASSUME (o \in Colliding(q))', Live(q)', Live(o)'
      PROVE  \E r \in {q, o} : admissions'[r] > 1 \/ r \in cutShort'
  <2>1. o \in Colliding(q)
    BY <1>3, <1>5
  <2>2. Live(q) /\ Live(o)
    BY <1>5
  <2>3. \E r \in {q, o} : admissions[r] > 1 \/ r \in cutShort
    BY <1>1, <2>1, <2>2 DEF PairFits
  <2> QED BY <2>3
<1> QED BY <1>4, <1>5 DEF PairFits

LEMMA PairTurns ==
  ASSUME NEW q \in Ops, NEW o \in Ops \ {q}, PairFits(q, o)'
  PROVE  PairFits(o, q)'
BY DEF PairFits, Colliding

(* An operation whose files the step leaves alone.                          *)
LEMMA OpStays ==
  ASSUME IInv, NEW x, Calm(x), NEW q \in Ops, entry'[q] = entry[q], open'[q] = open[q],
         Bound(q) => Bound(q)'
  PROVE  OpFits(q)'
<1>1. /\ OpFits(q) /\ CalmAt(x, q) /\ entry[q] \in Files /\ open[q] \in Files /\ Typed
  BY DEF IInv, Typed, Calm
<1>2. Says(q, entry[q])' /\ Says(q, open[q])'
  <2>1. PICK e \in Files, f \in Files : e = entry[q] /\ f = open[q]
    BY <1>1
  <2>2. Says(q, e)' /\ Says(q, f)'
    BY <1>1, <2>1, SaysStays DEF OpFits
  <2> QED BY <2>1, <2>2
<1>3. lapsed'[q] <= admissions'[q]
  BY <1>1, Counts DEF OpFits, CalmAt
<1>4. ASSUME q \notin cutShort', rec'[q] # "none", entry'[q] # Absent
      PROVE  Bound(q)' /\ (rec'[q] = "open" => open'[q] # Absent)
  <2>1. CASE rec[q] = "none"
    <3>1. Uses(x, q)
      BY <1>1, <1>4, <2>1 DEF CalmAt
    <3> QED BY <1>1, <1>4, <3>1, Working DEF CalmAt
  <2>2. CASE rec[q] # "none"
    BY <1>1, <1>4, <2>2 DEF OpFits, CalmAt, Typed
  <2> QED BY <2>1, <2>2
<1> QED BY <1>1, <1>2, <1>3, <1>4 DEF OpFits

(* A step that only reads, writes a pointer or ends a use.                  *)
LEMMA Quiet ==
  ASSUME OneEach, IInv, NEW x \in Procs, NEW s \in Processes, Become(x, s),
         UNCHANGED <<wanted, rec, admissions, lapsed, entry, open>>,
         pointer' \in [Keys -> SUBSET Ops], \A k \in Keys : pointer[k] \subseteq pointer'[k],
         cutShort \subseteq cutShort', cutShort' \subseteq Ops,
         s.step \in {"work", "after"} => at[x].step \in {"work", "after"},
         ProcFits(x, s)'
  PROVE  IInv'
<1>1. Stored'
  BY DEF IInv, Typed, Stored
<1>2. at'[x] = s /\ \A y \in Procs \ {x} : at'[y] = at[y]
  BY DEF IInv, Typed, Become
<1>3. ASSUME NEW p, NEW q, Uses(p, q)' PROVE Uses(p, q)
  BY <1>2, <1>3 DEF Uses, Procs
<1>4. ASSUME NEW q \in Ops, Bound(q) PROVE Bound(q)'
  <2>1. Key(q) \in Keys /\ Key(q)' = Key(q)
    BY RequestAssumption DEF IInv, Typed, Key
  <2> QED BY <1>4, <2>1 DEF Bound
<1>5. \A q \in Ops : CalmAt(x, q)
  BY <1>3, <1>4 DEF CalmAt
<1>6. Calm(x)
  BY <1>2, <1>5 DEF Calm
<1>7. \A q \in Ops : OpFits(q)'
  BY <1>4, <1>6, OpStays
<1>8. ASSUME NEW r \in Ops PROVE (Has(r)' => Has(r)) /\ (Live(r)' => Live(r))
  BY <1>3, Users DEF Has, Live, InUse, Uses
<1>9. \A q \in Ops : \A o \in Ops \ {q} : PairFits(q, o)'
  BY <1>8, PairsStay
<1> QED BY <1>1, <1>5, <1>7, <1>9, StepKeeps

(* A step that only reads.                                                  *)
LEMMA Reading ==
  ASSUME OneEach, IInv, NEW x \in Procs, NEW s \in Processes, Become(x, s),
         UNCHANGED <<records, index>>,
         s.step \in {"work", "after"} => at[x].step \in {"work", "after"},
         ProcFits(x, s)
  PROVE  IInv'
<1>1. \A y \in Procs \ {x} : at'[y] = at[y]
  BY DEF IInv, Typed, Become
<1>2. ASSUME NEW q, NEW e, Droppable(x, q, e) PROVE Droppable(x, q, e)'
  BY <1>1, <1>2 DEF Droppable, Uses, Procs, records, index
<1>3. ProcFits(x, s)'
  <2>1. s.step = "forget" => ForgetFits(x, s)'
    BY <1>2 DEF ProcFits, ForgetFits, Says, Harmless, records, index
  <2>2. s.step \in Puts => PutFits(s)'
    BY DEF ProcFits, PutFits, Says, Bound, Key, records, index
  <2>3. Looking(s) => SeenFits(s)'
    BY DEF ProcFits, SeenFits, Says, records, index
  <2>4. x \in Preparers => /\ Walking(s) => WalkFits(s)'
                           /\ Checking(s) => CheckFits(x, s)'
                           /\ s.step \in {"work", "after"} => WorkFits(x, s)'
    BY DEF ProcFits, WalkFits, CheckFits, Walked, Harmless, WorkFits, Bound, Key, records, index
  <2> QED BY <2>1, <2>2, <2>3, <2>4 DEF ProcFits
<1>4. /\ UNCHANGED <<wanted, rec, admissions, lapsed, entry, open, pointer, cutShort>>
      /\ pointer \in [Keys -> SUBSET Ops] /\ cutShort \subseteq Ops
  BY DEF IInv, Typed, records, index
<1> QED BY <1>3, <1>4, Quiet

LEMMA IdleFits ==
  ASSUME NEW x \in Procs
  PROVE  Idle \in Processes /\ ProcFits(x, Idle) /\ ProcFits(x, Idle)'
BY DEF Idle, Absent, Processes, StepNames, Files, ProcFits, Puts, Walking, Looking, Checking

LEMMA Stopping ==
  ASSUME OneEach, IInv, NEW x \in Procs, Stop(x), UNCHANGED <<records, index>>
  PROVE  IInv'
BY IdleFits, Reading DEF Stop, Idle

LEMMA InitFits == OneEach /\ Init => IInv
<1> SUFFICES ASSUME OneEach, Init PROVE IInv
  OBVIOUS
<1>1. \A x \in Procs : at[x] = Idle
  BY DEF Init
<1>2. Typed
  BY IdleFits DEF Init, Typed, Procs, Absent, Files
<1>3. \A q \in Ops : ~InUse(q)
  BY <1>1 DEF InUse, Procs, Idle
<1>4. \A q \in Ops : OpFits(q)
  BY DEF Init, OpFits, Says, Absent
<1>5. \A q \in Ops : \A o \in Ops \ {q} : PairFits(q, o)
  BY <1>3 DEF Init, PairFits, Has, Live
<1> QED BY <1>1, <1>2, <1>4, <1>5, IdleFits DEF IInv

(* What a process writes is what the record yields.                         *)
LEMMA DerivedFits ==
  ASSUME IInv, NEW q \in Ops, rec[q] # "none"
  PROVE  /\ Derived(q) \in Files /\ Derived(q).state \in {"active", "terminal"}
         /\ Says(q, Derived(q))
BY DEF IInv, Typed, Derived, Files, Says

LEMMA WritingKeeps ==
  ASSUME OneEach, IInv, NEW x \in Procs, NEW q \in Ops, NEW then \in {"idle", "walk", "check"},
         Writing(x, q, Derived(q), then), rec[q] # "none",
         then = "walk" => at[x].step = "walk", then = "check" => at[x].step = "check",
         then = "check" => rec[q] = "terminal", x = Collector => then = "idle"
  PROVE  IInv'
<1>1. PICK e \in Files : e = Derived(q)
  BY DerivedFits
<1>2. PICK s : s = [at[x] EXCEPT !.step = "put_open", !.of = q, !.new = e, !.then = then]
  OBVIOUS
<1>3. at[x] \in Processes /\ Typed /\ ProcFits(x, at[x])
  BY DEF IInv, Typed
<1>4. /\ s \in Processes /\ s.step = "put_open" /\ s.of = q /\ s.new = e /\ s.then = then
      /\ s.todo = at[x].todo /\ s.clear = at[x].clear /\ s.seen = at[x].seen
  BY <1>1, <1>2, <1>3 DEF Processes, StepNames
<1>5. /\ Become(x, s) /\ UNCHANGED <<records, entry, open>>
      /\ pointer' = [pointer EXCEPT ![Key(q)] = @ \cup {q}]
  BY <1>1, <1>2 DEF Writing
<1>6. Key(q) \in Keys /\ Key(q)' = Key(q)
  BY <1>3, <1>5, RequestAssumption DEF Typed, Key, records
<1>7. /\ pointer' \in [Keys -> SUBSET Ops] /\ \A k \in Keys : pointer[k] \subseteq pointer'[k]
      /\ q \in pointer'[Key(q)]
  BY <1>3, <1>5, <1>6 DEF Typed
<1>8. PutFits(s)'
  <2>1. Says(q, e) /\ e.state \in {"active", "terminal"}
    BY <1>1, DerivedFits
  <2>2. Says(q, e)'
    BY <1>5, <2>1 DEF Says, records
  <2>3. Bound(q)'
    BY <1>6, <1>7 DEF Bound
  <2> QED BY <1>4, <1>5, <2>1, <2>2, <2>3 DEF PutFits, records
<1>9. x \in Preparers => /\ Walking(s) => WalkFits(s)'
                         /\ Checking(s) => CheckFits(x, s)'
  BY <1>3, <1>4, <1>5
     DEF ProcFits, Walking, Looking, Checking, WalkFits, CheckFits, Walked, Harmless, records
<1>10. Looking(s) => SeenFits(s)'
  BY <1>3, <1>4, <1>5 DEF ProcFits, Looking, SeenFits, Says, records
<1>11. ProcFits(x, s)'
  BY <1>4, <1>8, <1>9, <1>10 DEF ProcFits, Puts
<1> QED BY <1>3, <1>4, <1>5, <1>7, <1>11, Quiet DEF records, Typed

-----------------------------------------------------------------------------
(* The steps of a prepare that only read.                                   *)
LEMMA ListEntriesKeeps ==
  ASSUME OneEach, IInv, NEW p \in Preparers, ListEntries(p)
  PROVE  IInv'
<1>1. PICK s : s = [Idle EXCEPT !.step = "names", !.todo = {q \in Ops : entry[q] = Absent}]
  OBVIOUS
<1>2. /\ s \in Processes /\ s.step = "names" /\ s.then = "idle" 
      /\ s.todo = {q \in Ops : entry[q] = Absent}
  BY <1>1, IdleFits DEF Idle, Processes, StepNames, Procs
<1>3. WalkFits(s)
  BY <1>2 DEF WalkFits
<1>4. ProcFits(p, s)
  BY <1>2, <1>3, ProcessAssumption DEF ProcFits, Puts, Looking, Checking
<1> QED BY <1>1, <1>2, <1>4, Reading DEF ListEntries, Procs

LEMMA ListRecordsKeeps ==
  ASSUME OneEach, IInv, NEW p \in Preparers, ListRecords(p)
  PROVE  IInv'
<1>1. PICK s : s = [at[p] EXCEPT !.step = "walk", !.todo = {q \in @ : rec[q] # "none"}]
  OBVIOUS
<1>2. at[p] \in Processes /\ ProcFits(p, at[p]) /\ at[p].step = "names"
  BY DEF IInv, Typed, Procs, ListRecords
<1>3. /\ s \in Processes /\ s.step = "walk"
      /\ s.todo = {q \in at[p].todo : rec[q] # "none"}
  BY <1>1, <1>2 DEF Processes, StepNames
<1>4. WalkFits(s)
  BY <1>2, <1>3 DEF ProcFits, Walking, WalkFits
<1>5. ProcFits(p, s)
  BY <1>3, <1>4, ProcessAssumption DEF ProcFits, Puts, Looking, Checking
<1> QED BY <1>1, <1>3, <1>5, Reading DEF ListRecords, Procs

LEMMA WalkKeeps ==
  ASSUME OneEach, IInv, NEW p \in Preparers, NEW q \in Ops, Walk(p, q)
  PROVE  IInv'
<1>1. ProcFits(p, at[p])
  BY DEF IInv, Procs
<1>2. rec[q] # "none"
  BY <1>1 DEF Walk, ProcFits, Walking, WalkFits
<1> QED BY <1>2, WritingKeeps, ProcessAssumption DEF Walk, Procs

(* The walk is over: every record that was there has its entry.             *)
LEMMA ResolveKeeps ==
  ASSUME OneEach, IInv, NEW p \in Preparers, Resolve(p)
  PROVE  IInv'
<1>1. CASE Stop(p) /\ UNCHANGED <<records, index>>
  BY <1>1, Stopping DEF Procs
<1>2. CASE ~Stop(p)
  <2>1. PICK o \in Ops : o = Prepares[p]
    BY ProcessAssumption
  <2>2. PICK s : s = [Idle EXCEPT !.step = "list"]
    OBVIOUS
  <2>3. PICK bound : bound = {q \in pointer[Key(o)] : entry[q] # Absent}
    OBVIOUS
  <2>4. /\ at[p].step = "walk" /\ at[p].todo = {}
        /\ bound \subseteq {o} /\ (bound = {} => entry[o] = Absent)
        /\ bound = {o} => rec[o] = "none"
        /\ Become(p, s) /\ UNCHANGED <<records, index>>
    BY <1>2, <2>1, <2>2, <2>3 DEF Resolve
  <2>5. Walked
    BY <2>4 DEF IInv, Procs, ProcFits, Walking, WalkFits, Walked
  <2>6. rec[o] = "none" \/ o \in cutShort
    BY <2>4, <2>5 DEF Walked
  <2>7. /\ s \in Processes /\ s.step = "list" /\ s.then = "idle" /\ s.clear = {}
    BY <2>2, IdleFits DEF Idle, Processes, StepNames, Procs
  <2>8. ProcFits(p, s)
    BY <2>1, <2>5, <2>6, <2>7, ProcessAssumption
       DEF ProcFits, Puts, Walking, Looking, Checking, CheckFits
  <2> QED BY <2>4, <2>7, <2>8, Reading DEF Procs
<1> QED BY <1>1, <1>2 DEF Resolve

LEMMA ListOpenKeeps ==
  ASSUME OneEach, IInv, NEW p \in Preparers, ListOpen(p)
  PROVE  IInv'
<1>1. PICK held : held = {q \in Colliding(Prepares[p]) : open[q] # Absent}
  OBVIOUS
<1>2. PICK s : s = [at[p] EXCEPT !.step = "check", !.todo = held, !.clear = {},
                     !.seen = [q \in Ops |-> IF q \in held THEN open[q] ELSE Absent]]
  OBVIOUS
<1>3. at[p] \in Processes /\ ProcFits(p, at[p]) /\ at[p].step = "list" /\ Typed
  BY DEF IInv, Typed, Procs, ListOpen
<1>4. held \subseteq Ops
  BY <1>1 DEF Colliding
<1>5. /\ s \in Processes /\ s.step = "check" /\ s.todo = held /\ s.clear = {}
      /\ \A q \in held : s.seen[q] = open[q]
  BY <1>2, <1>3, <1>4 DEF Processes, StepNames, Typed, Absent, Files
<1>6. SeenFits(s)
  <2>1. ASSUME NEW q \in held PROVE open[q].state \in {"admitted", "active"} /\ Says(q, open[q])
    <3>1. OpFits(q) /\ open[q] \in Files /\ open[q] # Absent
      BY <1>1, <1>3, <1>4 DEF IInv, Typed
    <3> QED BY <3>1 DEF OpFits, Says, Files
  <2> QED BY <1>5, <2>1 DEF SeenFits
<1>7. ProcFits(p, s)
  BY <1>3, <1>5, <1>6, ProcessAssumption DEF ProcFits, Puts, Walking, Looking, Checking, CheckFits
<1> QED BY <1>1, <1>2, <1>5, <1>7, Reading DEF ListOpen, Procs

LEMMA ClaimAgainKeeps ==
  ASSUME OneEach, IInv, NEW p \in Preparers, ClaimAgain(p)
  PROVE  IInv'
<1>1. CASE Stop(p)
  BY <1>1, Stopping DEF Procs, ClaimAgain
<1>2. CASE ~Stop(p)
  <2>1. PICK s : s = [Idle EXCEPT !.step = "list", !.again = TRUE]
    OBVIOUS
  <2>2. Become(p, s) /\ UNCHANGED <<records, index>> /\ at[p].step = "check"
    BY <1>2, <2>1 DEF ClaimAgain
  <2>3. /\ s \in Processes /\ s.step = "list" /\ s.then = "idle" /\ s.clear = {}
    BY <2>1, IdleFits DEF Idle, Processes, StepNames, Procs
  <2>4. ProcFits(p, at[p])
    BY DEF IInv, Procs
  <2>5. ProcFits(p, s)
    BY <2>2, <2>3, <2>4, ProcessAssumption DEF ProcFits, Puts, Walking, Looking, Checking, CheckFits
  <2> QED BY <2>2, <2>3, <2>5, Reading DEF Procs
<1> QED BY <1>1, <1>2

-----------------------------------------------------------------------------
(* Inspections.                                                             *)

(* What p drops was dead when it looked: an admission that is in use is     *)
(* newer than a lapsed one.                                                 *)
LEMMA LapsedIsDroppable ==
  ASSUME IInv, NEW x \in Procs, NEW q \in Ops, NEW e \in Files, rec[q] = "none",
         e.state = "admitted", Says(q, e), Lapsed(q, e)
  PROVE  Droppable(x, q, e) /\ Harmless(q)
<1>1. /\ admissions[q] \in Nat /\ lapsed[q] \in Nat /\ lapsed[q] <= admissions[q]
      /\ e.no \in 1 .. admissions[q] /\ e.no <= lapsed[q] /\ entry[q] \in Files
  BY DEF IInv, Typed, OpFits, Says, Lapsed
<1>2. Harmless(q)
  BY <1>1 DEF Harmless
<1>3. ASSUME NEW p \in Preparers, Uses(p, q), q \notin cutShort
      PROVE  e.no < admissions[q] /\ entry[q] # e
  BY <1>1, <1>3, Working
<1> QED BY <1>2, <1>3 DEF Droppable

LEMMA InspectRecordlessKeeps ==
  ASSUME OneEach, IInv, NEW x \in Procs, NEW q \in Ops, InspectRecordless(x, q)
  PROVE  IInv'
<1>1. CASE Stop(x)
  BY <1>1, Stopping DEF InspectRecordless
<1>2. CASE ~Stop(x)
  <2>1. PICK s : s = [at[x] EXCEPT !.step = "forget", !.of = q,
                                   !.then = IF x = Collector THEN "idle" ELSE "check"]
    OBVIOUS
  <2>2. PICK e : e = at[x].seen[q]
    OBVIOUS
  <2>3. /\ Become(x, s) /\ UNCHANGED <<records, index>> /\ at[x].step = "check"
        /\ q \in at[x].todo /\ rec[q] = "none" /\ (e.state = "admitted" => Lapsed(q, e))
    BY <1>2, <2>1, <2>2 DEF InspectRecordless
  <2>4. at[x] \in Processes /\ ProcFits(x, at[x])
    BY DEF IInv, Typed
  <2>5. /\ s \in Processes /\ s.step = "forget" /\ s.of = q /\ s.seen[q] = e
        /\ s.clear = at[x].clear /\ s.then \in {"idle", "check"}
        /\ s.todo = at[x].todo /\ s.seen = at[x].seen
        /\ x = Collector => s.then = "idle"
    BY <2>1, <2>2, <2>4 DEF Processes, StepNames
  <2>6. e \in Files /\ e.state = "admitted" /\ Says(q, e)
    BY <2>2, <2>3, <2>4 DEF ProcFits, Looking, SeenFits, Says, Processes
  <2>7. Droppable(x, q, e) /\ Harmless(q)
    BY <2>3, <2>6, LapsedIsDroppable
  <2>8. ForgetFits(x, s)
    BY <2>5, <2>6, <2>7 DEF ForgetFits
  <2>9. ProcFits(x, s)
    BY <2>3, <2>4, <2>5, <2>8
       DEF ProcFits, Puts, Walking, Looking, Checking, CheckFits, SeenFits
  <2> QED BY <2>3, <2>5, <2>9, Reading
<1> QED BY <1>1, <1>2

LEMMA InspectOpenKeeps ==
  ASSUME OneEach, IInv, NEW x \in Procs, NEW q \in Ops, InspectOpen(x, q)
  PROVE  IInv'
<1>1. CASE at[x].seen[q].state = "active"
  BY <1>1, Stopping DEF InspectOpen
<1>2. CASE at[x].seen[q].state # "active"
  BY <1>2, WritingKeeps DEF InspectOpen
<1> QED BY <1>1, <1>2

LEMMA InspectTerminalKeeps ==
  ASSUME OneEach, IInv, NEW x \in Procs, NEW q \in Ops, InspectTerminal(x, q)
  PROVE  IInv'
BY WritingKeeps DEF InspectTerminal

LEMMA CollectKeeps ==
  ASSUME OneEach, IInv, NEW q \in Ops, Collect(q)
  PROVE  IInv'
<1>1. PICK e \in {entry[q], open[q]} :
        /\ e.state \in {"admitted", "active"}
        /\ Become(Collector, [Idle EXCEPT !.step = "check", !.todo = {q}, !.seen[q] = e])
  BY DEF Collect
<1>2. PICK s : s = [Idle EXCEPT !.step = "check", !.todo = {q}, !.seen[q] = e]
  OBVIOUS
<1>3. e \in Files /\ Says(q, e)
  BY DEF IInv, Typed, OpFits
<1>4. /\ s \in Processes /\ s.step = "check" /\ s.todo = {q} /\ s.seen[q] = e
      /\ s.then = "idle"
  BY <1>2, <1>3 DEF Idle, Absent, Files, Processes, StepNames
<1>5. ProcFits(Collector, s)
  BY <1>1, <1>3, <1>4, ProcessAssumption DEF ProcFits, Puts, SeenFits
<1> QED BY <1>1, <1>2, <1>4, <1>5, Reading DEF Collect, Procs

LEMMA OwnerReleasesKeeps ==
  ASSUME OneEach, IInv, NEW q \in Ops, OwnerReleases(q)
  PROVE  IInv'
<1>1. PICK e : e = entry[q]
  OBVIOUS
<1>2. PICK s : s = [Idle EXCEPT !.step = "forget", !.of = q, !.seen[q] = e]
  OBVIOUS
<1>3. e \in Files /\ Says(q, e) /\ e.state = "admitted" /\ rec[q] = "none" /\ Typed
  BY <1>1 DEF IInv, Typed, OpFits, OwnerReleases
<1>4. /\ s \in Processes /\ s.step = "forget" /\ s.of = q /\ s.seen[q] = e /\ s.then = "idle"
  BY <1>2, <1>3 DEF Idle, Absent, Files, Processes, StepNames
<1>5. /\ Become(Collector, s) /\ UNCHANGED <<wanted, rec, admissions, lapsed, index>>
      /\ cutShort' = IF InUse(q) THEN cutShort \cup {q} ELSE cutShort
  BY <1>1, <1>2 DEF OwnerReleases
<1>6. \A y \in Preparers : at'[y] = at[y]
  BY <1>3, <1>5, ProcessAssumption DEF Become, Typed, Procs
<1>7. Droppable(Collector, q, e)'
  BY <1>3, <1>5, <1>6, Users DEF Droppable, Uses
<1>8. Says(q, e)'
  BY <1>3, <1>5 DEF Says
<1>9. ProcFits(Collector, s)'
  BY <1>3, <1>4, <1>7, <1>8, ProcessAssumption DEF ProcFits, ForgetFits, Puts, Looking
<1> QED BY <1>3, <1>4, <1>5, <1>9, Quiet DEF Procs, Typed, index

LEMMA AfterKeeps ==
  ASSUME OneEach, IInv, NEW p \in Preparers, After(p)
  PROVE  IInv'
<1>1. PICK o \in Ops : o = Prepares[p]
  BY ProcessAssumption
<1>2. CASE entry[o].state = "admitted" /\ rec[o] = "open"
  BY <1>1, <1>2, WritingKeeps, ProcessAssumption DEF After, Procs
<1>3. CASE rec[o] = "none" /\ entry[o].state = "admitted"
  <2>1. PICK e : e = entry[o]
    OBVIOUS
  <2>2. PICK s : s = [Idle EXCEPT !.step = "forget", !.of = o, !.seen[o] = e]
    OBVIOUS
  <2>3. Become(p, s) /\ UNCHANGED <<records, index>>
    BY <1>1, <1>3, <2>1, <2>2 DEF After
  <2>4. e \in Files /\ Says(o, e)
    BY <2>1 DEF IInv, Typed, OpFits
  <2>5. /\ s \in Processes /\ s.step = "forget" /\ s.of = o /\ s.seen[o] = e
        /\ s.then = "idle"
    BY <2>2, <2>4 DEF Idle, Absent, Files, Processes, StepNames
  <2>6. Droppable(p, o, e)
    BY <1>1, <1>3 DEF Droppable, Uses, OneEach
  <2>7. ProcFits(p, s)
    BY <1>3, <2>1, <2>4, <2>5, <2>6, ProcessAssumption
       DEF ProcFits, ForgetFits, Puts, Walking, Looking, Checking
  <2> QED BY <2>3, <2>5, <2>7, Reading DEF Procs
<1>4. CASE Stop(p) /\ UNCHANGED <<records, index>>
  BY <1>4, Stopping DEF Procs
<1> QED BY <1>1, <1>2, <1>3, <1>4 DEF After, Stop

-----------------------------------------------------------------------------
(* Files.                                                                   *)

(* What a step needs to be harmless to the others when it leaves records,   *)
(* admissions and the counts alone and takes nobody into use.               *)
LEMMA FileStep ==
  ASSUME OneEach, IInv, NEW x \in Procs, NEW s \in Processes, Become(x, s), UNCHANGED records,
         entry' \in [Ops -> Files], open' \in [Ops -> Files], pointer' \in [Keys -> SUBSET Ops],
         s.step \notin {"work", "after"}, NEW q \in Ops, OpFits(q)',
         \A r \in Ops \ {q} : /\ entry'[r] = entry[r] /\ open'[r] = open[r]
                              /\ Bound(r) => Bound(r)',
         entry'[q].state = "admitted" => entry'[q] = entry[q],
         q \notin cutShort /\ (rec[q] # "none" \/ \E p \in Preparers \ {x} : Uses(p, q)) =>
           /\ Bound(q) => Bound(q)'
           /\ entry[q] # Absent => entry'[q] # Absent
           /\ open[q] # Absent /\ rec[q] # "terminal" => open'[q] # Absent,
         ProcFits(x, s)'
  PROVE  IInv'
<1>1. Stored'
  BY DEF IInv, Typed, Stored, records
<1>2. at'[x] = s /\ \A y \in Procs \ {x} : at'[y] = at[y]
  BY DEF IInv, Typed, Become
<1>3. ASSUME NEW p, NEW r, Uses(p, r)' PROVE Uses(p, r)
  BY <1>2, <1>3 DEF Uses, Procs
<1>4. ASSUME NEW r \in Ops PROVE CalmAt(x, r)
  <2>1. CASE r = q
    BY <1>3, <2>1 DEF CalmAt, records
  <2>2. CASE r # q
    BY <1>3, <2>2 DEF CalmAt, records
  <2> QED BY <2>1, <2>2
<1>5. Calm(x)
  BY <1>2, <1>4 DEF Calm, records
<1>6. \A r \in Ops : OpFits(r)'
  BY <1>5, OpStays
<1>7. ASSUME NEW r \in Ops PROVE (Has(r)' => Has(r)) /\ (Live(r)' => Live(r))
  BY <1>3, Users DEF Has, Live, InUse, Uses, records
<1>8. \A r \in Ops : \A o \in Ops \ {r} : PairFits(r, o)'
  BY <1>7, PairsStay DEF records
<1> QED BY <1>1, <1>4, <1>6, <1>8, StepKeeps DEF records

LEMMA PutOpenKeeps ==
  ASSUME OneEach, IInv, NEW x \in Procs, PutOpen(x)
  PROVE  IInv'
<1>1. at[x] \in Processes /\ ProcFits(x, at[x]) /\ Typed
  BY DEF IInv, Typed
<1>2. PutFits(at[x])
  BY <1>1 DEF PutOpen, ProcFits, Puts
<1>3. PICK q \in Ops, e \in Files : q = at[x].of /\ e = at[x].new
  BY <1>1, <1>2 DEF PutFits, Processes
<1>4. PICK s : s = [at[x] EXCEPT !.step = "put_entry"]
  OBVIOUS
<1>5. /\ s \in Processes /\ s.step = "put_entry" /\ s.of = q /\ s.new = e
      /\ s.then = at[x].then /\ s.todo = at[x].todo /\ s.clear = at[x].clear
      /\ s.seen = at[x].seen
  BY <1>1, <1>3, <1>4 DEF Processes, StepNames
<1>6. /\ open' = [open EXCEPT ![q] = IF e.state = "terminal" THEN Absent ELSE e]
      /\ Become(x, s) /\ UNCHANGED <<records, entry, pointer>> /\ at[x].step = "put_open"
  BY <1>3, <1>4 DEF PutOpen
<1>7. /\ e.state \in {"active", "terminal"} /\ Says(q, e)
      /\ q \notin cutShort => Bound(q)
      /\ at[x].then = "check" => rec[q] = "terminal"
  BY <1>2, <1>3 DEF PutFits
<1>8. open' \in [Ops -> Files] /\ entry' \in [Ops -> Files] /\ pointer' \in [Keys -> SUBSET Ops]
  BY <1>1, <1>6 DEF Typed, Absent, Files
<1>9. open'[q] = IF e.state = "terminal" THEN Absent ELSE e
  BY <1>1, <1>6 DEF Typed
<1>10. rec[q] # "terminal" => open'[q] # Absent
  BY <1>7, <1>9 DEF Says, Absent
<1>11. \A r \in Ops : Bound(r)' <=> Bound(r)
  BY <1>6 DEF Bound, Key, records
<1>12. OpFits(q)'
  <2>1. OpFits(q)
    BY DEF IInv
  <2>2. Says(q, e)' /\ Says(q, Absent)'
    BY <1>6, <1>7 DEF Says, Absent, records
  <2>3. Says(q, entry[q])'
    BY <1>6, <2>1 DEF OpFits, Says, records
  <2> QED BY <1>6, <1>7, <1>9, <1>10, <1>11, <2>1, <2>2, <2>3 DEF OpFits, Absent, records
<1>13. ProcFits(x, s)'
  <2>1. PutFits(s)'
    BY <1>5, <1>6, <1>7, <1>10, <1>11 DEF PutFits, Says, records
  <2>2. x \in Preparers => /\ Walking(s) => WalkFits(s)'
                           /\ Checking(s) => CheckFits(x, s)'
    BY <1>1, <1>5, <1>6
       DEF ProcFits, Puts, Walking, Looking, Checking, WalkFits, CheckFits, Walked, Harmless,
           records
  <2>3. Looking(s) => SeenFits(s)'
    BY <1>1, <1>5, <1>6 DEF ProcFits, Puts, Looking, SeenFits, Says, records
  <2> QED BY <1>1, <1>5, <1>6, <2>1, <2>2, <2>3 DEF ProcFits, Puts
<1>14. \A r \in Ops \ {q} : open'[r] = open[r]
  BY <1>1, <1>6 DEF Typed
<1>15. entry' = entry
  BY <1>6
<1> QED BY <1>5, <1>6, <1>8, <1>10, <1>11, <1>12, <1>13, <1>14, <1>15, FileStep

(* Where x goes after it wrote or dropped the entry of q.                   *)
LEMMA DoneFits ==
  ASSUME IInv, NEW x \in Procs, NEW q \in Ops, at[x].step \in {"put_entry", "forget"},
         at[x].of = q, at[x].step = "forget" => at[x].then # "walk",
         UNCHANGED records, \A r \in Ops \ {q} : entry'[r] = entry[r],
         at[x].then = "walk" => entry'[q] # Absent,
         entry'[q] = Absent => rec[q] = "none" \/ q \in cutShort \/ entry'[q] = entry[q],
         at[x].then = "check" => Harmless(q)
  PROVE  \E s \in Processes : /\ s = Done(x, q) /\ s.step \in {"walk", "check", "idle"}
                               /\ ProcFits(x, s)'
<1>1. at[x] \in Processes /\ ProcFits(x, at[x])
  BY DEF IInv, Typed
<1>2. PICK d : d = [at[x] EXCEPT !.todo = @ \ {q}, !.seen[q] = Absent, !.of = Collector,
                                 !.new = Absent, !.then = "idle"]
  OBVIOUS
<1>3. /\ d \in Processes /\ d.todo = at[x].todo \ {q} /\ d.then = "idle"
      /\ d.clear = at[x].clear
  BY <1>1, <1>2 DEF Processes, Absent, Files
<1>4. \A r \in Ops \ {q} : d.seen[r] = at[x].seen[r]
  BY <1>1, <1>2 DEF Processes
<1>5. CASE at[x].then = "walk"
  <2>1. PICK s : s = [d EXCEPT !.step = "walk"]
    OBVIOUS
  <2>2. s = Done(x, q)
    BY <1>2, <1>5, <2>1 DEF Done
  <2>3. s \in Processes /\ s.step = "walk" /\ s.todo = at[x].todo \ {q} /\ s.then = "idle"
    BY <1>3, <2>1 DEF Processes, StepNames
  <2>4. x \in Preparers
    BY <1>1, <1>5 DEF ProcFits, Procs
  <2>5. WalkFits(at[x])
    BY <1>1, <1>5, <2>4 DEF ProcFits, Puts, Walking
  <2>6. WalkFits(s)'
    BY <1>5, <2>3, <2>5 DEF WalkFits, records
  <2>7. ProcFits(x, s)'
    BY <2>3, <2>4, <2>6, ProcessAssumption DEF ProcFits, Puts, Looking, Checking
  <2> QED BY <2>2, <2>3, <2>7
<1>6. CASE at[x].then = "check"
  <2>1. PICK s : s = [d EXCEPT !.step = "check", !.clear = @ \cup {q}]
    OBVIOUS
  <2>2. s = Done(x, q)
    BY <1>2, <1>6, <2>1 DEF Done
  <2>3. /\ s \in Processes /\ s.step = "check" /\ s.todo = at[x].todo \ {q} /\ s.then = "idle"
        /\ s.clear = at[x].clear \cup {q} /\ \A r \in Ops \ {q} : s.seen[r] = at[x].seen[r]
    BY <1>3, <1>4, <2>1 DEF Processes, StepNames
  <2>4. x \in Preparers
    BY <1>1, <1>6 DEF ProcFits, Procs
  <2>5. CheckFits(x, at[x])
    BY <1>1, <1>6, <2>4 DEF ProcFits, Puts, Looking, Checking
  <2>6. CheckFits(x, s)'
    BY <1>6, <2>3, <2>5 DEF CheckFits, Walked, Harmless, records
  <2>7. SeenFits(s)'
    <3>1. SeenFits(at[x])
      BY <1>1, <1>6 DEF ProcFits, Puts, Looking
    <3>2. ASSUME NEW r \in s.todo
          PROVE  s.seen[r].state \in {"admitted", "active"} /\ Says(r, s.seen[r])'
      <4>1. r \in at[x].todo /\ r \in Ops \ {q}
        BY <1>1, <2>3 DEF Processes
      <4>2. s.seen[r].state \in {"admitted", "active"} /\ Says(r, s.seen[r])
        BY <2>3, <3>1, <4>1 DEF SeenFits
      <4> QED BY <4>2 DEF Says, records
    <3> QED BY <3>2 DEF SeenFits
  <2>8. ProcFits(x, s)'
    BY <2>3, <2>4, <2>6, <2>7, ProcessAssumption DEF ProcFits, Puts, Walking
  <2> QED BY <2>2, <2>3, <2>8
<1>7. CASE at[x].then \notin {"walk", "check"}
  <2>1. Done(x, q) = Idle
    BY <1>7 DEF Done
  <2> QED BY <2>1, IdleFits DEF Idle
<1> QED BY <1>5, <1>6, <1>7

LEMMA PutEntryKeeps ==
  ASSUME OneEach, IInv, NEW x \in Procs, PutEntry(x)
  PROVE  IInv'
<1>1. at[x] \in Processes /\ ProcFits(x, at[x]) /\ Typed
  BY DEF IInv, Typed
<1>2. PutFits(at[x])
  BY <1>1 DEF PutEntry, ProcFits, Puts
<1>3. PICK q \in Ops, e \in Files : q = at[x].of /\ e = at[x].new
  BY <1>1, <1>2 DEF PutFits, Processes
<1>4. /\ entry' = [entry EXCEPT ![q] = e] /\ Become(x, Done(x, q))
      /\ UNCHANGED <<records, open, pointer>> /\ at[x].step = "put_entry"
  BY <1>3 DEF PutEntry
<1>5. /\ e.state \in {"active", "terminal"} /\ Says(q, e)
      /\ q \notin cutShort => Bound(q)
      /\ at[x].then = "check" => rec[q] = "terminal"
      /\ rec[q] = "open" /\ q \notin cutShort => open[q] # Absent
  BY <1>2, <1>3, <1>4 DEF PutFits
<1>6. entry'[q] = e /\ \A r \in Ops \ {q} : entry'[r] = entry[r]
  BY <1>1, <1>4 DEF Typed
<1>7. e # Absent
  BY <1>5 DEF Absent
<1>8. \A r \in Ops : Bound(r)' <=> Bound(r)
  BY <1>4 DEF Bound, Key, records
<1>9. OpFits(q)'
  <2>1. OpFits(q)
    BY DEF IInv
  <2>2. Says(q, e)'
    BY <1>4, <1>5 DEF Says, records
  <2>3. Says(q, open[q])'
    BY <1>4, <2>1 DEF OpFits, Says, records
  <2> QED BY <1>4, <1>5, <1>6, <1>8, <2>1, <2>2, <2>3 DEF OpFits, records
<1>10. PICK s \in Processes : /\ s = Done(x, q) /\ s.step \in {"walk", "check", "idle"}
                              /\ ProcFits(x, s)'
  BY <1>3, <1>4, <1>5, <1>6, <1>7, DoneFits DEF Harmless
<1>11. /\ entry' \in [Ops -> Files] /\ open' \in [Ops -> Files]
       /\ pointer' \in [Keys -> SUBSET Ops] /\ open' = open
  BY <1>1, <1>4 DEF Typed
<1>12. Become(x, s) /\ UNCHANGED records
  BY <1>4, <1>10
<1> QED BY <1>5, <1>6, <1>7, <1>8, <1>9, <1>10, <1>11, <1>12, FileStep

LEMMA ForgetKeeps ==
  ASSUME OneEach, IInv, NEW x \in Procs, Forget(x)
  PROVE  IInv'
<1>1. at[x] \in Processes /\ ProcFits(x, at[x]) /\ Typed /\ at[x].step = "forget"
  BY DEF IInv, Typed, Forget
<1>2. ForgetFits(x, at[x])
  BY <1>1 DEF ProcFits
<1>3. PICK q \in Ops, e \in Files : q = at[x].of /\ e = at[x].seen[q]
  BY <1>1, <1>2 DEF ForgetFits, Processes
<1>4. /\ e.state = "admitted" /\ Droppable(x, q, e) /\ at[x].then # "walk"
      /\ at[x].then = "check" => Harmless(q)
  BY <1>2, <1>3 DEF ForgetFits
<1>5. CASE entry[q] # e
  <2>1. Become(x, Done(x, q)) /\ UNCHANGED <<records, index>>
    BY <1>3, <1>5 DEF Forget
  <2>2. PICK s \in Processes : /\ s = Done(x, q) /\ s.step \in {"walk", "check", "idle"}
                               /\ ProcFits(x, s)'
    BY <1>1, <1>3, <1>4, <2>1, DoneFits DEF index
  <2>3. /\ UNCHANGED <<wanted, rec, admissions, lapsed, entry, open, pointer, cutShort>>
        /\ pointer \in [Keys -> SUBSET Ops] /\ cutShort \subseteq Ops
    BY <1>1, <2>1 DEF Typed, records, index
  <2>4. Become(x, s)
    BY <2>1, <2>2
  <2> QED BY <2>2, <2>3, <2>4, Quiet
<1>6. CASE entry[q] = e
  <2>1. PICK files \in 1 .. 3 :
          /\ open' = [open EXCEPT ![q] = Absent]
          /\ entry' = IF files >= 2 THEN [entry EXCEPT ![q] = Absent] ELSE entry
          /\ pointer' = IF files = 3 /\ pointer[Key(q)] = {q}
                          THEN [pointer EXCEPT ![Key(q)] = {}] ELSE pointer
          /\ Become(x, IF files = 3 THEN Done(x, q) ELSE Idle)
    BY <1>3, <1>6 DEF Forget, Drop
  <2>2. UNCHANGED records
    BY DEF Forget
  <2>3. q \in cutShort \/ (rec[q] = "none" /\ \A p \in Preparers \ {x} : ~Uses(p, q))
    BY <1>4, <1>6 DEF Droppable
  <2>4. Key(q) \in Keys /\ \A r \in Ops : Key(r) \in Keys /\ Key(r)' = Key(r)
    BY <1>1, <2>2, RequestAssumption DEF Typed, Key, records
  <2>5. /\ entry' \in [Ops -> Files] /\ open' \in [Ops -> Files]
        /\ pointer' \in [Keys -> SUBSET Ops] /\ open'[q] = Absent
        /\ entry'[q] \in {entry[q], Absent}
        /\ \A r \in Ops \ {q} : entry'[r] = entry[r] /\ open'[r] = open[r]
    BY <1>1, <2>1, <2>4 DEF Typed, Absent, Files
  <2>6. \A r \in Ops \ {q} : Bound(r) => Bound(r)'
    BY <1>1, <2>1, <2>4 DEF Bound, Typed
  <2>7. OpFits(q)'
    <3>1. OpFits(q)
      BY DEF IInv
    <3>2. Says(q, Absent)'
      BY DEF Says, Absent
    <3>3. Says(q, e)'
      BY <1>6, <2>2, <3>1 DEF OpFits, Says, records
    <3> QED BY <1>6, <2>2, <2>3, <2>5, <3>1, <3>2, <3>3 DEF OpFits, Absent, records
  <2>8. PICK s \in Processes : /\ s = IF files = 3 THEN Done(x, q) ELSE Idle
                               /\ s.step \in {"walk", "check", "idle"} /\ ProcFits(x, s)'
    <3>1. \E s \in Processes : /\ s = Done(x, q) /\ s.step \in {"walk", "check", "idle"}
                               /\ ProcFits(x, s)'
      BY <1>1, <1>3, <1>4, <2>2, <2>3, <2>5, DoneFits
    <3>2. Idle.step = "idle"
      BY DEF Idle
    <3> QED BY <3>1, <3>2, IdleFits
  <2>9. Become(x, s) /\ (entry'[q].state = "admitted" => entry'[q] = entry[q])
    BY <2>1, <2>5, <2>8 DEF Absent
  <2> QED BY <2>2, <2>3, <2>5, <2>6, <2>7, <2>8, <2>9, FileStep
<1> QED BY <1>5, <1>6

LEMMA ClaimKeeps ==
  ASSUME OneEach, IInv, NEW p \in Preparers, Claim(p)
  PROVE  IInv'
<1>1. PICK o \in Ops : o = Prepares[p]
  BY ProcessAssumption
<1>2. at[p] \in Processes /\ ProcFits(p, at[p]) /\ Typed /\ p \in Procs
  BY DEF IInv, Typed, Procs
<1>3. PICK n \in Nat : n = admissions[o] + 1 /\ n > 0
  BY <1>2 DEF Typed
<1>4. PICK e \in Files : e = Admission(n)
  BY DEF Admission, Files
<1>5. PICK files \in 1 .. 3 :
        /\ pointer' = [pointer EXCEPT ![Key(o)] = {o}]
        /\ open' = IF files >= 2 THEN [open EXCEPT ![o] = e] ELSE open
        /\ entry' = IF files = 3 THEN [entry EXCEPT ![o] = e] ELSE entry
        /\ Become(p, IF files = 3 THEN [Idle EXCEPT !.step = "work"] ELSE Idle)
  BY <1>1, <1>3, <1>4 DEF Claim
<1>6. /\ at[p].step = "check" /\ ~Grown(p) /\ pointer[Key(o)] \subseteq {o}
      /\ admissions' = [admissions EXCEPT ![o] = n]
      /\ UNCHANGED <<wanted, rec, lapsed, cutShort>>
  BY <1>1, <1>2, <1>3 DEF Claim, Bindable, Typed
<1>7. CheckFits(p, at[p])
  BY <1>2, <1>6 DEF ProcFits, Looking, Checking
<1>8. \A r \in Ops : Key(r) \in Keys /\ Key(r)' = Key(r)
  BY <1>2, <1>6, RequestAssumption DEF Typed, Key
<1>9. PICK s \in Processes : /\ s = IF files = 3 THEN [Idle EXCEPT !.step = "work"] ELSE Idle
                             /\ s.step = IF files = 3 THEN "work" ELSE "idle"
                             /\ s.then = "idle"
  <2>1. PICK s : s = IF files = 3 THEN [Idle EXCEPT !.step = "work"] ELSE Idle
    OBVIOUS
  <2>2. s \in Processes
    BY <2>1, ProcessAssumption DEF Idle, Absent, Files, Processes, StepNames
  <2> QED BY <2>1, <2>2 DEF Idle
<1>10. at'[p] = s /\ \A y \in Procs \ {p} : at'[y] = at[y]
  BY <1>2, <1>5, <1>9 DEF Typed, Become
<1>11. /\ Stored' /\ admissions'[o] = n /\ o \in pointer'[Key(o)]
       /\ \A r \in Ops \ {o} : /\ admissions'[r] = admissions[r]
                              /\ entry'[r] = entry[r] /\ open'[r] = open[r]
       /\ entry'[o] \in {entry[o], e} /\ open'[o] \in {open[o], e}
       /\ files = 3 => entry'[o] = e /\ open'[o] = e
  <2>1. Stored'
    BY <1>2, <1>5, <1>6, <1>8 DEF Typed, Stored
  <2> QED BY <1>2, <1>5, <1>6, <1>8, <2>1 DEF Typed
<1>12. ASSUME NEW r \in Ops \ {o}, Bound(r) PROVE Bound(r)'
  BY <1>2, <1>5, <1>6, <1>8, <1>12 DEF Bound, Typed
<1>13. e.state = "admitted" /\ e.no = n /\ e # Absent
  BY <1>4 DEF Admission, Absent
<1>14. ASSUME NEW r \in Ops \ {o}, Uses(p, r) \/ Uses(p, r)' PROVE FALSE
  BY <1>1, <1>14 DEF Uses
<1>15. ~Uses(p, o)
  BY <1>6 DEF Uses
<1>16. ASSUME NEW r \in Ops PROVE CalmAt(p, r)
  <2>1. CASE r = o
    <3>1. admissions[o] \in Nat
      BY <1>2 DEF Typed
    <3>2. Uses(p, o)' => entry'[o] = Admission(admissions'[o])
      BY <1>4, <1>9, <1>10, <1>11 DEF Uses
    <3> QED BY <1>1, <1>3, <1>6, <1>8, <1>11, <1>13, <1>15, <2>1, <3>1, <3>2 DEF CalmAt, Bound
  <2>2. CASE r # o
    <3>1. /\ admissions'[r] = admissions[r] /\ entry'[r] = entry[r] /\ open'[r] = open[r]
          /\ Bound(r) => Bound(r)'
      BY <1>11, <1>12, <2>2
    <3>2. ~Uses(p, r)'
      BY <1>14, <2>2
    <3> QED BY <1>6, <3>1, <3>2 DEF CalmAt
  <2> QED BY <2>1, <2>2
<1>17. Calm(p)
  BY <1>6, <1>10, <1>16 DEF Calm
<1>18. ASSUME NEW r \in Ops PROVE OpFits(r)'
  <2>1. CASE r # o
    <3>1. entry'[r] = entry[r] /\ open'[r] = open[r] /\ (Bound(r) => Bound(r)')
      BY <1>11, <1>12, <2>1
    <3> QED BY <1>17, <3>1, OpStays
  <2>2. CASE r = o
    <3>1. OpFits(o) /\ admissions[o] \in Nat /\ lapsed[o] \in Nat
      BY <1>2 DEF IInv, Typed
    <3>2. Says(o, e)'
      BY <1>3, <1>11, <1>13 DEF Says
    <3>3. PICK f, g : f = entry[o] /\ g = open[o]
      OBVIOUS
    <3>4. Says(o, f)' /\ Says(o, g)'
      BY <1>2, <1>17, <3>1, <3>3, SaysStays DEF OpFits, Typed
    <3>5. rec'[o] = "none" \/ o \in cutShort'
      BY <1>1, <1>6, <1>7 DEF CheckFits
    <3>6. Says(o, entry[o])' /\ Says(o, open[o])' /\ open'[o].state # "terminal"
      <4>1. PICK i, j : i = entry'[o] /\ j = open'[o]
        OBVIOUS
      <4>2. i \in {f, e} /\ j \in {g, e}
        BY <1>11, <3>3, <4>1
      <4>3. Says(o, i)' /\ Says(o, j)' /\ j.state # "terminal"
        BY <1>13, <3>1, <3>2, <3>3, <3>4, <4>2 DEF OpFits
      <4> QED BY <4>1, <4>3
    <3>7. lapsed'[o] <= admissions'[o]
      BY <1>3, <1>6, <1>11, <3>1 DEF OpFits
    <3> QED BY <2>2, <3>5, <3>6, <3>7 DEF OpFits
  <2> QED BY <2>1, <2>2
<1>19. ProcFits(p, s)'
  <2>1. CASE files # 3
    BY <1>9, <2>1, IdleFits DEF Procs
  <2>2. CASE files = 3
    <3>1. OpFits(o) /\ admissions[o] \in Nat /\ lapsed[o] \in Nat
      BY <1>2 DEF IInv, Typed
    <3>2. o \notin cutShort' => rec'[o] = "none"
      BY <1>1, <1>6, <1>7 DEF CheckFits
    <3>3. lapsed'[o] < admissions'[o] /\ Bound(o)'
      BY <1>3, <1>6, <1>8, <1>11, <3>1 DEF OpFits, Bound
    <3>4. WorkFits(p, s)'
      BY <1>1, <1>11, <1>13, <2>2, <3>2, <3>3 DEF WorkFits
    <3> QED BY <1>9, <2>2, <3>4, ProcessAssumption DEF ProcFits, Puts, Walking, Looking, Checking
  <2> QED BY <2>1, <2>2
<1>20. ASSUME NEW r \in Ops \ {o} PROVE (Has(r)' => Has(r)) /\ (Live(r)' => Live(r))
  <2>1. \A y : Uses(y, r)' => Uses(y, r)
    BY <1>10, <1>14 DEF Uses, Procs
  <2> QED BY <1>6, <2>1, Users DEF Has, Live, InUse, Uses
\* What is live or has the key was bound, listed and found dead before.
<1>21. ASSUME NEW r \in Ops \ {o}, r \notin cutShort, Has(r)
       PROVE  Bound(r) /\ (Live(r) => (open[r] # Absent /\ ~Harmless(r)) \/ admissions[r] > 1)
  <2>1. CASE InUse(r)
    <3>1. PICK y \in Preparers : Uses(y, r)
      BY <2>1, Users
    <3>2. /\ open[r] # Absent /\ Bound(r) /\ rec[r] # "terminal"
          /\ lapsed[r] < admissions[r]
      BY <1>21, <3>1, Working
    <3>3. admissions[r] \in Nat /\ lapsed[r] \in Nat
      BY <1>2 DEF Typed
    <3> QED BY <1>21, <3>2, <3>3 DEF Harmless
  <2>2. CASE ~InUse(r)
    <3>1. OpFits(r) /\ rec[r] # "none" /\ entry[r] # Absent
      BY <1>7, <1>21, <2>2 DEF IInv, Has, CheckFits, Walked
    <3> QED BY <1>21, <2>2, <3>1 DEF OpFits, Live, Harmless
  <2> QED BY <2>1, <2>2
<1>22. ASSUME NEW r \in Ops \ {o} PROVE PairFits(o, r)'
  <2>1. CASE {o, r} \cap cutShort # {}
    BY <1>6, <2>1 DEF PairFits
  <2>2. CASE {o, r} \cap cutShort = {}
    <3>1. ASSUME Key(o) = Key(r), Has(r) PROVE FALSE
      BY <1>6, <1>21, <2>2, <3>1 DEF Bound
    <3>2. ASSUME r \in Colliding(o), Live(r) PROVE admissions[r] > 1
      <4>1. Has(r)
        BY <3>2 DEF Has, Live
      <4>2. open[r] # Absent => Harmless(r)
        BY <1>1, <1>6, <1>7, <3>2 DEF Grown, CheckFits
      <4> QED BY <1>21, <2>2, <3>2, <4>1, <4>2
    <3>3. Key(o)' = Key(o) /\ Key(r)' = Key(r) /\ Colliding(o)' = Colliding(o)
      BY <1>6, <1>8 DEF Colliding
    <3>4. (Has(r)' => Has(r)) /\ (Live(r)' => Live(r)) /\ admissions'[r] = admissions[r]
      BY <1>11, <1>20
    <3> QED BY <3>1, <3>2, <3>3, <3>4 DEF PairFits
  <2> QED BY <2>1, <2>2
<1>23. ASSUME NEW q \in Ops, NEW r \in Ops \ {q} PROVE PairFits(q, r)'
  <2>1. CASE q = o
    BY <1>22, <2>1
  <2>2. CASE r = o
    <3>1. q \in Ops \ {o} /\ PairFits(o, q)'
      BY <1>22, <2>2
    <3> QED BY <2>2, <3>1, PairTurns
  <2>3. CASE q # o /\ r # o
    <3>1. /\ Has(q)' => Has(q)
          /\ Has(r)' => Has(r)
          /\ Live(q)' => Live(q)
          /\ Live(r)' => Live(r)
          /\ admissions'[q] = admissions[q] /\ admissions'[r] = admissions[r]
      BY <1>11, <1>20, <2>3
    <3>2. ASSUME NEW y \in Ops, admissions[y] > 1 PROVE admissions'[y] > 1
      BY <1>2, <1>3, <1>11, <3>2 DEF Typed
    <3> QED BY <1>6, <3>1, <3>2, PairsStay
  <2> QED BY <2>1, <2>2, <2>3
<1>24. Become(p, s) /\ p \in Procs
  BY <1>2, <1>5, <1>9
<1> QED BY <1>6, <1>11, <1>16, <1>18, <1>19, <1>23, <1>24, StepKeeps

-----------------------------------------------------------------------------
(* The records.                                                             *)
LEMMA WorkKeeps ==
  ASSUME OneEach, IInv, NEW p \in Preparers, Work(p)
  PROVE  IInv'
<1>1. PICK o \in Ops : o = Prepares[p]
  BY ProcessAssumption
<1>2. at[p] \in Processes /\ ProcFits(p, at[p]) /\ Typed /\ p \in Procs /\ at[p].step = "work"
  BY DEF IInv, Typed, Procs, Work
<1>3. PICK a : a = [at[p] EXCEPT !.step = "after"]
  OBVIOUS
<1>4. a \in Processes /\ a.step = "after"
  BY <1>2, <1>3 DEF Processes, StepNames
<1>5. WorkFits(p, at[p])
  BY <1>2 DEF ProcFits
<1>6. UNCHANGED <<wanted, admissions, lapsed, cutShort, index>>
  BY DEF Work
<1>7. CASE rec' = rec
  <2>1. CASE Become(p, a)
    <3>1. WorkFits(p, a)
      BY <1>2, <1>4, <1>5 DEF WorkFits
    <3>2. ProcFits(p, a)
      BY <1>4, <3>1, ProcessAssumption DEF ProcFits, Puts, Walking, Looking, Checking
    <3> QED BY <1>2, <1>4, <1>6, <1>7, <2>1, <3>2, Reading DEF records
  <2>2. CASE Stop(p)
    BY <1>2, <1>6, <1>7, <2>2, Stopping DEF records
  <2>3. Become(p, a) \/ Stop(p)
    BY <1>2, <1>3 DEF Work, Become, Stop, Typed
  <2> QED BY <2>1, <2>2, <2>3
<1>8. CASE rec[o] = "none" /\ rec' = [rec EXCEPT ![o] = "open"]
  <2>1. PICK s \in {a, Idle} : Become(p, s)
    BY <1>1, <1>2, <1>3, <1>8 DEF Work, Become, Typed
  <2>2. s \in Processes
    BY <1>2, <1>4, <2>1, IdleFits
  <2>3. at'[p] = s /\ \A y \in Procs \ {p} : at'[y] = at[y]
    BY <1>2, <2>1 DEF Become, Typed
  <2>4. rec'[o] = "open" /\ \A r \in Ops \ {o} : rec'[r] = rec[r]
    BY <1>2, <1>8 DEF Typed
  <2>5. Stored'
    BY <1>2, <1>6, <1>8 DEF Typed, Stored, index
  <2>6. Uses(p, o)
    BY <1>1, <1>2 DEF Uses
  <2>7. ASSUME NEW y, NEW r, Uses(y, r)' PROVE Uses(y, r)
    BY <1>1, <1>2, <2>3, <2>7 DEF Uses, Procs
  <2>8. ASSUME NEW r \in Ops PROVE CalmAt(p, r)
    <3>1. Bound(r)' <=> Bound(r)
      BY <1>6 DEF Bound, Key, index
    <3>2. CASE r = o
      BY <1>2, <1>6, <1>8, <2>4, <2>6, <2>7, <3>1, <3>2 DEF CalmAt, index
    <3>3. CASE r # o
      BY <1>6, <2>4, <2>7, <3>1, <3>3 DEF CalmAt, index
    <3> QED BY <3>2, <3>3
  <2>9. Calm(p)
    BY <1>6, <2>3, <2>8 DEF Calm
  <2>10. ASSUME NEW r \in Ops PROVE OpFits(r)'
    <3>1. Bound(r) => Bound(r)'
      BY <1>6 DEF Bound, Key, index
    <3> QED BY <1>6, <2>9, <3>1, OpStays DEF index
  <2>11. ASSUME NEW r \in Ops PROVE (Has(r)' => Has(r)) /\ (Live(r)' => Live(r))
    BY <2>4, <2>6, <2>7, <2>11, Users DEF Has, Live, InUse, Uses
  <2>12. \A q \in Ops : \A r \in Ops \ {q} : PairFits(q, r)'
    BY <1>6, <2>11, PairsStay
  <2>13. ProcFits(p, s)'
    <3>1. CASE s = Idle
      BY <1>2, <3>1, IdleFits
    <3>2. CASE s = a
      <4>1. WorkFits(p, a)'
        BY <1>1, <1>2, <1>4, <1>5, <1>6, <2>4 DEF WorkFits, Bound, Key, index
      <4> QED BY <1>4, <3>2, <4>1, ProcessAssumption DEF ProcFits, Puts, Walking, Looking, Checking
    <3> QED BY <2>1, <3>1, <3>2
  <2> QED BY <1>2, <1>6, <2>1, <2>2, <2>5, <2>8, <2>10, <2>12, <2>13, StepKeeps
<1> QED BY <1>1, <1>7, <1>8 DEF Work

(* Steps of nobody at the index.                                            *)
LEMMA OutsideKeeps ==
  ASSUME OneEach, IInv, UNCHANGED <<wanted, index, at, admissions>>, Stored',
         NEW o \in Ops, cutShort \subseteq cutShort',
         \A r \in Ops \ {o} : rec'[r] = rec[r] /\ lapsed'[r] = lapsed[r],
         \/ rec'[o] = rec[o]
         \/ rec[o] = "open" /\ rec'[o] = "terminal" /\ ~InUse(o),
         \/ lapsed'[o] = lapsed[o]
         \/ lapsed'[o] = admissions[o] /\ (InUse(o) => o \in cutShort')
  PROVE  IInv'
<1>1. PICK x : x \notin Procs
  BY NoSetContainsEverything
<1>2. ASSUME NEW y, NEW r PROVE Uses(y, r)' <=> Uses(y, r)
  BY DEF Uses
<1>3. ASSUME NEW r \in Ops PROVE CalmAt(x, r)
  <2>1. Bound(r)' <=> Bound(r)
    BY DEF Bound, Key, index
  <2> QED BY <1>2, <2>1 DEF CalmAt, index
<1>4. Calm(x)
  BY <1>1, <1>3 DEF Calm
<1>5. ASSUME NEW r \in Ops PROVE OpFits(r)'
  <2>1. Bound(r) => Bound(r)'
    BY DEF Bound, Key, index
  <2> QED BY <1>4, <2>1, OpStays DEF index
<1>6. ASSUME NEW r \in Ops PROVE (Has(r)' => Has(r)) /\ (Live(r)' => Live(r))
  BY DEF Has, Live, InUse
<1>7. \A q \in Ops : \A r \in Ops \ {q} : PairFits(q, r)'
  BY <1>6, PairsStay
<1>8. \A y \in Procs : ProcFits(y, at[y])'
  BY <1>1, <1>4, OthersFit
<1>9. Typed'
  BY DEF IInv, Typed, Stored
<1> QED BY <1>5, <1>7, <1>8, <1>9 DEF IInv

LEMMA CloseKeeps ==
  ASSUME OneEach, IInv, NEW o \in Ops, Close(o)
  PROVE  IInv'
<1>1. Stored' /\ rec'[o] = "terminal" /\ \A r \in Ops \ {o} : rec'[r] = rec[r]
  BY DEF Close, IInv, Typed, Stored, index
<1>2. rec[o] = "open" /\ ~InUse(o)
  BY DEF Close, InUse
<1> QED BY <1>1, <1>2, OutsideKeeps DEF Close

LEMMA LapseKeeps ==
  ASSUME OneEach, IInv, NEW o \in Ops, Lapse(o)
  PROVE  IInv'
<1>1. /\ Stored' /\ lapsed'[o] = admissions[o] /\ \A r \in Ops \ {o} : lapsed'[r] = lapsed[r]
      /\ cutShort \subseteq cutShort' /\ (InUse(o) => o \in cutShort')
  BY DEF Lapse, IInv, Typed, Stored, index
<1> QED BY <1>1, OutsideKeeps DEF Lapse

LEMMA NextKeeps == OneEach /\ IInv /\ [Next]_vars => IInv'
<1> SUFFICES ASSUME OneEach, IInv, [Next]_vars PROVE IInv'
  OBVIOUS
<1>1. CASE UNCHANGED vars
  <2>1. UNCHANGED <<wanted, rec, admissions, lapsed, cutShort, entry, open, pointer, at>>
    BY <1>1 DEF vars, records, index
  <2>2. Typed'
    BY <2>1 DEF IInv, Typed
  <2>3. ASSUME NEW q \in Ops PROVE OpFits(q)'
    BY <2>1 DEF IInv, OpFits, Says, Bound, Key
  <2>4. ASSUME NEW q \in Ops, NEW o \in Ops \ {q} PROVE PairFits(q, o)'
    <3>1. PairFits(q, o)
      BY DEF IInv
    <3> QED BY <2>1, <3>1 DEF PairFits, Key, Has, Live, InUse, Colliding
  <2>5. \A y \in Procs : ProcFits(y, at[y])'
    <3>1. PICK x : x \notin Procs
      BY NoSetContainsEverything
    <3>2. Calm(x)
      BY <2>1 DEF Calm, CalmAt, Bound, Key, Uses
    <3> QED BY <3>1, <3>2, OthersFit
  <2> QED BY <2>2, <2>3, <2>4, <2>5 DEF IInv
<1>2. ASSUME NEW p \in Preparers, Admit(p) PROVE IInv'
  <2>1. ClaimConflict(p) => IInv'
    BY Stopping DEF ClaimConflict, Procs
  <2> QED BY <1>2, <2>1, ListEntriesKeeps, ListRecordsKeeps, ResolveKeeps, ListOpenKeeps,
             ClaimAgainKeeps, ClaimKeeps, WorkKeeps, AfterKeeps, WalkKeeps DEF Admit
<1>3. ASSUME NEW o \in Ops, Collect(o) \/ OwnerReleases(o) \/ Close(o) \/ Lapse(o)
      PROVE  IInv'
  BY <1>3, CollectKeeps, OwnerReleasesKeeps, CloseKeeps, LapseKeeps
<1>4. ASSUME NEW x \in Procs,
             \/ PutOpen(x) \/ PutEntry(x) \/ Forget(x)
             \/ \E q \in Ops : \/ InspectRecordless(x, q) \/ InspectOpen(x, q)
                              \/ InspectTerminal(x, q)
             \/ Crash(x)
      PROVE  IInv'
  <2>1. Crash(x) => IInv'
    BY Stopping DEF Crash
  <2> QED BY <1>4, <2>1, PutOpenKeeps, PutEntryKeeps, ForgetKeeps, InspectRecordlessKeeps,
             InspectOpenKeeps, InspectTerminalKeeps
<1> QED BY <1>1, <1>2, <1>3, <1>4 DEF Next

LEMMA Invariant == ASSUME OneEach PROVE Spec => []IInv
<1>1. Init => IInv
  BY InitFits
<1>2. IInv /\ [Next]_vars => IInv'
  BY NextKeeps
<1> QED BY <1>1, <1>2, PTL DEF Spec

(* README.md: an operation that is not terminal blocks new operations on    *)
(* its account.  Two of one account are open together only if one of them   *)
(* was admitted again or lost its admission while its prepare was running.  *)
THEOREM AccountsAreExclusive == ASSUME OneEach PROVE Spec => []ExclusiveUnlessReadmitted
<1>1. IInv => ExclusiveUnlessReadmitted
  BY DEF IInv, PairFits, ExclusiveUnlessReadmitted, OpenTogether, Colliding, Live
<1> QED BY <1>1, Invariant, PTL

(* An idempotency key names at most one operation with a record             *)
(* (resolvePrepare, claimUnderLock).                                        *)
THEOREM KeysNameOne == ASSUME OneEach PROVE Spec => []KeyBoundOnce
<1>1. IInv => KeyBoundOnce
  BY DEF IInv, PairFits, KeyBoundOnce, Has
<1> QED BY <1>1, Invariant, PTL

(* A prepare body works under an admission that no other process drops      *)
(* (forget, dropIfRecordless).                                              *)
THEOREM ClaimsAreKept == ASSUME OneEach PROVE Spec => []ClaimIsHeld
<1>1. IInv => ClaimIsHeld
  BY ProcessAssumption DEF IInv, Procs, ProcFits, WorkFits, ClaimIsHeld
<1> QED BY <1>1, Invariant, PTL

(* What has an entry and is unresolved is in open/, where other prepares    *)
(* look for it (write, claimUnderLock, forgetLocked).                       *)
THEOREM EntriesAreListed == ASSUME OneEach PROVE Spec => []OpenRecordIsListed
<1>1. IInv => OpenRecordIsListed
  BY DEF IInv, OpFits, OpenRecordIsListed
<1> QED BY <1>1, Invariant, PTL

=============================================================================
