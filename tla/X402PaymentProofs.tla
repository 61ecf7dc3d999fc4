-------------------------- MODULE X402PaymentProofs --------------------------
(* Purchases paid over x402: theorems for every number of purchases and of  *)
(* stops between two steps.                                                 *)
EXTENDS X402Payment, FiniteSetTheorems, TLAPS

Unsigned == {"none", "awaiting_approval", "authorization_material_pending"}
Unsent == Unsigned \cup {"authorized_not_sent"}
Shown(o) == proof[o] \in {"state", "matched"}
Out(o) == o \in exposed \cup leaked

(* What the terminal state s says of o, told from what APN keeps.           *)
Claim(o, s) ==
  /\ s = "completed" => Shown(o) /\ result[o] = "linked"
  /\ s = "failed_settled_without_result" => Shown(o) /\ result[o] = "none"
  /\ s = "failed_expired_unused" => proof[o] = "unused"
  /\ s = "abandoned_unknown" => proof[o] = "none"
  /\ s = "failed_before_effect" => ~Out(o)

(* Evidence is read only of what the chain has settled, and a payment needs *)
(* a signed header that got out.                                            *)
WorldFits(o) ==
  /\ settled[o] # "no" => Out(o)
  /\ Shown(o) => Proven(o)
  /\ proof[o] = "unused" => ProvablyUnused(o)
  /\ o \in exposed => attempts[o] # <<>>
  /\ Out(o) => op[o] \notin Unsigned \cup {"failed_before_effect"}

(* A payment, one resend, and one recovery after both.                      *)
AttemptsFit(o) ==
  \E n \in 0 .. 2 :
    /\ Len(attempts[o]) \in {n, n + 1}
    /\ \A k \in 1 .. Len(attempts[o]) :
         attempts[o][k].purpose = IF k <= n THEN "payment" ELSE "result_recovery"

RecordFits(o) ==
  /\ op[o] \in Unsent => attempts[o] = <<>> /\ result[o] = "none"
  /\ op[o] = "recovering" \/ Tried(o, "result_recovery") => Shown(o)
  /\ AttemptsFit(o)

(* A receipt decides what its operation ends as.                            *)
ReceiptFits(o) ==
  /\ op[o] \in Terminal => receipt[o] = op[o]
  /\ receipt[o] # "none" => op[o] # "none" /\ Claim(o, receipt[o])
  /\ receipt[o] # "none" /\ op[o] = "awaiting_approval" =>
       receipt[o] = "failed_before_effect" /\ o \in expired
  /\ receipt[o] = "failed_before_effect" =>
       op[o] \in Unsigned \cup {"failed_before_effect"}

RowFits(o) ==
  /\ op[o] = "none" => row[o] = "none"
  /\ op[o] = "awaiting_approval" => row[o] \in {"none", "reserved"}
  /\ op[o] \notin {"none", "awaiting_approval", "failed_before_effect"} =>
       row[o] # "none"
  /\ row[o] = "finalized" => op[o] = "abandoned_unknown" \/ Shown(o)
  /\ row[o] = "failed_before_effect" => op[o] = "failed_before_effect"
  /\ row[o] = "released_unsubmitted" => op[o] = "failed_expired_unused"
  /\ row[o] \in {"submitted", "unknown_finality", "finalized"} =>
       op[o] \notin Unsent \cup {"failed_before_effect"}

Fits(o) == WorldFits(o) /\ RecordFits(o) /\ ReceiptFits(o) /\ RowFits(o)

(* What a command for o relies on at a step: at one that may write, and     *)
(* when it ends the purchase in state s.                                    *)
Sending == {"act", "act_unused", "send", "http", "answered"}
Works(o, step, arg) ==
  /\ receipt[o] = "none" /\ op[o] \in Pending
  /\ step = "pend" => op[o] = "awaiting_approval" /\ row[o] # "none"
  /\ step \in {"create", "get"} => op[o] = "authorization_material_pending"
  /\ step # "pend" => op[o] # "awaiting_approval"
  /\ step \in DOMAIN AfterFinish \cup {"read"} \cup Sending => result[o] # "file"
  /\ step \in Sending /\ proof[o] # "none" => result[o] = "none"
  /\ step = "send" =>
       \/ arg = "payment" /\ op[o] = "authorized_not_sent"
       \/ /\ arg = "payment" /\ op[o] = "effect_unknown"
          /\ Len(attempts[o]) = 1 /\ proof[o] = "none"
       \/ /\ arg = "result_recovery" /\ op[o] = "recovering"
          /\ ~Tried(o, "result_recovery")
  /\ step \in {"http", "answered"} => Marked(o)
  /\ step \in {"keep", "link"} => attempts[o] # <<>>
Ends(o, s) ==
  /\ s \in Terminal /\ Claim(o, s) /\ op[o] \in Pending
  /\ s = "failed_before_effect" => op[o] \in Unsigned
  /\ op[o] = "awaiting_approval" => s = "failed_before_effect" /\ o \in expired
ProcFits ==
  \/ proc = Idle
  \/ /\ proc.at # "idle" /\ proc.o \in Ops
     /\ proc.at = "receipt" => Ends(proc.o, proc.arg)
     /\ proc.at = "close" => receipt[proc.o] # "none"
     /\ proc.at \notin {"receipt", "close", "follow"} =>
          Works(proc.o, proc.at, proc.arg)

IInv == TypeOK /\ (\A o \in Ops : Fits(o)) /\ ProcFits

-----------------------------------------------------------------------------
Procs == [at : Steps, o : Ops \cup {"none"}, mode : Modes,
          arg : Terminal \cup {"none", "payment", "result_recovery"},
          answer : Answers]
Args == Terminal \cup {"none", "payment", "result_recovery"}
Rows == {"none", "reserved", "submitted", "unknown_finality", "finalized",
         "failed_before_effect", "released_unsubmitted"}

(* A step for o leaves the other purchases alone.                           *)
Alone(o) ==
  \A q \in Ops \ {o} :
    /\ op'[q] = op[q] /\ attempts'[q] = attempts[q] /\ proof'[q] = proof[q]
    /\ result'[q] = result[q] /\ receipt'[q] = receipt[q] /\ row'[q] = row[q]
    /\ settled'[q] = settled[q]
    /\ q \in exposed' <=> q \in exposed
    /\ q \in leaked' <=> q \in leaked
    /\ q \in late' <=> q \in late
    /\ q \in expired' <=> q \in expired

LEMMA ActionKeeps ==
  ASSUME IInv, NEW o \in Ops, TypeOK', Alone(o), Fits(o)', ProcFits'
  PROVE  IInv'
<1>1. ASSUME NEW q \in Ops \ {o} PROVE Fits(q)'
  <2>1. /\ op'[q] = op[q] /\ attempts'[q] = attempts[q] /\ proof'[q] = proof[q]
        /\ result'[q] = result[q] /\ receipt'[q] = receipt[q] /\ row'[q] = row[q]
        /\ settled'[q] = settled[q]
        /\ q \in exposed' <=> q \in exposed
        /\ q \in leaked' <=> q \in leaked
        /\ q \in late' <=> q \in late
        /\ q \in expired' <=> q \in expired
    BY <1>1 DEF Alone
  <2>2. WorldFits(q) /\ RecordFits(q) /\ ReceiptFits(q) /\ RowFits(q)
    BY <1>1 DEF IInv, Fits
  <2>3. WorldFits(q)'
    BY <2>1, <2>2 DEF WorldFits, Out, Shown, Proven, ProvablyUnused
  <2>4. RecordFits(q)'
    BY <2>1, <2>2 DEF RecordFits, AttemptsFit, Shown, Tried, Tries
  <2>5. ReceiptFits(q)'
    BY <2>1, <2>2 DEF ReceiptFits, Claim, Shown, Out
  <2>6. RowFits(q)'
    BY <2>1, <2>2 DEF RowFits, Shown
  <2> QED BY <2>3, <2>4, <2>5, <2>6 DEF Fits
<1> QED BY <1>1 DEF IInv

LEMMA Names ==
  /\ {"awaiting_approval", "authorization_material_pending",
      "authorized_not_sent", "paid_request_pending", "settlement_pending",
      "effect_unknown", "recovering"} = Pending
  /\ {"completed", "failed_before_effect", "failed_expired_unused",
      "failed_settled_without_result", "abandoned_unknown"} = Terminal
  /\ "none" \notin Pending \cup Terminal /\ Pending \cap Terminal = {}
  /\ Unsigned = {"none", "awaiting_approval", "authorization_material_pending"}
  /\ Unsent = Unsigned \cup {"authorized_not_sent"}
  /\ Sending = {"act", "act_unused", "send", "http", "answered"}
  /\ DOMAIN AfterFinish = {"finish", "finish_read", "finish_unused", "finish_end"}
  /\ AfterFinish["finish"] = "read" /\ AfterFinish["finish_read"] = "act"
  /\ AfterFinish["finish_unused"] = "act_unused" /\ AfterFinish["finish_end"] = "follow"
  /\ Steps = {"idle", "pend", "create", "get", "orphan", "finish", "read",
              "finish_read", "finish_unused", "act", "act_unused", "send",
              "http", "answered", "keep", "link", "finish_end", "receipt",
              "close", "follow"}
BY DEF Pending, Terminal, Unsigned, Unsent, Sending, AfterFinish, Steps

(* What LEGAL_NEXT lets no record do.                                       *)
LEMMA LegalOnly ==
  ASSUME NEW from, NEW to, Legal(from, to)
  PROVE  /\ from \in Pending /\ to \in (Pending \cup Terminal) \ {"awaiting_approval"}
         /\ to = "authorization_material_pending" =>
              from \in {"awaiting_approval", "authorization_material_pending"}
         /\ to = "authorized_not_sent" =>
              from \in {"authorization_material_pending", "authorized_not_sent"}
BY DEF Legal, LegalNext, Pending, Terminal

LEMMA Typed ==
  ASSUME IInv, NEW o \in Ops
  PROVE  /\ op[o] \in Pending \cup Terminal \cup {"none"}
         /\ attempts[o] \in Seq(Attempts) /\ asked[o] \in 0 .. 2
         /\ proof[o] \in {"none", "state", "matched", "unused"}
         /\ result[o] \in {"none", "file", "linked"}
         /\ receipt[o] \in Terminal \cup {"none"} /\ row[o] \in Rows
         /\ settled[o] \in {"no", "head", "final"} /\ proc \in Procs
         /\ WorldFits(o) /\ RecordFits(o) /\ ReceiptFits(o) /\ RowFits(o)
BY DEF IInv, TypeOK, Rows, Procs, Fits

LEMMA Resting == Idle \in Procs /\ Idle.at = "idle"
BY DEF Idle, Procs, Steps, Modes, Answers

LEMMA Went ==
  ASSUME proc \in Procs, NEW step \in Steps, NEW arg \in Args, GotoWith(step, arg)
  PROVE  /\ proc' \in Procs /\ proc'.at = step /\ proc'.o = proc.o
         /\ proc'.arg = arg
<1>1. NoAnswer \in Answers
  BY DEF Answers
<1> HIDE DEF NoAnswer, Answers
<1> QED BY <1>1 DEF GotoWith, Procs, Args

LEMMA Began ==
  ASSUME NEW o \in Ops, NEW mode \in Modes, NEW step \in Steps, NEW arg \in Args,
         Begin(o, mode, step, arg)
  PROVE  /\ proc' \in Procs /\ proc'.at = step /\ proc'.o = o /\ proc'.arg = arg
         /\ proc = Idle
<1>1. NoAnswer \in Answers
  BY DEF Answers
<1> HIDE DEF NoAnswer, Answers
<1> QED BY <1>1 DEF Begin, Procs, Args

(* A step that moves the command only.                                      *)
LEMMA StepKeeps ==
  ASSUME IInv, proc' \in Procs, ProcFits', UNCHANGED <<disk, buyer, world>>,
         stops' \in 0 .. MaxStops
  PROVE  IInv'
<1>1. TypeOK'
  BY DEF IInv, TypeOK, Procs, disk, evidence, world
<1>2. \A o \in Ops : Fits(o)'
  BY DEF IInv, Fits, WorldFits, RecordFits, ReceiptFits, RowFits, Out, Shown,
         Proven, ProvablyUnused, AttemptsFit, Claim, Tried, Tries, disk,
         evidence, world
<1> QED BY <1>1, <1>2 DEF IInv

(* The step that a command of o is at, and what it may rely on.             *)
LEMMA AtWork ==
  ASSUME IInv, NEW o \in Ops, NEW step \in Steps \ {"idle"}, Running(step, o)
  PROVE  /\ proc # Idle
         /\ step = "receipt" => Ends(o, proc.arg)
         /\ step = "close" => receipt[o] # "none"
         /\ step \notin {"receipt", "close", "follow"} => Works(o, step, proc.arg)
BY Resting DEF IInv, ProcFits, Running

LEMMA WillWork ==
  ASSUME NEW o \in Ops, NEW step \in Steps \ {"idle"}, NEW arg,
         proc'.at = step, proc'.o = o, proc'.arg = arg,
         step = "receipt" => Ends(o, arg)',
         step = "close" => receipt'[o] # "none",
         step \notin {"receipt", "close", "follow"} => Works(o, step, arg)'
  PROVE  ProcFits'
BY DEF ProcFits, Works, Ends, Claim, Tried, Tries, Shown, Out, Marked, Last

LEMMA Idles ==
  ASSUME proc' = Idle PROVE ProcFits' /\ proc' \in Procs
BY Resting DEF ProcFits

(* What Works says in the next state, where nothing but the command moved.  *)
LEMMA WorksOn ==
  ASSUME NEW o \in Ops, NEW step, NEW arg, UNCHANGED <<disk, world>>
  PROVE  /\ Works(o, step, arg)' <=> Works(o, step, arg)
         /\ Ends(o, arg)' <=> Ends(o, arg)
BY DEF Works, Ends, Claim, Tried, Tries, Shown, Out, Marked, Last, disk,
       evidence, world

LEMMA GoesOn ==
  ASSUME IInv, NEW o \in Ops, NEW step \in Steps \ {"idle"}, NEW arg \in Args,
         proc.o = o, GotoWith(step, arg), UNCHANGED <<disk, buyer, stops, world>>,
         step = "receipt" => Ends(o, arg), step = "close" => receipt[o] # "none",
         step \notin {"receipt", "close", "follow"} => Works(o, step, arg)
  PROVE  IInv'
<1>1. /\ proc' \in Procs /\ proc'.at = step /\ proc'.o = o /\ proc'.arg = arg
  BY Went, Typed
<1>2. receipt' = receipt /\ UNCHANGED <<disk, world>> /\ stops' \in 0 .. MaxStops
  BY DEF disk, IInv, TypeOK
<1>3. ProcFits'
  BY <1>1, <1>2, WorksOn, WillWork
<1> QED BY <1>1, <1>2, <1>3, StepKeeps

LEMMA Starts ==
  ASSUME IInv, NEW o \in Ops, NEW mode \in Modes, NEW step \in Steps \ {"idle"},
         NEW arg \in Args, Begin(o, mode, step, arg),
         UNCHANGED <<disk, buyer, stops, world>>,
         step = "receipt" => Ends(o, arg), step = "close" => receipt[o] # "none",
         step \notin {"receipt", "close", "follow"} => Works(o, step, arg)
  PROVE  IInv'
<1>1. /\ proc' \in Procs /\ proc'.at = step /\ proc'.o = o /\ proc'.arg = arg
  BY Began
<1>2. receipt' = receipt /\ UNCHANGED <<disk, world>> /\ stops' \in 0 .. MaxStops
  BY DEF disk, IInv, TypeOK
<1>3. ProcFits'
  BY <1>1, <1>2, WorksOn, WillWork
<1> QED BY <1>1, <1>2, <1>3, StepKeeps

-----------------------------------------------------------------------------
(* A write for o leaves the files of the other purchases alone.             *)
Only(o, f, g) == \A q \in Ops \ {o} : g[q] = f[q]

(* The attempts of o may get an outcome, not another purpose.               *)
SamePurposes(o) ==
  /\ attempts' \in [Ops -> Seq(Attempts)] /\ Only(o, attempts, attempts')
  /\ Len(attempts'[o]) = Len(attempts[o])
  /\ \A k \in 1 .. Len(attempts[o]) :
       attempts'[o][k].purpose = attempts[o][k].purpose

LEMMA SameTries ==
  ASSUME IInv, NEW o \in Ops, SamePurposes(o)
  PROVE  /\ AttemptsFit(o) => AttemptsFit(o)'
         /\ \A purpose : Tried(o, purpose)' <=> Tried(o, purpose)
         /\ attempts'[o] = <<>> <=> attempts[o] = <<>>
<1>1. attempts[o] \in Seq(Attempts) /\ attempts'[o] \in Seq(Attempts)
  BY Typed DEF SamePurposes
<1>2. /\ DOMAIN attempts[o] = 1 .. Len(attempts[o])
      /\ DOMAIN attempts'[o] = 1 .. Len(attempts[o])
      /\ attempts'[o] = <<>> <=> attempts[o] = <<>>
  BY <1>1 DEF SamePurposes
<1>3. AttemptsFit(o) => AttemptsFit(o)'
  BY DEF AttemptsFit, SamePurposes
<1>4. \A purpose : Tries(o, purpose)' = Tries(o, purpose)
  BY <1>2 DEF Tries, SamePurposes
<1> QED BY <1>2, <1>3, <1>4 DEF Tried

LEMMA Unattempted ==
  ASSUME IInv, NEW o \in Ops, UNCHANGED attempts
  PROVE  SamePurposes(o)
BY DEF SamePurposes, Only, IInv, TypeOK

(* The record of o goes on to s, which is no outcome, and with it go its    *)
(* attempts, the chain evidence and the body.                               *)
LEMMA RecordKeeps ==
  ASSUME IInv, NEW o \in Ops, receipt[o] = "none", op[o] \in Pending,
         NEW s \in Pending, s = op[o] \/ Legal(op[o], s), op' = [op EXCEPT ![o] = s],
         s # "awaiting_approval", op[o] = "awaiting_approval" => row[o] # "none",
         s = "recovering" => Shown(o)', SamePurposes(o),
         proof' \in [Ops -> {"none", "state", "matched", "unused"}],
         Only(o, proof, proof'), proof[o] \in {"none", proof'[o]},
         Shown(o)' => Proven(o), proof'[o] = "unused" => ProvablyUnused(o),
         result' \in [Ops -> {"none", "file", "linked"}],
         Only(o, result, result'), result'[o] = result[o] \/ op[o] \notin Unsent,
         asked' \in [Ops -> 0 .. 2], hint' \in [Ops -> {"none", "true", "false"}],
         UNCHANGED <<receipt, row, buyer, stops, world>>, proc' \in Procs, ProcFits'
  PROVE  IInv'
<1>1. op' \in [Ops -> Pending \cup Terminal \cup {"none"}] /\ op'[o] = s
      /\ Only(o, op, op')
  BY DEF IInv, TypeOK, Only
<1>2. TypeOK'
  BY <1>1 DEF IInv, TypeOK, Procs, SamePurposes, world
<1>3. Alone(o)
  BY <1>1 DEF Alone, Only, SamePurposes, world
<1>4. WorldFits(o) /\ RecordFits(o) /\ ReceiptFits(o) /\ RowFits(o)
  BY Typed
<1>5. /\ \A purpose : Tried(o, purpose)' <=> Tried(o, purpose)
      /\ attempts'[o] = <<>> <=> attempts[o] = <<>>
      /\ AttemptsFit(o)'
  BY <1>4, SameTries DEF RecordFits
<1>6. /\ s \in Unsent => op[o] \in Unsent
      /\ s \in Unsigned => op[o] \in Unsigned
      /\ s \notin Terminal \cup {"none"}
  BY LegalOnly, Names
<1>7. Shown(o) => Shown(o)'
  BY DEF Shown
<1>8. WorldFits(o)'
  BY <1>1, <1>4, <1>5, <1>6, Names DEF WorldFits, Out, Proven, ProvablyUnused, world
<1>9. RecordFits(o)'
  <2>1. op'[o] \in Unsent => attempts'[o] = <<>> /\ result'[o] = "none"
    BY <1>1, <1>4, <1>5, <1>6, Names DEF RecordFits
  <2>2. op'[o] = "recovering" \/ Tried(o, "result_recovery")' => Shown(o)'
    BY <1>1, <1>4, <1>5, <1>7 DEF RecordFits
  <2> QED BY <1>5, <2>1, <2>2 DEF RecordFits, Unsent, Unsigned
<1>10. ReceiptFits(o)'
  BY <1>1, <1>6, Names DEF ReceiptFits
<1>11. RowFits(o)'
  BY <1>1, <1>4, <1>6, <1>7, Names DEF RowFits
<1> QED BY <1>2, <1>3, <1>8, <1>9, <1>10, <1>11, ActionKeeps DEF Fits

LEMMA Outcomes ==
  ASSUME IInv, NEW o \in Ops, NEW phase \in {"observed", "ambiguous"}, Outcome(o, phase)
  PROVE  SamePurposes(o)
<1> DEFINE n == Len(attempts[o])
           a == [attempts[o][n] EXCEPT !.phase = phase]
           q == [attempts[o] EXCEPT ![n] = a]
<1>1. attempts[o] \in Seq(Attempts) /\ n \in Nat
  BY Typed
<1>2. attempts' = [attempts EXCEPT ![o] = q]
  BY DEF Outcome
<1>3. /\ q \in Seq(Attempts) /\ Len(q) = n
      /\ \A k \in 1 .. n : q[k].purpose = attempts[o][k].purpose
  <2>1. CASE n = 0
    <3> HIDE DEF a
    <3>1. attempts[o] = <<>>
      BY <1>1, <2>1
    <3>2. q = <<>>
      BY <1>1, <2>1, <3>1
    <3> HIDE DEF q
    <3> QED BY <1>1, <2>1, <3>1, <3>2
  <2>2. CASE n # 0
    <3>1. n \in 1 .. n /\ attempts[o][n] \in Attempts
      BY <1>1, <2>2
    <3>2. a \in Attempts /\ a.purpose = attempts[o][n].purpose
      BY <3>1 DEF Attempts
    <3> HIDE DEF a
    <3> QED BY <1>1, <3>1, <3>2
  <2> QED BY <2>1, <2>2
<1> HIDE DEF q
<1>4. attempts \in [Ops -> Seq(Attempts)]
  BY DEF IInv, TypeOK
<1> QED BY <1>2, <1>3, <1>4 DEF SamePurposes, Only

(* The same, with evidence and body as they are.                            *)
LEMMA TurnKeeps ==
  ASSUME IInv, NEW o \in Ops, receipt[o] = "none", op[o] \in Pending,
         NEW s \in Pending, s = op[o] \/ Legal(op[o], s), op' = [op EXCEPT ![o] = s],
         s # "awaiting_approval", op[o] = "awaiting_approval" => row[o] # "none",
         s = "recovering" => Shown(o), SamePurposes(o),
         asked' \in [Ops -> 0 .. 2], hint' \in [Ops -> {"none", "true", "false"}],
         UNCHANGED <<proof, result, receipt, row, buyer, stops, world>>,
         proc' \in Procs, ProcFits'
  PROVE  IInv'
<1>1. /\ proof' \in [Ops -> {"none", "state", "matched", "unused"}]
      /\ Only(o, proof, proof') /\ proof[o] \in {"none", proof'[o]}
      /\ result' \in [Ops -> {"none", "file", "linked"}]
      /\ Only(o, result, result') /\ result'[o] = result[o]
  BY DEF IInv, TypeOK, Only
<1>2. /\ s = "recovering" => Shown(o)'
      /\ Shown(o)' => Proven(o)
      /\ proof'[o] = "unused" => ProvablyUnused(o)
  BY Typed DEF Shown, WorldFits
<1> QED BY <1>1, <1>2, RecordKeeps

LEMMA PendKeeps ==
  ASSUME IInv, NEW o \in Ops, Pend(o)
  PROVE  IInv'
<1>1. Works(o, "pend", proc.arg)
  BY AtWork, Names DEF Pend
<1>2. /\ receipt[o] = "none" /\ op[o] = "awaiting_approval" /\ row[o] # "none"
      /\ Legal(op[o], "authorization_material_pending")
      /\ op' = [op EXCEPT ![o] = "authorization_material_pending"]
      /\ asked' \in [Ops -> 0 .. 2] /\ proc.o = o /\ GotoWith("create", "none")
      /\ UNCHANGED <<attempts, hint, proof, result, receipt, row, buyer, stops, world>>
  BY <1>1 DEF Works, Pend, Record, Goto, Running, evidence, IInv, TypeOK
<1>3. op'[o] = "authorization_material_pending" /\ hint' \in [Ops -> {"none", "true", "false"}]
  BY <1>2 DEF IInv, TypeOK
<1>4. proc' \in Procs /\ proc'.at = "create" /\ proc'.o = o /\ proc'.arg = "none"
  BY <1>2, Went, Typed, Names DEF Args
<1>5. Works(o, "create", "none")'
  BY <1>2, <1>3, Names DEF Works
<1>6. ProcFits'
  BY <1>4, <1>5, WillWork, Names
<1> QED BY <1>2, <1>3, <1>4, <1>6, Unattempted, TurnKeeps, Names

(* A command that only writes the record of o, and then follows its hold.   *)
LEMMA TurnFollows ==
  ASSUME IInv, NEW o \in Ops, receipt[o] = "none", op[o] \in Pending,
         NEW s \in Pending, Record(o, s), s # "awaiting_approval",
         op[o] # "awaiting_approval", s = "recovering" => Shown(o), SamePurposes(o),
         asked' \in [Ops -> 0 .. 2], hint' \in [Ops -> {"none", "true", "false"}],
         UNCHANGED <<proof, result, receipt, row, buyer, stops, world>>,
         proc.o = o, Goto("follow")
  PROVE  IInv'
<1>1. proc' \in Procs /\ proc'.at = "follow" /\ proc'.o = o
  BY Went, Typed, Names DEF Args, Goto
<1>2. ProcFits'
  BY <1>1 DEF ProcFits
<1> QED BY <1>1, <1>2, TurnKeeps DEF Record

LEMMA AuthorizationKeeps ==
  ASSUME IInv, NEW o \in Ops, Authorization(o)
  PROVE  IInv'
<1>1. Authorizing(o) =>
        /\ receipt[o] = "none" /\ op[o] = "authorization_material_pending" /\ proc.o = o
        /\ op[o] \in Pending /\ \E step \in {"create", "get"} : Works(o, step, proc.arg)
  <2>1. ASSUME NEW step \in {"create", "get"}, Running(step, o)
        PROVE  Works(o, step, proc.arg)
    BY <2>1, AtWork, Names
  <2> QED BY <2>1, Names DEF Authorizing, Running, Works
<1>2. CASE Authorized(o) \/ AuthorizeNotFound(o)
  <2>1. PICK s \in {"authorized_not_sent", "authorization_material_pending"} :
          /\ Record(o, s) /\ asked' \in [Ops -> 0 .. 2] /\ Goto("follow") /\ Authorizing(o)
          /\ UNCHANGED <<attempts, hint, proof, result, receipt, row, buyer, stops, world>>
    <3>1. asked \in [Ops -> 0 .. 2]
      BY DEF IInv, TypeOK
    <3>2. CASE Authorized(o)
      BY <3>1, <3>2 DEF Authorized, evidence
    <3>3. CASE AuthorizeNotFound(o)
      BY <3>1, <3>3 DEF AuthorizeNotFound, Authorizing, Running, evidence
    <3> QED BY <1>2, <3>2, <3>3
  <2> QED BY <1>1, <2>1, Unattempted, TurnFollows, Names DEF IInv, TypeOK
<1>3. CASE AuthorizeLater(o)
  BY <1>1, <1>3, GoesOn, Names DEF AuthorizeLater, Step, Goto, Args
<1>4. CASE AuthorizeRefused(o)
  <2>1. Ends(o, "failed_before_effect")
    BY <1>1, <1>4, Typed, Names DEF AuthorizeRefused, Ends, Claim, WorldFits
  <2> QED BY <1>1, <1>4, <2>1, GoesOn, Names DEF AuthorizeRefused, Terminate, Args
<1>5. CASE AuthorizeExpired(o)
  <2>1. result[o] # "file" /\ Authorizing(o)
    BY <1>1, <1>5, Typed, Names DEF AuthorizeExpired, RecordFits
  <2>2. Works(o, "finish_end", "none")
    BY <1>1, <2>1, Names DEF Works
  <2>3. ASSUME NEW step \in {"follow", "finish_end"}, Step(o, step)
        PROVE  IInv'
    BY <1>1, <2>1, <2>2, <2>3, GoesOn, Names DEF Step, Goto, Args
  <2>4. ASSUME proof[o] = "none", ProvablyUnused(o), Record(o, op[o]),
               proof' = [proof EXCEPT ![o] = "unused"], Goto("finish_end"),
               UNCHANGED <<asked, attempts, hint, result, receipt, row, buyer,
                           stops, world>>
        PROVE  IInv'
    <3>1. proc' \in Procs /\ proc'.at = "finish_end" /\ proc'.o = o /\ proc'.arg = "none"
      BY <1>1, <2>1, <2>4, Went, Typed, Names DEF Args, Goto
    <3>2. /\ proof' \in [Ops -> {"none", "state", "matched", "unused"}]
          /\ Only(o, proof, proof') /\ proof'[o] = "unused"
          /\ result' \in [Ops -> {"none", "file", "linked"}]
          /\ Only(o, result, result') /\ result'[o] = result[o]
          /\ asked' \in [Ops -> 0 .. 2] /\ hint' \in [Ops -> {"none", "true", "false"}]
          /\ op' = [op EXCEPT ![o] = op[o]] /\ op'[o] = op[o]
      BY <2>4 DEF IInv, TypeOK, Only, Record
    <3>3. Works(o, "finish_end", "none")'
      BY <1>1, <2>1, <2>4, <3>2, Names DEF Works
    <3>4. ProcFits'
      BY <3>1, <3>3, WillWork, Names
    <3>5. SamePurposes(o) /\ ~Shown(o)'
      BY <2>4, <3>2, Unattempted DEF Shown
    <3> QED BY <1>1, <2>1, <2>4, <3>1, <3>2, <3>4, <3>5, RecordKeeps
  <2> QED BY <1>5, <2>3, <2>4 DEF AuthorizeExpired
<1> QED BY <1>2, <1>3, <1>4, <1>5, PendKeeps DEF Authorization

-----------------------------------------------------------------------------
(* The hold of o moves to r.                                                *)
LEMMA RowKeeps ==
  ASSUME IInv, NEW o \in Ops, NEW r \in Rows, row' = [row EXCEPT ![o] = r],
         UNCHANGED <<op, asked, evidence, receipt, buyer, stops, world>>,
         RowFits(o)', proc' \in Procs, ProcFits'
  PROVE  IInv'
<1>1. row' \in [Ops -> Rows] /\ Only(o, row, row')
  BY DEF IInv, TypeOK, Rows, Only
<1>2. TypeOK'
  BY <1>1 DEF IInv, TypeOK, Procs, Rows, evidence, world
<1>3. Alone(o)
  BY <1>1 DEF Alone, Only, evidence, world
<1>4. WorldFits(o) /\ RecordFits(o) /\ ReceiptFits(o)
  BY Typed
<1>5. WorldFits(o)' /\ RecordFits(o)' /\ ReceiptFits(o)'
  BY <1>4 DEF WorldFits, RecordFits, ReceiptFits, Out, Shown, Proven,
         ProvablyUnused, AttemptsFit, Claim, Tried, Tries, evidence, world
<1> QED BY <1>2, <1>3, <1>5, ActionKeeps DEF Fits

LEMMA PrepareKeeps ==
  ASSUME IInv, NEW o \in Ops, Prepare(o)
  PROVE  IInv'
<1>1. /\ op[o] = "none" /\ op' = [op EXCEPT ![o] = "awaiting_approval"]
      /\ UNCHANGED <<asked, attempts, hint, proof, result, receipt, row, buyer, proc, stops,
                     exposed, leaked, settled, late, expired>>
  BY DEF Prepare, evidence, world
<1>2. /\ op' \in [Ops -> Pending \cup Terminal \cup {"none"}]
      /\ op'[o] = "awaiting_approval" /\ Only(o, op, op')
  BY <1>1, Names DEF IInv, TypeOK, Only
<1>3. TypeOK' /\ Alone(o)
  BY <1>1, <1>2 DEF IInv, TypeOK, Alone, Only
<1>4. /\ WorldFits(o) /\ RecordFits(o) /\ ReceiptFits(o) /\ RowFits(o)
      /\ receipt[o] = "none"
  BY <1>1, Typed, Names DEF ReceiptFits
<1>5. WorldFits(o)'
  BY <1>1, <1>2, <1>4, Names DEF WorldFits, Out, Shown, Proven, ProvablyUnused
<1>6. RecordFits(o)'
  BY <1>1, <1>2, <1>4, Names DEF RecordFits, Shown, AttemptsFit, Tried, Tries
<1>7. ReceiptFits(o)' /\ RowFits(o)'
  BY <1>1, <1>2, <1>4, Names DEF ReceiptFits, RowFits
<1>8. ProcFits'
  <2>1. CASE proc = Idle
    BY <1>1, <2>1 DEF ProcFits
  <2>2. CASE proc # Idle
    <3>1. proc.o # o \/ proc.at = "follow"
      BY <1>1, <1>4, <2>2, Names DEF IInv, ProcFits, Ends, Works
    <3>2. proc.o # o => op'[proc.o] = op[proc.o]
      BY <1>2, <2>2 DEF Only, IInv, ProcFits
    <3> QED BY <1>1, <2>2, <3>1, <3>2 DEF IInv, ProcFits, Ends, Works, Claim,
               Tried, Tries, Shown, Out, Marked, Last
  <2> QED BY <2>1, <2>2
<1> QED BY <1>3, <1>5, <1>6, <1>7, <1>8, ActionKeeps DEF Fits

LEMMA ApproveKeeps ==
  ASSUME IInv, NEW o \in Ops, ApproveExpired(o) \/ ApproveReserves(o) \/ AbandonUnsigned(o)
  PROVE  IInv'
<1>1. op[o] = "awaiting_approval"
  BY DEF ApproveExpired, ApproveReserves, AbandonUnsigned
<1>2. CASE ApproveExpired(o) \/ AbandonUnsigned(o)
  <2>1. /\ \E mode \in Modes : Begin(o, mode, "receipt", "failed_before_effect")
        /\ o \in expired /\ UNCHANGED <<disk, buyer, stops, world>>
    BY <1>2 DEF ApproveExpired, AbandonUnsigned, Abandonable, Modes
  <2>2. Ends(o, "failed_before_effect")
    BY <1>1, <2>1, Typed, Names DEF Ends, Claim, WorldFits
  <2> QED BY <2>1, <2>2, Starts, Names DEF Args
<1>3. CASE ApproveReserves(o)
  <2>1. /\ o \notin expired /\ Begin(o, "approve", "pend", "none")
        /\ row' = [row EXCEPT ![o] = "reserved"]
        /\ UNCHANGED <<op, asked, evidence, receipt, buyer, stops, world>>
    BY <1>3 DEF ApproveReserves
  <2>2. receipt[o] = "none" /\ row'[o] = "reserved"
    BY <1>1, <2>1, Typed DEF ReceiptFits, IInv, TypeOK
  <2>3. /\ proc' \in Procs /\ proc'.at = "pend" /\ proc'.o = o /\ proc'.arg = "none"
    BY <2>1, Began, Names DEF Args, Modes
  <2>4. Works(o, "pend", "none")'
    BY <1>1, <2>1, <2>2, Names DEF Works
  <2>5. ProcFits'
    BY <2>3, <2>4, WillWork, Names
  <2>6. RowFits(o)'
    BY <1>1, <2>1, <2>2, Names DEF RowFits
  <2> QED BY <2>1, <2>3, <2>5, <2>6, RowKeeps DEF Rows
<1> QED BY <1>2, <1>3

LEMMA ResumeKeeps ==
  ASSUME IInv, NEW o \in Ops, Resume(o) \/ Wait(o) \/ AbandonAgain(o)
  PROVE  IInv'
<1>1. AfterApproval(o) => op[o] \in Pending /\ op[o] \notin Unsigned
  BY Names DEF AfterApproval
<1>2. CASE ResumeReceipt(o)
  BY <1>2, Starts, Names DEF ResumeReceipt, Modes, Args
<1>3. CASE ResumeAuthorization(o)
  <2>1. \A step \in {"create", "get"} : Works(o, step, "none")
    BY <1>3, Names DEF ResumeAuthorization, Works
  <2> QED BY <1>3, <2>1, Starts, Names DEF ResumeAuthorization, Modes, Args
<1>4. CASE ResumeMarked(o)
  <2> DEFINE s == IF op[o] = "recovering" THEN op[o] ELSE "effect_unknown"
  <2>1. /\ AfterApproval(o) /\ receipt[o] = "none" /\ Begin(o, "resume", "orphan", "none")
        /\ Record(o, s) /\ SamePurposes(o)
        /\ UNCHANGED <<asked, hint, proof, result, receipt, row, buyer, stops, world>>
    BY <1>4, Outcomes DEF ResumeMarked
  <2>2. s \in Pending /\ s # "awaiting_approval" /\ (s = "recovering" => Shown(o))
    BY Typed, Names DEF RecordFits
  <2> HIDE DEF s
  <2>3. proc' \in Procs /\ proc'.at = "orphan" /\ proc'.o = o /\ proc'.arg = "none"
    BY <2>1, Began, Names DEF Args, Modes
  <2>4. op'[o] = s /\ asked' \in [Ops -> 0 .. 2] /\ hint' \in [Ops -> {"none", "true", "false"}]
    BY <2>1 DEF Record, IInv, TypeOK
  <2>5. Works(o, "orphan", "none")'
    BY <2>1, <2>2, <2>4, Names DEF Works
  <2>6. ProcFits'
    BY <2>3, <2>5, WillWork, Names
  <2> QED BY <1>1, <2>1, <2>2, <2>3, <2>4, <2>6, TurnKeeps, Names DEF Record
<1>5. CASE ResumeRead(o) \/ Wait(o)
  <2>1. \E mode \in Modes, step \in {"orphan", "close"} :
          /\ Begin(o, mode, step, "none") /\ UNCHANGED <<disk, buyer, stops, world>>
          /\ step = "orphan" => receipt[o] = "none"
          /\ step = "close" => receipt[o] # "none"
    <3>1. CASE ResumeRead(o)
      BY <3>1 DEF ResumeRead, Modes
    <3>2. CASE Wait(o) /\ receipt[o] = "none"
      BY <3>2 DEF Wait, Modes
    <3>3. CASE Wait(o) /\ receipt[o] # "none"
      BY <3>3 DEF Wait, Modes
    <3> QED BY <1>5, <3>1, <3>2, <3>3
  <2>2. receipt[o] = "none" => Works(o, "orphan", "none")
    BY <1>1, <1>5, Names DEF ResumeRead, Wait, Works
  <2> QED BY <2>1, <2>2, Starts, Names DEF Args
<1>6. CASE AbandonAgain(o)
  BY <1>6, Starts, Names DEF AbandonAgain, Modes, Args
<1> QED BY <1>2, <1>3, <1>4, <1>5, <1>6 DEF Resume

LEMMA AbandonKeeps ==
  ASSUME IInv, NEW o \in Ops, Abandon(o)
  PROVE  IInv'
<1>1. /\ op[o] \in Pending /\ op[o] # "awaiting_approval" /\ receipt[o] = "none"
      /\ proof[o] = "none" /\ Begin(o, "abandon", "receipt", "abandoned_unknown")
      /\ UNCHANGED <<asked, hint, proof, result, receipt, row, buyer, stops, world>>
  BY DEF Abandon, Abandonable
<1>2. PICK s \in Pending : /\ s = op[o] \/ (s = "effect_unknown" /\ Legal(op[o], s))
                           /\ op' = [op EXCEPT ![o] = s] /\ SamePurposes(o)
  <2>1. CASE op[o] = "paid_request_pending"
    BY <2>1, Outcomes, Names DEF Abandon, Record
  <2>2. CASE op[o] # "paid_request_pending"
    <3>1. UNCHANGED <<op, attempts>>
      BY <2>2 DEF Abandon
    <3>2. op' = [op EXCEPT ![o] = op[o]]
      BY <3>1 DEF IInv, TypeOK
    <3> QED BY <1>1, <3>1, <3>2, Unattempted
  <2> QED BY <2>1, <2>2
<1>3. /\ op'[o] = s /\ asked' \in [Ops -> 0 .. 2]
      /\ hint' \in [Ops -> {"none", "true", "false"}]
      /\ s # "awaiting_approval" /\ (s = "recovering" => Shown(o))
  BY <1>1, <1>2, Typed DEF IInv, TypeOK, RecordFits
<1>4. /\ proc' \in Procs /\ proc'.at = "receipt" /\ proc'.o = o
      /\ proc'.arg = "abandoned_unknown"
  BY <1>1, Began, Names DEF Args, Modes
<1>5. Ends(o, "abandoned_unknown")'
  BY <1>1, <1>3, Names DEF Ends, Claim
<1>6. ProcFits'
  BY <1>4, <1>5, WillWork, Names
<1> QED BY <1>1, <1>2, <1>3, <1>4, <1>6, TurnKeeps

-----------------------------------------------------------------------------
LEMMA RecoverOrphanKeeps ==
  ASSUME IInv, NEW o \in Ops, RecoverOrphan(o)
  PROVE  IInv'
<1>1. Works(o, "orphan", proc.arg) /\ proc.o = o
  BY AtWork, Names DEF RecoverOrphan, Running
<1>2. /\ receipt[o] = "none" /\ op[o] \in Pending /\ op[o] # "awaiting_approval"
      /\ UNCHANGED <<asked, attempts, hint, proof, receipt, row, buyer, stops, world>>
      /\ GotoWith("finish", "none")
  BY <1>1, Names DEF Works, RecoverOrphan, Goto
<1>3. /\ op' = op /\ op' = [op EXCEPT ![o] = op[o]]
      /\ result' \in [Ops -> {"none", "file", "linked"}] /\ Only(o, result, result')
      /\ result'[o] # "file" /\ (result'[o] = result[o] \/ op[o] \notin Unsent)
  <2>1. CASE result[o] = "file"
    <3>1. /\ op' = [op EXCEPT ![o] = op[o]]
          /\ result' = [result EXCEPT ![o] = "linked"]
      BY <2>1 DEF RecoverOrphan, Record
    <3>2. op[o] \notin Unsent
      BY <2>1, Typed DEF RecordFits
    <3> QED BY <3>1, <3>2 DEF Only, IInv, TypeOK
  <2>2. CASE result[o] # "file"
    BY <2>2 DEF RecoverOrphan, Only, IInv, TypeOK
  <2> QED BY <2>1, <2>2
<1>4. proc' \in Procs /\ proc'.at = "finish" /\ proc'.o = o /\ proc'.arg = "none"
  BY <1>1, <1>2, Went, Typed, Names DEF Args
<1>5. Works(o, "finish", "none")'
  BY <1>2, <1>3, Names DEF Works
<1>6. ProcFits'
  BY <1>4, <1>5, WillWork, Names
<1>7. /\ proof' \in [Ops -> {"none", "state", "matched", "unused"}]
      /\ Only(o, proof, proof') /\ proof[o] \in {"none", proof'[o]}
      /\ asked' \in [Ops -> 0 .. 2] /\ hint' \in [Ops -> {"none", "true", "false"}]
      /\ SamePurposes(o)
  BY <1>2, Unattempted DEF IInv, TypeOK, Only
<1>8. /\ Shown(o)' => Proven(o)
      /\ proof'[o] = "unused" => ProvablyUnused(o)
      /\ op[o] = "recovering" => Shown(o)'
  BY <1>2, Typed DEF WorldFits, RecordFits, Shown
<1> QED BY <1>2, <1>3, <1>4, <1>6, <1>7, <1>8, RecordKeeps

LEMMA FinishKeeps ==
  ASSUME IInv, NEW o \in Ops, Finish(o)
  PROVE  IInv'
<1> DEFINE s == Finished(o)
<1>1. /\ proc.o = o /\ proc.at \in DOMAIN AfterFinish
      /\ UNCHANGED <<asked, evidence, receipt, row, buyer, stops, world>>
  BY DEF Finish
<1>2. Works(o, proc.at, proc.arg)
  BY <1>1, AtWork, Names DEF Running
<1>3. /\ receipt[o] = "none" /\ op[o] \in Pending /\ op[o] # "awaiting_approval"
      /\ result[o] # "file"
  BY <1>1, <1>2, Names DEF Works
<1>4. CASE s \in Terminal
  <2>1. GotoWith("receipt", s) /\ UNCHANGED <<disk, buyer, stops, world>>
    BY <1>1, <1>4 DEF Finish, disk
  <2>2. Claim(o, s) /\ s # "failed_before_effect"
    BY <1>3, <1>4, Typed, Names DEF Finished, Claim, Shown
  <2>3. Ends(o, s)
    BY <1>3, <1>4, <2>2 DEF Ends
  <2> QED BY <1>1, <1>4, <2>1, <2>3, GoesOn, Names DEF Args
<1>5. CASE s \notin Terminal
  <2>1. /\ s = op[o] \/ (s = "recovering" /\ Shown(o) /\ Legal(op[o], s))
        /\ op' = [op EXCEPT ![o] = s]
    <3>1. CASE s = op[o]
      BY <1>5, <3>1 DEF Finish, IInv, TypeOK
    <3>2. CASE s # op[o]
      <4>1. s = "recovering" /\ Shown(o)
        BY <1>5, <3>2, Typed, Names DEF Finished, Shown
      <4> QED BY <1>5, <3>2, <4>1 DEF Finish, Record
    <3> QED BY <3>1, <3>2
  <2>2. s \in Pending /\ s # "awaiting_approval" /\ (s = "recovering" => Shown(o))
    BY <1>3, <2>1, Typed, Names DEF RecordFits
  <2>3. proof[o] # "none" => result[o] = "none"
    BY <1>3, <1>5, Typed, Names DEF Finished
  <2> HIDE DEF s
  <2>4. /\ op'[o] = s /\ asked' \in [Ops -> 0 .. 2]
        /\ hint' \in [Ops -> {"none", "true", "false"}] /\ SamePurposes(o)
        /\ UNCHANGED <<proof, result, receipt, attempts>>
    BY <1>1, <2>1, Unattempted DEF IInv, TypeOK, evidence
  <2>5. PICK step \in {"read", "act", "act_unused", "follow"} : GotoWith(step, "none")
    BY <1>1, <1>5, Names DEF Finish, s, Goto
  <2>6. proc' \in Procs /\ proc'.at = step /\ proc'.o = o /\ proc'.arg = "none"
    BY <1>1, <2>5, Went, Typed, Names DEF Args
  <2>7. step # "follow" => Works(o, step, "none")'
    BY <1>3, <2>2, <2>3, <2>4, Names DEF Works
  <2>8. ProcFits'
    BY <2>6, <2>7, WillWork, Names
  <2> QED BY <1>1, <1>3, <2>1, <2>2, <2>4, <2>6, <2>8, TurnKeeps DEF evidence
<1> QED BY <1>4, <1>5

LEMMA ProveKeeps ==
  ASSUME IInv, NEW o \in Ops, Running("read", o), proof[o] = "none",
         NEW s \in {"effect_unknown", op[o]}, NEW p \in {"state", "matched", "unused"},
         NEW next \in {"finish_read", "finish_unused"}, Prove(o, s, p, next),
         p \in {"state", "matched"} => Proven(o), p = "unused" => ProvablyUnused(o)
  PROVE  IInv'
<1>1. Works(o, "read", proc.arg) /\ proc.o = o
  BY AtWork, Names DEF Running
<1>2. /\ receipt[o] = "none" /\ op[o] \in Pending /\ op[o] # "awaiting_approval"
      /\ result[o] # "file" /\ op[o] # "recovering"
      /\ UNCHANGED <<asked, attempts, hint, result, receipt, row, buyer, stops, world>>
  BY <1>1, Typed, Names DEF Works, Prove, RecordFits, Shown
<1>3. CASE ~Legal(op[o], s)
  <2>1. proc' = Idle /\ UNCHANGED <<disk, buyer, world>> /\ stops' \in 0 .. MaxStops
    BY <1>2, <1>3 DEF Prove, disk, evidence, IInv, TypeOK
  <2> QED BY <2>1, Idles, StepKeeps
<1>4. CASE Legal(op[o], s)
  <2>1. /\ op' = [op EXCEPT ![o] = s] /\ proof' = [proof EXCEPT ![o] = p]
        /\ GotoWith(next, "none")
    BY <1>4 DEF Prove, Goto
  <2>2. /\ proof' \in [Ops -> {"none", "state", "matched", "unused"}]
        /\ Only(o, proof, proof') /\ proof'[o] = p /\ op'[o] = s
        /\ result' \in [Ops -> {"none", "file", "linked"}]
        /\ Only(o, result, result') /\ result'[o] = result[o]
        /\ asked' \in [Ops -> 0 .. 2] /\ hint' \in [Ops -> {"none", "true", "false"}]
        /\ SamePurposes(o)
    BY <1>2, <2>1, Unattempted DEF IInv, TypeOK, Only
  <2>3. s \in Pending /\ s # "awaiting_approval" /\ s # "recovering"
    BY <1>2, Names
  <2>4. proc' \in Procs /\ proc'.at = next /\ proc'.o = o /\ proc'.arg = "none"
    BY <1>1, <2>1, Went, Typed, Names DEF Args
  <2>5. Works(o, next, "none")'
    BY <1>2, <2>2, <2>3, Names DEF Works
  <2>6. ProcFits'
    BY <2>4, <2>5, WillWork, Names
  <2>7. (Shown(o)' => Proven(o)) /\ (proof'[o] = "unused" => ProvablyUnused(o))
    BY <2>2 DEF Shown
  <2> QED BY <1>2, <1>4, <2>1, <2>2, <2>3, <2>4, <2>6, <2>7, RecordKeeps
<1> QED BY <1>3, <1>4

LEMMA ReconciliationKeeps ==
  ASSUME IInv, NEW o \in Ops, Reconciliation(o)
  PROVE  IInv'
<1>1. CASE ReadUsed(o)
  <2>1. PICK p \in {"state", "matched"} :
          Prove(o, IF op[o] = "authorized_not_sent" THEN "effect_unknown"
                   ELSE op[o], p, "finish_read")
    BY <1>1 DEF ReadUsed
  <2>2. Proven(o) /\ Running("read", o) /\ proof[o] = "none"
    BY <1>1 DEF ReadUsed, Proven
  <2>3. \A s \in {"effect_unknown", op[o]} : Prove(o, s, p, "finish_read") => IInv'
    BY <2>2, ProveKeeps
  <2> QED BY <2>1, <2>3
<1>2. CASE ReadNeverUsed(o)
  BY <1>2, ProveKeeps DEF ReadNeverUsed
<1>3. CASE ReadNothing(o)
  <2>1. Works(o, "read", proc.arg) /\ proc.o = o
    BY <1>3, AtWork, Names DEF ReadNothing, Running
  <2>2. \A step \in {"finish_read", "finish_unused"} : Works(o, step, "none")
    BY <2>1, Names DEF Works
  <2>3. PICK step \in {"finish_read", "finish_unused", "follow"} : Step(o, step)
    BY <1>3 DEF ReadNothing
  <2> QED BY <2>1, <2>2, <2>3, GoesOn, Names DEF Step, Goto, Args
<1> QED BY <1>1, <1>2, <1>3, RecoverOrphanKeeps, FinishKeeps DEF Reconciliation

-----------------------------------------------------------------------------
LEMMA ActKeeps ==
  ASSUME IInv, NEW o \in Ops, Act(o)
  PROVE  IInv'
<1>1. /\ Works(o, proc.at, proc.arg) /\ proc.o = o /\ proc.at \in {"act", "act_unused"}
  BY AtWork, Names DEF Act, Running
<1>2. /\ receipt[o] = "none" /\ op[o] \in Pending /\ op[o] # "awaiting_approval"
      /\ result[o] # "file" /\ (proof[o] # "none" => result[o] = "none")
  BY <1>1, Names DEF Works
<1>3. CASE Terminate(o, "failed_settled_without_result") /\ op[o] = "recovering"
  <2>1. Ends(o, "failed_settled_without_result")
    BY <1>2, <1>3, Typed, Names DEF Ends, Claim, RecordFits, Shown
  <2> QED BY <1>1, <1>3, <2>1, GoesOn, Names DEF Terminate, Args
<1>4. CASE Step(o, "follow")
  BY <1>1, <1>4, GoesOn, Names DEF Step, Goto, Args
<1>5. CASE Due(o) # "none" /\ GotoWith("send", Due(o)) /\ UNCHANGED <<disk, buyer, stops, world>>
  <2>1. Works(o, "send", Due(o)) /\ Due(o) \in Args
    BY <1>2, <1>5, Names DEF Works, Due, MayResend, Args
  <2> QED BY <1>1, <1>5, <2>1, GoesOn, Names
<1> QED BY <1>3, <1>4, <1>5 DEF Act

(* A payment comes before the recovery, which is the last attempt.          *)
LEMMA Attempted ==
  ASSUME IInv, NEW o \in Ops, NEW purpose \in {"payment", "result_recovery"},
         Works(o, "send", purpose),
         attempts' = [attempts EXCEPT ![o] =
           Append(@, [purpose |-> purpose, phase |-> "pending"])]
  PROVE  /\ attempts' \in [Ops -> Seq(Attempts)] /\ Only(o, attempts, attempts')
         /\ attempts'[o] # <<>> /\ Marked(o)' /\ AttemptsFit(o)'
         /\ Tried(o, "result_recovery")' => Shown(o)
<1> DEFINE a == [purpose |-> purpose, phase |-> "pending"]
           n == Len(attempts[o])
           q == Append(attempts[o], a)
<1>1. a \in Attempts /\ a.purpose = purpose /\ a.phase = "pending"
  BY DEF Attempts
<1>2. attempts' = [attempts EXCEPT ![o] = q] /\ attempts \in [Ops -> Seq(Attempts)]
  BY DEF IInv, TypeOK
<1> HIDE DEF a
<1>3. /\ q \in Seq(Attempts) /\ n \in Nat /\ Len(q) = n + 1 /\ q # <<>>
      /\ q[n + 1] = a /\ DOMAIN q = 1 .. (n + 1)
      /\ \A k \in 1 .. n : q[k] = attempts[o][k]
      /\ DOMAIN attempts[o] = 1 .. n
  BY <1>1, <1>2
<1> HIDE DEF q
<1>4. attempts'[o] = q /\ attempts' \in [Ops -> Seq(Attempts)] /\ Only(o, attempts, attempts')
  BY <1>2, <1>3 DEF Only
<1>5. Marked(o)' /\ attempts'[o] # <<>>
  BY <1>1, <1>3, <1>4 DEF Marked, Last
<1>6. PICK m \in 0 .. 2 :
        /\ n \in {m, m + 1}
        /\ \A k \in 1 .. n :
             attempts[o][k].purpose = IF k <= m THEN "payment" ELSE "result_recovery"
  BY Typed DEF RecordFits, AttemptsFit
<1>7. op[o] \in Unsent => n = 0
  BY <1>2, Typed DEF RecordFits
<1>8. Tried(o, "result_recovery") <=> n = m + 1
  BY <1>3, <1>6 DEF Tried, Tries
<1>9. CASE purpose = "payment"
  <2>1. n \in {0, 1} /\ n = m
    BY <1>6, <1>7, <1>8, <1>9, Typed, Names DEF Works, RecordFits, Shown
  <2>2. AttemptsFit(o)'
    <3>1. /\ n + 1 \in 0 .. 2 /\ Len(attempts'[o]) = n + 1
          /\ \A k \in 1 .. (n + 1) : attempts'[o][k].purpose = "payment"
      BY <1>1, <1>3, <1>4, <1>6, <1>9, <2>1
    <3> QED BY <3>1 DEF AttemptsFit
  <2>3. ~Tried(o, "result_recovery")'
    BY <1>1, <1>3, <1>4, <1>6, <1>9, <2>1 DEF Tried, Tries
  <2> QED BY <1>4, <1>5, <2>2, <2>3
<1>10. CASE purpose = "result_recovery"
  <2>1. op[o] = "recovering" /\ n = m
    BY <1>6, <1>8, <1>10, Names DEF Works
  <2>2. AttemptsFit(o)'
    <3>1. /\ Len(attempts'[o]) = m + 1
          /\ \A k \in 1 .. (m + 1) : attempts'[o][k].purpose
               = IF k <= m THEN "payment" ELSE "result_recovery"
      BY <1>1, <1>3, <1>4, <1>6, <1>10, <2>1
    <3> QED BY <3>1 DEF AttemptsFit
  <2>3. Shown(o)
    BY <2>1, Typed DEF RecordFits
  <2> QED BY <1>4, <1>5, <2>2, <2>3
<1> QED BY <1>9, <1>10

LEMMA BeginAttemptKeeps ==
  ASSUME IInv, NEW o \in Ops, BeginAttempt(o)
  PROVE  IInv'
<1>1. Works(o, "send", proc.arg) /\ proc.o = o /\ proc.arg \in {"payment", "result_recovery"}
  <2>1. Works(o, "send", proc.arg) /\ proc.o = o
    BY AtWork, Names DEF BeginAttempt, Running
  <2> QED BY <2>1, Names DEF Works
<1> DEFINE s == IF proc.arg = "payment" THEN "paid_request_pending" ELSE "recovering"
<1>2. /\ attempts' = [attempts EXCEPT ![o] =
           Append(@, [purpose |-> proc.arg, phase |-> "pending"])]
      /\ op' = [op EXCEPT ![o] = s] /\ GotoWith("http", "none")
      /\ UNCHANGED <<asked, hint, proof, result, receipt, row, buyer, stops, world>>
  BY DEF BeginAttempt, Record
<1>3. /\ receipt[o] = "none" /\ op[o] \in Pending \ Unsigned
      /\ result[o] # "file" /\ (proof[o] # "none" => result[o] = "none")
      /\ s = "recovering" => op[o] = "recovering"
  BY <1>1, Names DEF Works
<1>4. s \in {"paid_request_pending", "recovering"}
  OBVIOUS
<1> HIDE DEF s
<1>5. /\ attempts' \in [Ops -> Seq(Attempts)] /\ Only(o, attempts, attempts')
      /\ attempts'[o] # <<>> /\ Marked(o)' /\ AttemptsFit(o)'
      /\ Tried(o, "result_recovery")' => Shown(o)
  BY <1>1, <1>2, Attempted
<1>6. /\ op' \in [Ops -> Pending \cup Terminal \cup {"none"}]
      /\ op'[o] = s /\ Only(o, op, op')
  BY <1>2, <1>4, Names DEF IInv, TypeOK, Only
<1>7. proc' \in Procs /\ proc'.at = "http" /\ proc'.o = o /\ proc'.arg = "none"
  BY <1>1, <1>2, Went, Typed, Names DEF Args
<1>8. TypeOK' /\ Alone(o)
  BY <1>2, <1>5, <1>6, <1>7 DEF IInv, TypeOK, Procs, Alone, Only, world
<1>9. WorldFits(o) /\ RecordFits(o) /\ ReceiptFits(o) /\ RowFits(o)
  BY Typed
<1>10. WorldFits(o)'
  BY <1>2, <1>4, <1>5, <1>6, <1>9, Names
     DEF WorldFits, Out, Shown, Proven, ProvablyUnused, world
<1>11. RecordFits(o)'
  <2>1. op'[o] \notin Unsent
    BY <1>4, <1>6, Names
  <2>2. op'[o] = "recovering" \/ Tried(o, "result_recovery")' => Shown(o)'
    BY <1>2, <1>3, <1>5, <1>6, <1>9 DEF RecordFits, Shown
  <2> QED BY <1>5, <2>1, <2>2, Names DEF RecordFits
<1>12. ReceiptFits(o)'
  BY <1>2, <1>3, <1>4, <1>6, Names DEF ReceiptFits
<1>13. RowFits(o)'
  BY <1>2, <1>3, <1>4, <1>6, <1>9, Names DEF RowFits, Shown
<1>14. Works(o, "http", "none")'
  BY <1>2, <1>3, <1>4, <1>5, <1>6, Names DEF Works
<1>15. ProcFits'
  BY <1>7, <1>14, WillWork, Names
<1> QED BY <1>8, <1>10, <1>11, <1>12, <1>13, <1>15, ActionKeeps DEF Fits

LEMMA HttpKeeps ==
  ASSUME IInv, NEW o \in Ops, Http(o)
  PROVE  IInv'
<1>1. Works(o, "http", proc.arg) /\ proc.o = o
  BY AtWork, Names DEF Http, Running
<1>2. /\ receipt[o] = "none" /\ op[o] \in Pending /\ op[o] # "awaiting_approval"
      /\ result[o] # "file" /\ (proof[o] # "none" => result[o] = "none")
      /\ Marked(o) /\ attempts[o] # <<>>
  BY <1>1, Names DEF Works, Marked
<1>3. PICK a \in Answers : proc' = [proc EXCEPT !.at = "answered", !.answer = a]
  <2>1. NoAnswer \in Answers
    BY DEF Answers
  <2> QED BY <2>1 DEF Http
<1>4. /\ exposed' \in {exposed, exposed \cup {o}}
      /\ UNCHANGED <<op, asked, attempts, hint, proof, result, receipt, row, buyer, stops,
                     leaked, settled, late, expired>>
  BY DEF Http, disk, evidence
<1>5. proc' \in Procs /\ proc'.at = "answered" /\ proc'.o = o /\ proc'.arg = proc.arg
  BY <1>1, <1>3, Typed, Names DEF Procs
<1>6. TypeOK' /\ Alone(o)
  BY <1>4, <1>5 DEF IInv, TypeOK, Procs, Alone
<1>7. WorldFits(o) /\ RecordFits(o) /\ ReceiptFits(o) /\ RowFits(o)
  BY Typed
<1>8. op[o] \notin Unsent
  BY <1>2, <1>7 DEF RecordFits
<1>9. WorldFits(o)'
  BY <1>2, <1>4, <1>7, <1>8, Names DEF WorldFits, Out, Shown, Proven, ProvablyUnused
<1>10. RecordFits(o)' /\ RowFits(o)'
  BY <1>4, <1>7 DEF RecordFits, RowFits, Shown, AttemptsFit, Tried, Tries
<1>11. ReceiptFits(o)'
  BY <1>2, <1>4, Names DEF ReceiptFits
<1>12. Works(o, "answered", proc.arg)'
  BY <1>2, <1>4, Names DEF Works, Marked, Last
<1>13. ProcFits'
  BY <1>3, <1>5, <1>12, Names DEF ProcFits, Works, Marked, Last
<1> QED BY <1>6, <1>9, <1>10, <1>11, <1>13, ActionKeeps DEF Fits

LEMMA AtAnswer ==
  ASSUME IInv, NEW o \in Ops, Running("answered", o)
  PROVE  /\ receipt[o] = "none" /\ op[o] \in Pending /\ op[o] # "awaiting_approval"
         /\ result[o] # "file" /\ (proof[o] # "none" => result[o] = "none")
         /\ attempts[o] # <<>> /\ op[o] \notin Unsent /\ proc.o = o
         /\ ~Paying(o) => Shown(o)
<1>1. Works(o, "answered", proc.arg)
  BY AtWork, Names
<1>2. attempts[o] \in Seq(Attempts) /\ attempts[o] # <<>> /\ RecordFits(o)
  BY <1>1, Typed, Names DEF Works, Marked
<1>3. /\ Len(attempts[o]) \in DOMAIN attempts[o]
      /\ Last(o).purpose \in {"payment", "result_recovery"}
  <2>1. Len(attempts[o]) \in DOMAIN attempts[o] /\ Last(o) \in Attempts
    BY <1>2 DEF Last
  <2> QED BY <2>1 DEF Attempts
<1>4. ~Paying(o) => Shown(o)
  BY <1>2, <1>3 DEF Paying, Last, Tried, Tries, RecordFits
<1> QED BY <1>1, <1>2, <1>4, Names DEF Works, Running, RecordFits

(* An answer gives the marker its outcome and the record its next state.    *)
LEMMA AnswerKeeps ==
  ASSUME IInv, NEW o \in Ops, Running("answered", o),
         NEW s \in {"effect_unknown", "settlement_pending", "recovering"},
         Record(o, s), s = "recovering" => ~Paying(o), Outcome(o, "observed") \/ Outcome(o, "ambiguous"),
         hint' \in [Ops -> {"none", "true", "false"}],
         \/ Goto("follow") \/ Goto("keep")
         \/ ~Paying(o) /\ GotoWith("receipt", "failed_settled_without_result"),
         UNCHANGED <<asked, proof, result, receipt, row, buyer, stops, world>>
  PROVE  IInv'
<1>1. /\ receipt[o] = "none" /\ op[o] \in Pending /\ op[o] # "awaiting_approval"
      /\ result[o] # "file" /\ (proof[o] # "none" => result[o] = "none")
      /\ attempts[o] # <<>> /\ proc.o = o /\ (~Paying(o) => Shown(o))
  BY AtAnswer
<1>2. /\ op' = [op EXCEPT ![o] = s] /\ op'[o] = s /\ SamePurposes(o)
      /\ attempts'[o] # <<>> /\ asked' \in [Ops -> 0 .. 2]
  BY <1>1, Outcomes, SameTries DEF Record, IInv, TypeOK
<1>3. s \in Pending /\ s # "awaiting_approval" /\ Legal(op[o], s)
  BY Names DEF Record
<1>4. PICK step \in {"follow", "keep", "receipt"}, arg \in Args :
        /\ GotoWith(step, arg)
        /\ step = "receipt" => ~Paying(o) /\ arg = "failed_settled_without_result"
  BY Names DEF Goto, Args
<1>5. proc' \in Procs /\ proc'.at = step /\ proc'.o = o /\ proc'.arg = arg
  BY <1>1, <1>4, Went, Typed, Names
<1>6. step = "receipt" => Ends(o, arg)'
  BY <1>1, <1>2, <1>3, <1>4, Names DEF Ends, Claim, Shown
<1>7. step = "keep" => Works(o, step, arg)'
  BY <1>1, <1>2, <1>3, Names DEF Works
<1>8. ProcFits'
  BY <1>5, <1>6, <1>7, WillWork, Names
<1> QED BY <1>1, <1>2, <1>3, <1>5, <1>8, TurnKeeps

LEMMA AnsweredKeeps ==
  ASSUME IInv, NEW o \in Ops,
         AnsweredNothing(o) \/ AnsweredNoHeader(o) \/ AnsweredConflict(o) \/ AnsweredHeader(o)
  PROVE  IInv'
<1>1. Running("answered", o) /\ hint \in [Ops -> {"none", "true", "false"}]
  BY DEF AnsweredNothing, AnsweredNoHeader, AnsweredConflict, AnsweredHeader, Answered,
         IInv, TypeOK
<1>2. /\ AfterPaying("effect_unknown", o) \in {"effect_unknown", "recovering"}
      /\ AfterPaying("settlement_pending", o) \in {"settlement_pending", "recovering"}
      /\ Paying(o) => /\ AfterPaying("effect_unknown", o) # "recovering"
                      /\ AfterPaying("settlement_pending", o) # "recovering"
  BY DEF AfterPaying
<1>3. ASSUME NEW phase \in {"observed", "ambiguous"},
             Observed(o, phase, AfterPaying("effect_unknown", o))
      PROVE  IInv'
  <2>1. \/ Goto("follow")
        \/ ~Paying(o) /\ GotoWith("receipt", "failed_settled_without_result")
    BY <1>3 DEF Observed
  <2> QED BY <1>1, <1>2, <1>3, <2>1, AnswerKeeps DEF Observed
<1>4. CASE AnsweredNothing(o)
  BY <1>3, <1>4 DEF AnsweredNothing
<1>5. CASE AnsweredNoHeader(o)
  <2>1. CASE proc.answer.body /\ hint[o] = "none"
    BY <1>1, <1>2, <1>5, <2>1, AnswerKeeps DEF AnsweredNoHeader
  <2>2. CASE ~(proc.answer.body /\ hint[o] = "none")
    BY <1>3, <1>5, <2>2 DEF AnsweredNoHeader
  <2> QED BY <2>1, <2>2
<1>6. CASE AnsweredConflict(o)
  BY <1>1, <1>6, AnswerKeeps DEF AnsweredConflict
<1>7. CASE AnsweredHeader(o)
  <2>1. UNCHANGED <<asked, proof, result, receipt, row, buyer, stops, world>>
    BY <1>7 DEF AnsweredHeader
  <2>2. CASE ~Replaceable(o)
    <3>1. /\ proc' = Idle /\ UNCHANGED <<disk, buyer, world>> /\ stops' \in 0 .. MaxStops
      BY <1>7, <2>1, <2>2 DEF AnsweredHeader, disk, evidence, IInv, TypeOK
    <3> QED BY <3>1, Idles, StepKeeps
  <2>3. CASE Replaceable(o)
    <3>1. /\ Record(o, AfterPaying("settlement_pending", o)) /\ Outcome(o, "observed")
          /\ hint' = [hint EXCEPT ![o] = proc.answer.names]
          /\ proc.answer.names \in {"true", "false"}
      BY <1>7, <2>3 DEF AnsweredHeader, Answered
    <3>2. \/ Goto("follow") \/ Goto("keep")
          \/ ~Paying(o) /\ GotoWith("receipt", "failed_settled_without_result")
      <4>1. CASE proc.answer.body
        BY <1>7, <2>3, <4>1 DEF AnsweredHeader
      <4>2. CASE ~proc.answer.body /\ Paying(o)
        BY <1>7, <2>3, <4>2 DEF AnsweredHeader
      <4>3. CASE ~proc.answer.body /\ ~Paying(o)
        BY <1>7, <2>3, <4>3 DEF AnsweredHeader
      <4> QED BY <4>1, <4>2, <4>3
    <3>3. hint' \in [Ops -> {"none", "true", "false"}]
      BY <1>1, <3>1
    <3> QED BY <1>1, <1>2, <2>1, <3>1, <3>2, <3>3, AnswerKeeps
  <2> QED BY <2>2, <2>3
<1> QED BY <1>4, <1>5, <1>6, <1>7

LEMMA ResultKeeps ==
  ASSUME IInv, NEW o \in Ops, KeepResult(o) \/ LinkResult(o)
  PROVE  IInv'
<1>1. PICK at \in {"keep", "link"} :
        /\ Running(at, o)
        /\ Goto(IF at = "keep" THEN "link" ELSE "finish_end")
        /\ result' = [result EXCEPT ![o] = IF at = "keep" THEN "file" ELSE "linked"]
        /\ op' = [op EXCEPT ![o] = op[o]]
        /\ UNCHANGED <<asked, attempts, hint, proof, receipt, row, buyer, stops, world>>
  <2>1. CASE KeepResult(o)
    <3>1. op' = [op EXCEPT ![o] = op[o]]
      BY <2>1 DEF KeepResult, IInv, TypeOK
    <3> QED BY <2>1, <3>1 DEF KeepResult
  <2>2. CASE LinkResult(o)
    BY <2>2 DEF LinkResult, Record
  <2> QED BY <2>1, <2>2
<1>2. Works(o, at, proc.arg) /\ proc.o = o
  BY <1>1, AtWork, Names DEF Running
<1>3. /\ receipt[o] = "none" /\ op[o] \in Pending /\ op[o] # "awaiting_approval"
      /\ attempts[o] # <<>> /\ op[o] \notin Unsent
  BY <1>2, Typed, Names DEF Works, RecordFits
<1> DEFINE step == IF at = "keep" THEN "link" ELSE "finish_end"
<1>4. /\ GotoWith(step, "none") /\ step \in {"link", "finish_end"}
      /\ result' \in [Ops -> {"none", "file", "linked"}] /\ Only(o, result, result')
      /\ step = "finish_end" => result'[o] # "file"
  BY <1>1 DEF Goto, IInv, TypeOK, Only
<1> HIDE DEF step
<1>5. proc' \in Procs /\ proc'.at = step /\ proc'.o = o /\ proc'.arg = "none"
  BY <1>2, <1>4, Went, Typed, Names DEF Args
<1>6. op'[o] = op[o]
  BY <1>1 DEF IInv, TypeOK
<1>7. Works(o, step, "none")'
  BY <1>1, <1>3, <1>4, <1>6, Names DEF Works
<1>8. ProcFits'
  BY <1>4, <1>5, <1>7, WillWork, Names
<1>9. /\ proof' \in [Ops -> {"none", "state", "matched", "unused"}]
      /\ Only(o, proof, proof') /\ proof[o] \in {"none", proof'[o]}
      /\ asked' \in [Ops -> 0 .. 2] /\ hint' \in [Ops -> {"none", "true", "false"}]
      /\ SamePurposes(o)
  BY <1>1, Unattempted DEF IInv, TypeOK, Only
<1>10. /\ Shown(o)' => Proven(o)
       /\ proof'[o] = "unused" => ProvablyUnused(o)
       /\ op[o] = "recovering" => Shown(o)'
  BY <1>1, Typed DEF WorldFits, RecordFits, Shown
<1> QED BY <1>1, <1>3, <1>4, <1>5, <1>8, <1>9, <1>10, RecordKeeps

LEMMA RequestKeeps ==
  ASSUME IInv, NEW o \in Ops, Request(o)
  PROVE  IInv'
<1>1. CASE SendTooLate(o)
  BY <1>1, GoesOn, Names DEF SendTooLate, Step, Goto, Args, Running
<1> QED BY <1>1, ActKeeps, BeginAttemptKeeps, HttpKeeps, AnsweredKeeps, ResultKeeps
        DEF Request

-----------------------------------------------------------------------------
LEMMA WriteReceiptKeeps ==
  ASSUME IInv, NEW o \in Ops, WriteReceipt(o)
  PROVE  IInv'
<1>1. Ends(o, proc.arg) /\ proc.o = o
  BY AtWork, Names DEF WriteReceipt, Running
<1>2. CASE receipt[o] \notin {"none", proc.arg}
  <2>1. proc' = Idle /\ UNCHANGED <<disk, buyer, world>> /\ stops' \in 0 .. MaxStops
    BY <1>2 DEF WriteReceipt, disk, IInv, TypeOK
  <2> QED BY <2>1, Idles, StepKeeps
<1>3. CASE receipt[o] \in {"none", proc.arg}
  <2>1. /\ receipt' = [receipt EXCEPT ![o] = proc.arg] /\ GotoWith("close", "none")
        /\ UNCHANGED <<op, asked, attempts, hint, proof, result, row, buyer, stops,
                       exposed, leaked, settled, late, expired>>
    BY <1>3 DEF WriteReceipt, Goto, evidence, world
  <2>2. proc.arg \in Terminal
    BY <1>1 DEF Ends
  <2>3. /\ receipt' \in [Ops -> Terminal \cup {"none"}] /\ receipt'[o] = proc.arg
        /\ Only(o, receipt, receipt')
    BY <2>1, <2>2 DEF IInv, TypeOK, Only
  <2>4. proc' \in Procs /\ proc'.at = "close" /\ proc'.o = o /\ proc'.arg = "none"
    BY <1>1, <2>1, Went, Typed, Names DEF Args
  <2>5. TypeOK' /\ Alone(o)
    BY <2>1, <2>3, <2>4 DEF IInv, TypeOK, Procs, Alone, Only
  <2>6. WorldFits(o) /\ RecordFits(o) /\ ReceiptFits(o) /\ RowFits(o)
    BY Typed
  <2>7. WorldFits(o)' /\ RecordFits(o)' /\ RowFits(o)'
    BY <2>1, <2>6 DEF WorldFits, RecordFits, RowFits, Out, Shown, Proven,
           ProvablyUnused, AttemptsFit, Tried, Tries
  <2>8. ReceiptFits(o)'
    BY <1>1, <2>1, <2>3, Names DEF ReceiptFits, Ends, Claim, Shown, Out
  <2>9. ProcFits'
    BY <2>2, <2>3, <2>4, WillWork, Names
  <2> QED BY <2>5, <2>7, <2>8, <2>9, ActionKeeps DEF Fits
<1> QED BY <1>2, <1>3

LEMMA CloseKeeps ==
  ASSUME IInv, NEW o \in Ops, Close(o)
  PROVE  IInv'
<1>1. receipt[o] # "none" /\ proc.o = o
  BY AtWork, Names DEF Close, Running
<1>2. /\ op' = [op EXCEPT ![o] = receipt[o]] /\ op[o] \in Pending
      /\ UNCHANGED <<asked, attempts, hint, proof, result, receipt, row, buyer, stops,
                     exposed, leaked, settled, late, expired>>
  BY LegalOnly DEF Close, Record, evidence, world
<1>3. receipt[o] \in Terminal
  BY <1>1, Typed
<1>4. /\ op' \in [Ops -> Pending \cup Terminal \cup {"none"}] /\ op'[o] = receipt[o]
      /\ Only(o, op, op')
  BY <1>2, <1>3 DEF IInv, TypeOK, Only
<1>5. proc' \in Procs /\ ProcFits'
  <2>1. CASE proc' = Idle
    BY <2>1, Idles
  <2>2. CASE GotoWith("follow", "none")
    <3>1. proc' \in Procs /\ proc'.at = "follow" /\ proc'.o = o
      BY <1>1, <2>2, Went, Typed, Names DEF Args
    <3> QED BY <3>1 DEF ProcFits
  <2> QED BY <2>1, <2>2 DEF Close, Goto
<1>6. TypeOK' /\ Alone(o)
  BY <1>2, <1>4, <1>5 DEF IInv, TypeOK, Procs, Alone, Only
<1>7. WorldFits(o) /\ RecordFits(o) /\ ReceiptFits(o) /\ RowFits(o)
  BY Typed
<1>8. WorldFits(o)'
  BY <1>1, <1>2, <1>3, <1>4, <1>7, Names
     DEF WorldFits, ReceiptFits, Claim, Out, Shown, Proven, ProvablyUnused
<1>9. RecordFits(o)'
  <2>1. op'[o] \notin Unsent /\ op'[o] # "recovering"
    BY <1>3, <1>4, Names
  <2>2. AttemptsFit(o)' /\ (Tried(o, "result_recovery")' <=> Tried(o, "result_recovery"))
    BY <1>2, <1>7, Unattempted, SameTries DEF RecordFits
  <2>3. Tried(o, "result_recovery")' => Shown(o)'
    BY <1>2, <1>7, <2>2 DEF RecordFits, Shown
  <2> QED BY <2>1, <2>2, <2>3, Names DEF RecordFits
<1>10. ReceiptFits(o)'
  BY <1>2, <1>3, <1>4, <1>7, Names DEF ReceiptFits, Claim, Shown, Out
<1>11. RowFits(o)'
  BY <1>1, <1>2, <1>3, <1>4, <1>7, Names DEF RowFits, ReceiptFits, Shown
<1> QED BY <1>5, <1>6, <1>8, <1>9, <1>10, <1>11, ActionKeeps DEF Fits

LEMMA Targets ==
  ASSUME NEW s
  PROVE  /\ Target(s) \in Rows \ {"reserved"}
         /\ s \in {"none", "awaiting_approval"} => Target(s) = "none"
         /\ Target(s) = "finalized" =>
              s \in {"recovering", "completed", "failed_settled_without_result",
                     "abandoned_unknown"}
         /\ Target(s) = "failed_before_effect" => s = "failed_before_effect"
         /\ Target(s) = "released_unsubmitted" => s = "failed_expired_unused"
         /\ s \in Unsent => Target(s) = "none"
BY DEF Target, Rows, Unsent, Unsigned

(* A hold that is charged has its evidence, and so has one that the owner   *)
(* did not give up by hand.                                                 *)
LEMMA FollowKeeps ==
  ASSUME IInv, NEW o \in Ops, Follow(o)
  PROVE  IInv'
<1> DEFINE r == IF Lags(o) THEN TransitionTo(row[o], Target(op[o])) ELSE row[o]
<1>1. /\ row' = [row EXCEPT ![o] = r] /\ Running("follow", o)
      /\ proc' = Idle \/ proc' = proc
      /\ UNCHANGED <<op, asked, evidence, receipt, buyer, stops, world>>
  BY DEF Follow
<1>2. WorldFits(o) /\ RecordFits(o) /\ ReceiptFits(o) /\ RowFits(o) /\ row[o] \in Rows
  BY Typed
<1>3. r \in Rows /\ row'[o] = r
  BY <1>1, <1>2, Targets DEF IInv, TypeOK, TransitionTo, Rows
<1>4. ProcFits' /\ proc' \in Procs
  BY <1>1, Idles DEF IInv, ProcFits, Running, TypeOK, Procs
<1>5. CASE Lags(o)
  <2>1. /\ row[o] # "none" /\ r # "none" /\ Target(op[o]) # "none"
        /\ \/ r = Target(op[o])
           \/ r = "unknown_finality" /\ Target(op[o]) = "released_unsubmitted"
    BY <1>5 DEF Lags, TransitionTo
  <2>2. op[o] \in {"recovering", "completed", "failed_settled_without_result"} => Shown(o)
    BY <1>2, Names DEF RecordFits, ReceiptFits, Claim
  <2> HIDE DEF r
  <2>3. op[o] \notin Unsent
    BY <2>1, Targets
  <2>4. r # "failed_before_effect" => op[o] # "failed_before_effect"
    BY <2>1 DEF Target
  <2>5. RowFits(o)'
    BY <1>1, <1>3, <2>1, <2>2, <2>3, <2>4, Targets, Names DEF RowFits, Shown, evidence
  <2> QED BY <1>1, <1>3, <1>4, <2>5, RowKeeps
<1>6. CASE ~Lags(o)
  <2>1. RowFits(o)'
    BY <1>1, <1>2, <1>3, <1>6 DEF RowFits, Shown, evidence
  <2> QED BY <1>1, <1>3, <1>4, <2>1, RowKeeps
<1> QED BY <1>5, <1>6

-----------------------------------------------------------------------------
LEMMA WorldKeeps ==
  ASSUME IInv, NEW o \in Ops, UNCHANGED <<disk, buyer, proc, stops, exposed>>,
         leaked' \subseteq Ops, late' \subseteq Ops, expired' \subseteq Ops,
         settled' \in [Ops -> {"no", "head", "final"}],
         Only(o, settled, settled'), leaked' \in {leaked, leaked \cup {o}},
         leaked' = leaked \/ op[o] = "authorized_not_sent",
         late' \in {late, late \cup {o}}, expired' \in {expired, expired \cup {o}},
         WorldFits(o)'
  PROVE  IInv'
<1>1. TypeOK' /\ Alone(o)
  BY DEF IInv, TypeOK, Alone, Only, disk, evidence
<1>2. RecordFits(o) /\ ReceiptFits(o) /\ RowFits(o)
  BY Typed
<1>3. RecordFits(o)' /\ RowFits(o)'
  BY <1>2 DEF RecordFits, RowFits, Shown, AttemptsFit, Tried, Tries, disk, evidence
<1>4. ASSUME NEW s, Claim(o, s), s = "failed_before_effect" => op[o] # "authorized_not_sent"
      PROVE  Claim(o, s)'
  BY <1>4 DEF Claim, Shown, Out, disk, evidence
<1>5. ReceiptFits(o)'
  <2>1. PICK s : s = receipt[o] /\ s = receipt'[o]
    BY DEF disk
  <2>2. s # "none" => Claim(o, s)'
    BY <1>2, <1>4, <2>1, Names DEF ReceiptFits
  <2> QED BY <1>2, <2>1, <2>2, Names DEF ReceiptFits, Claim, Shown, Out, disk, evidence
<1>6. ProcFits'
  <2>1. CASE proc = Idle
    BY <2>1 DEF ProcFits
  <2>2. CASE proc # Idle
    <3> DEFINE q == proc.o
    <3>1. /\ q \in Ops /\ proc' = proc /\ proc.at # "idle" /\ proc.at \in Steps
      BY <2>2, Typed DEF IInv, ProcFits, TypeOK
    <3>2. proc.at = "receipt" => Ends(q, proc.arg)'
      <4>1. SUFFICES ASSUME Ends(q, proc.arg) PROVE Ends(q, proc.arg)'
        BY <2>2 DEF IInv, ProcFits
      <4>2. CASE q = o
        <5>1. Claim(o, proc.arg)'
          BY <1>4, <4>1, <4>2, Names DEF Ends
        <5> QED BY <4>1, <4>2, <5>1 DEF Ends, Claim, Shown, Out, disk, evidence
      <4>3. CASE q # o
        BY <3>1, <4>1, <4>3, <1>1 DEF Ends, Claim, Shown, Out, Alone
      <4> QED BY <4>2, <4>3
    <3>3. proc.at \notin {"receipt", "close", "follow"} => Works(q, proc.at, proc.arg)'
      BY <2>2, <3>1 DEF IInv, ProcFits, Works, Tried, Tries, Marked, Last, disk, evidence
    <3>4. proc.at = "close" => receipt'[q] # "none"
      BY <2>2 DEF IInv, ProcFits, disk
    <3> QED BY <3>1, <3>2, <3>3, <3>4, WillWork
  <2> QED BY <2>1, <2>2
<1> QED BY <1>1, <1>3, <1>5, <1>6, ActionKeeps DEF Fits

LEMMA ChainKeeps ==
  ASSUME IInv, NEW o \in Ops, Chain(o)
  PROVE  IInv'
<1>1. /\ settled \in [Ops -> {"no", "head", "final"}] /\ leaked \subseteq Ops
      /\ late \subseteq Ops /\ expired \subseteq Ops
      /\ WorldFits(o) /\ UNCHANGED <<disk, buyer, proc, stops, exposed>>
  BY Typed DEF IInv, TypeOK, Chain, Leak, Settle, Reorganise, Finalize, Settlement,
         Pass, Expire
<1>2. UNCHANGED <<op, attempts, proof>>
  BY <1>1 DEF disk, evidence
<1>3. CASE Leak(o)
  <2>1. WorldFits(o)'
    BY <1>1, <1>2, <1>3, Names DEF Leak, WorldFits, Out, Shown, Proven, ProvablyUnused
  <2> QED BY <1>1, <1>3, <2>1, WorldKeeps DEF Leak, Only
<1>4. CASE Settle(o) \/ Reorganise(o) \/ Finalize(o)
  <2>1. PICK to \in {"no", "head", "final"} :
          /\ settled' = [settled EXCEPT ![o] = to] /\ settled[o] # to /\ settled[o] # "final"
          /\ settled[o] = "no" => o \in exposed \cup leaked /\ o \notin late
          /\ UNCHANGED <<leaked, late, expired>>
    BY <1>4 DEF Settle, Reorganise, Finalize, Settlement
  <2>2. settled' \in [Ops -> {"no", "head", "final"}] /\ settled'[o] = to
        /\ Only(o, settled, settled')
    BY <1>1, <2>1 DEF Only
  <2>3. WorldFits(o)'
    BY <1>1, <1>2, <2>1, <2>2, Names DEF WorldFits, Out, Shown, Proven, ProvablyUnused
  <2> QED BY <1>1, <2>1, <2>2, <2>3, WorldKeeps
<1>5. CASE Pass(o) \/ Expire(o)
  <2>1. /\ UNCHANGED <<leaked, settled>>
        /\ late' \in {late, late \cup {o}} /\ expired' \in {expired, expired \cup {o}}
    BY <1>5 DEF Pass, Expire
  <2>2. WorldFits(o)'
    BY <1>1, <1>2, <2>1, Names DEF WorldFits, Out, Shown, Proven, ProvablyUnused
  <2> QED BY <1>1, <2>1, <2>2, WorldKeeps DEF Only
<1> QED BY <1>3, <1>4, <1>5 DEF Chain

LEMMA StopKeeps ==
  ASSUME IInv, Stop
  PROVE  IInv'
<1>1. stops' \in 0 .. MaxStops /\ proc' = Idle /\ UNCHANGED <<disk, buyer, world>>
  BY StopsAssumption DEF Stop, IInv, TypeOK
<1> QED BY <1>1, Idles, StepKeeps

LEMMA Initially ==
  ASSUME Init
  PROVE  IInv
<1>1. TypeOK
  BY StopsAssumption, Resting DEF Init, TypeOK, Procs
<1>2. ASSUME NEW o \in Ops PROVE Fits(o)
  <2>1. /\ op[o] = "none" /\ attempts[o] = <<>> /\ proof[o] = "none" /\ result[o] = "none"
        /\ receipt[o] = "none" /\ row[o] = "none" /\ settled[o] = "no"
        /\ exposed = {} /\ leaked = {}
    BY DEF Init
  <2>2. AttemptsFit(o) /\ ~Tried(o, "result_recovery")
    <3>1. Len(attempts[o]) = 0 /\ DOMAIN attempts[o] = {}
      BY <2>1
    <3>2. /\ Len(attempts[o]) \in {0, 0 + 1} /\ 0 \in 0 .. 2
          /\ \A k \in 1 .. Len(attempts[o]) : FALSE
      BY <3>1
    <3> QED BY <3>1, <3>2 DEF AttemptsFit, Tried, Tries
  <2> QED BY <2>1, <2>2, Names DEF Fits, WorldFits, RecordFits, ReceiptFits, RowFits, Out, Shown
<1> QED BY <1>1, <1>2 DEF IInv, ProcFits, Init

LEMMA Stutters ==
  ASSUME IInv, UNCHANGED vars
  PROVE  IInv'
<1>1. proc' = proc /\ UNCHANGED <<disk, buyer, world>> /\ stops' = stops
  BY DEF vars
<1>2. proc' \in Procs /\ stops' \in 0 .. MaxStops
  BY <1>1 DEF IInv, TypeOK, Procs
<1>3. ProcFits'
  BY <1>1 DEF IInv, ProcFits, Works, Ends, Claim, Tried, Tries, Shown, Out, Marked,
         Last, disk, evidence, world
<1> QED BY <1>1, <1>2, <1>3, StepKeeps

LEMMA Inductive == Spec => []IInv
<1>1. Init => IInv
  BY Initially
<1>2. IInv /\ [Next]_vars => IInv'
  BY PrepareKeeps, ApproveKeeps, ResumeKeeps, AbandonKeeps, AuthorizationKeeps,
     ReconciliationKeeps, RequestKeeps, WriteReceiptKeeps, CloseKeeps, FollowKeeps,
     ChainKeeps, StopKeeps, Stutters DEF Next, Command, Advance, Ending
<1> QED BY <1>1, <1>2, PTL DEF Spec

(* What a purchase ends with is what the chain and the merchant did, for    *)
(* every number of purchases, stops, answers and replaced blocks.           *)
THEOREM PurchaseOutcomesAreProven == Spec => []OutcomeIsProven
<1>1. IInv => OutcomeIsProven
  <2> SUFFICES ASSUME IInv, NEW o \in Ops
      PROVE  /\ op[o] = "completed" => Proven(o) /\ result[o] = "linked"
             /\ op[o] = "failed_settled_without_result" => Proven(o) /\ result[o] = "none"
             /\ op[o] = "failed_expired_unused" => ProvablyUnused(o)
             /\ op[o] = "abandoned_unknown" => proof[o] = "none"
             /\ op[o] = "failed_before_effect" => o \notin exposed \cup leaked
    BY DEF OutcomeIsProven
  <2>1. op[o] \in Terminal => Claim(o, op[o])
    BY Typed, Names DEF ReceiptFits
  <2> QED BY <2>1, Typed, Names DEF Claim, WorldFits, Out
<1> QED BY <1>1, Inductive, PTL

(* No signed header is at the merchant without its marker and its hold, and *)
(* it is sent there at most twice to pay and once to recover the result.    *)
THEOREM HeadersAreMarkedAndHeld == Spec => []SentIsMarkedAndHeld
<1>1. IInv => SentIsMarkedAndHeld
  <2> SUFFICES ASSUME IInv, NEW o \in exposed
      PROVE  /\ attempts[o] # <<>> /\ row[o] # "none"
             /\ Cardinality(Tries(o, "payment")) <= 2
             /\ Cardinality(Tries(o, "result_recovery")) <= 1
    BY DEF SentIsMarkedAndHeld
  <2>1. o \in Ops
    BY DEF IInv, TypeOK
  <2>2. attempts[o] # <<>> /\ row[o] # "none" /\ attempts[o] \in Seq(Attempts)
    BY <2>1, Typed, Names DEF WorldFits, RowFits, Out
  <2>3. PICK n \in 0 .. 2 :
          /\ Len(attempts[o]) \in {n, n + 1}
          /\ \A k \in 1 .. Len(attempts[o]) :
               attempts[o][k].purpose = IF k <= n THEN "payment" ELSE "result_recovery"
    BY <2>1, Typed DEF RecordFits, AttemptsFit
  <2>4. DOMAIN attempts[o] = 1 .. Len(attempts[o])
    BY <2>2
  <2>5. Tries(o, "payment") \subseteq 1 .. 2 /\ Tries(o, "result_recovery") \subseteq {n + 1}
    BY <2>3, <2>4 DEF Tries
  <2>6. IsFiniteSet(1 .. 2) /\ Cardinality(1 .. 2) = 2
    <3>1. /\ IsFiniteSet(1 .. 2)
          /\ Cardinality(1 .. 2) = IF 1 > 2 THEN 0 ELSE 2 - 1 + 1
      BY ONLY FS_Interval, 1 \in Int, 2 \in Int
    <3> QED BY <3>1
  <2>7. IsFiniteSet({n + 1}) /\ Cardinality({n + 1}) = 1
    BY FS_Singleton
  <2>8. Cardinality(Tries(o, "payment")) <= 2
    BY <2>5, <2>6, FS_Subset
  <2>9. Cardinality(Tries(o, "result_recovery")) <= 1
    BY <2>5, <2>7, FS_Subset
  <2> QED BY <2>2, <2>8, <2>9
<1> QED BY <1>1, Inductive, PTL

-----------------------------------------------------------------------------
(* How a command moves the record and the receipt of its purchase.          *)
Moved(o) ==
  \/ UNCHANGED <<op, receipt>>
  \/ /\ receipt[o] = "none" /\ op[o] \notin Terminal /\ UNCHANGED receipt
     /\ \E s \in Pending : op' = [op EXCEPT ![o] = s]
  \/ /\ UNCHANGED op
     /\ \E s : receipt[o] \in {"none", s} /\ receipt' = [receipt EXCEPT ![o] = s]
  \/ /\ receipt[o] # "none" /\ op[o] \in Pending /\ UNCHANGED receipt
     /\ op' = [op EXCEPT ![o] = receipt[o]]

LEMMA RecordMoves ==
  ASSUME IInv, NEW o \in Ops, receipt[o] = "none", UNCHANGED receipt,
         NEW s \in Pending, op[o] \notin Terminal, op' = [op EXCEPT ![o] = s]
  PROVE  Moved(o)
BY DEF Moved

LEMMA CommandMoves ==
  ASSUME IInv, NEW o \in Ops, Prepare(o) \/ Command(o)
  PROVE  Moved(o)
<1>1. CASE Prepare(o)
  BY <1>1, RecordMoves, Typed, Names DEF Prepare, ReceiptFits
<1>2. CASE ResumeMarked(o)
  BY <1>2, RecordMoves, LegalOnly, Names DEF ResumeMarked, Record
<1>3. CASE Abandon(o)
  <2>1. op[o] \notin Terminal /\ receipt[o] = "none" /\ UNCHANGED receipt
    BY <1>3, Names DEF Abandon, Abandonable
  <2>2. \/ UNCHANGED op \/ op' = [op EXCEPT ![o] = "effect_unknown"]
    BY <1>3 DEF Abandon, Record
  <2> QED BY <2>1, <2>2, RecordMoves, Names DEF Moved
<1>4. CASE ApproveReserves(o)
  BY <1>4 DEF ApproveReserves, Moved
<1>5. CASE \/ ApproveExpired(o) \/ ResumeReceipt(o) \/ ResumeAuthorization(o)
           \/ ResumeRead(o) \/ Wait(o) \/ AbandonUnsigned(o) \/ AbandonAgain(o)
  BY <1>5 DEF ApproveExpired, ResumeReceipt, ResumeAuthorization, ResumeRead, Wait,
         AbandonUnsigned, AbandonAgain, disk, Moved
<1> QED BY <1>1, <1>2, <1>3, <1>4, <1>5 DEF Command, Resume

LEMMA AdvanceMoves ==
  ASSUME IInv, NEW o \in Ops, Advance(o)
  PROVE  Moved(o)
<1>1. ASSUME NEW step \in Steps \ {"idle", "receipt", "close", "follow"}, Running(step, o)
      PROVE  receipt[o] = "none" /\ op[o] \in Pending /\ op[o] \notin Terminal
  BY <1>1, AtWork, Names DEF Works
<1>2. CASE Authorization(o)
  <2>1. receipt[o] = "none" /\ op[o] \in Pending /\ op[o] \notin Terminal
    BY <1>1, <1>2, Names DEF Authorization, Pend, Authorized, AuthorizeLater,
           AuthorizeNotFound, AuthorizeRefused, AuthorizeExpired, Authorizing, Running
  <2>2. UNCHANGED receipt
    BY <1>2 DEF Authorization, Pend, Authorized, AuthorizeLater, AuthorizeNotFound,
           AuthorizeRefused, AuthorizeExpired, Step, Terminate, disk
  <2>3. UNCHANGED op \/ \E s \in Pending : op' = [op EXCEPT ![o] = s]
    BY <1>2, <2>1, Names DEF Authorization, Pend, Authorized, AuthorizeLater,
           AuthorizeNotFound, AuthorizeRefused, AuthorizeExpired, Step, Terminate, Record, disk
  <2> QED BY <2>1, <2>2, <2>3 DEF Moved
<1>3. CASE Reconciliation(o)
  <2>1. receipt[o] = "none" /\ op[o] \in Pending /\ op[o] \notin Terminal
    BY <1>1, <1>3, Names DEF Reconciliation, RecoverOrphan, Finish, ReadUsed,
           ReadNeverUsed, ReadNothing, Running
  <2>2. UNCHANGED receipt
    BY <1>3 DEF Reconciliation, RecoverOrphan, Finish, ReadUsed, ReadNeverUsed,
           ReadNothing, Prove, Step, disk
  <2>3. CASE Finish(o)
    <3>1. UNCHANGED op \/ (op' = [op EXCEPT ![o] = Finished(o)] /\ Finished(o) \notin Terminal)
      BY <2>3 DEF Finish, Record
    <3>2. Finished(o) \in Terminal \cup Pending
      BY <2>1, Names DEF Finished
    <3> QED BY <2>1, <2>2, <3>1, <3>2 DEF Moved
  <2>4. CASE ~Finish(o)
    <3>1. UNCHANGED op \/ \E s \in Pending : op' = [op EXCEPT ![o] = s]
      BY <1>3, <2>1, <2>4, Names DEF Reconciliation, RecoverOrphan, ReadUsed,
             ReadNeverUsed, ReadNothing, Prove, Step, Record, disk
    <3> QED BY <2>1, <2>2, <3>1 DEF Moved
  <2> QED BY <2>3, <2>4
<1>4. CASE Request(o)
  <2>1. receipt[o] = "none" /\ op[o] \in Pending /\ op[o] \notin Terminal
    BY <1>1, <1>4, Names DEF Request, Act, SendTooLate, BeginAttempt, Http,
           AnsweredNothing, AnsweredNoHeader, AnsweredConflict, AnsweredHeader,
           Answered, KeepResult, LinkResult, Running
  <2>2. UNCHANGED receipt
    BY <1>4 DEF Request, Act, SendTooLate, BeginAttempt, Http, AnsweredNothing,
           AnsweredNoHeader, AnsweredConflict, AnsweredHeader, Observed, KeepResult,
           LinkResult, Step, Terminate, disk
  <2>3. UNCHANGED op \/ \E s \in Pending : op' = [op EXCEPT ![o] = s]
    <3>1. CASE Act(o) \/ SendTooLate(o) \/ Http(o)
      BY <3>1 DEF Act, SendTooLate, Http, Step, Terminate, disk
    <3>2. CASE AnsweredNothing(o) \/ AnsweredNoHeader(o) \/ AnsweredConflict(o)
      BY <3>2, Names DEF AnsweredNothing, AnsweredNoHeader, AnsweredConflict, Observed,
             Record, AfterPaying
    <3>3. CASE AnsweredHeader(o)
      BY <3>3, Names DEF AnsweredHeader, Record, AfterPaying
    <3>4. CASE BeginAttempt(o) \/ KeepResult(o) \/ LinkResult(o)
      BY <2>1, <3>4, Names DEF BeginAttempt, KeepResult, LinkResult, Record
    <3> QED BY <1>4, <3>1, <3>2, <3>3, <3>4 DEF Request
  <2> QED BY <2>1, <2>2, <2>3 DEF Moved
<1>5. CASE WriteReceipt(o)
  BY <1>5 DEF WriteReceipt, Moved
<1>6. CASE Close(o)
  <2>1. receipt[o] # "none"
    BY <1>6, AtWork, Names DEF Close
  <2> QED BY <1>6, <2>1, LegalOnly DEF Close, Record, Moved
<1>7. CASE Follow(o)
  BY <1>7 DEF Follow, Moved
<1> QED BY <1>2, <1>3, <1>4, <1>5, <1>6, <1>7 DEF Advance, Ending

(* A receipt that was written is what its purchase ends as.                 *)
THEOREM ReceiptsStand == Spec => ReceiptStands
<1>1. ASSUME IInv, NEW o \in Ops, NEW q \in Ops, Moved(q), receipt[o] # "none"
      PROVE  receipt'[o] = receipt[o] /\ op'[o] \in {op[o], receipt[o]}
  BY <1>1 DEF Moved, IInv, TypeOK
<1>2. IInv /\ [Next]_vars =>
        [\A o \in Ops : receipt[o] # "none" =>
           receipt'[o] = receipt[o] /\ op'[o] \in {op[o], receipt[o]}]_vars
  <2> SUFFICES ASSUME IInv, [Next]_vars, NEW o \in Ops, receipt[o] # "none"
               PROVE  receipt'[o] = receipt[o] /\ op'[o] \in {op[o], receipt[o]}
    OBVIOUS
  <2>1. CASE \E q \in Ops : Prepare(q) \/ Command(q) \/ Advance(q)
    BY <1>1, <2>1, CommandMoves, AdvanceMoves
  <2>2. CASE (\E q \in Ops : Chain(q)) \/ Stop \/ UNCHANGED vars
    BY <2>2 DEF Chain, Leak, Settle, Reorganise, Finalize, Settlement, Pass, Expire,
           Stop, vars, disk
  <2> QED BY <2>1, <2>2 DEF Next
<1> QED BY <1>2, Inductive, PTL DEF Spec, ReceiptStands

-----------------------------------------------------------------------------
(* The shared ledger and a purchase.                                        *)
HoldOf(o) ==
  CASE row[o] = "none" -> "none"
    [] row[o] \in {"failed_before_effect", "released_unsubmitted"} -> "given_back"
    [] row[o] = "finalized" /\ op[o] # "abandoned_unknown" -> "charged"
    [] OTHER -> "held"

LEMMA Promises ==
  /\ Promise!Init <=> Hold = [o \in Ops |-> "none"] /\ Paid = {}
  /\ Promise!vars = <<Hold, Paid>>
  /\ \A o \in Ops :
       /\ Promise!Take(o) <=>
            Hold[o] = "none" /\ Hold' = [Hold EXCEPT ![o] = "held"] /\ Paid' = Paid
       /\ Promise!Charge(o) <=>
            o \in Paid /\ Hold[o] = "held"
            /\ Hold' = [Hold EXCEPT ![o] = "charged"] /\ Paid' = Paid
       /\ Promise!GiveBack(o) <=>
            o \notin Paid /\ Hold[o] = "held"
            /\ Hold' = [Hold EXCEPT ![o] = "given_back"] /\ Paid' = Paid
       /\ Promise!Pay(o) <=>
            Hold[o] = "held" /\ Paid' \in {Paid \cup {o}, Paid \ {o}} /\ Hold' = Hold
BY DEF Promise!Init, Promise!vars, Promise!Take, Promise!Charge, Promise!GiveBack,
       Promise!Pay, Promise!Decide

(* A step of o that leaves the row and the record of the others alone.      *)
LEMMA HoldMoves ==
  ASSUME NEW o \in Ops, Only(o, row, row'), Only(o, op, op')
  PROVE  /\ \A q \in Ops : Hold[q] = HoldOf(q)
         /\ Hold' = [Hold EXCEPT ![o] = HoldOf(o)']
         /\ HoldOf(o)' = HoldOf(o) => Hold' = Hold
<1>1. Hold = [q \in Ops |-> HoldOf(q)] /\ Hold' = [q \in Ops |-> HoldOf(q)']
  BY DEF Hold, HoldOf
<1>2. \A q \in Ops \ {o} : HoldOf(q)' = HoldOf(q)
  BY DEF HoldOf, Only
<1> HIDE DEF Hold, HoldOf
<1> QED BY <1>1, <1>2

LEMMA PaidStays ==
  ASSUME UNCHANGED settled PROVE Paid' = Paid
BY DEF Paid

LEMMA PromiseStutters ==
  ASSUME Hold' = Hold, Paid' = Paid PROVE UNCHANGED Promise!vars
BY Promises DEF Promise!vars

LEMMA RowStays ==
  ASSUME NEW o \in Ops, Prepare(o) \/ Command(o) \/ Advance(o)
  PROVE  /\ UNCHANGED settled
         /\ UNCHANGED row \/ ApproveReserves(o) \/ Follow(o)
<1>1. CASE Prepare(o) \/ Command(o)
  BY <1>1 DEF Prepare, Command, ApproveExpired, ApproveReserves, Resume, ResumeReceipt,
         ResumeAuthorization, ResumeMarked, ResumeRead, Wait, AbandonUnsigned,
         Abandon, AbandonAgain, disk, world
<1>2. CASE Authorization(o)
  BY <1>2 DEF Authorization, Pend, Authorized, AuthorizeLater, AuthorizeNotFound,
         AuthorizeRefused, AuthorizeExpired, Step, Terminate, disk, world
<1>3. CASE Reconciliation(o)
  BY <1>3 DEF Reconciliation, RecoverOrphan, Finish, ReadUsed, ReadNeverUsed,
         ReadNothing, Prove, Step, disk, world
<1>4. CASE Request(o)
  BY <1>4 DEF Request, Act, SendTooLate, BeginAttempt, Http, AnsweredNothing,
         AnsweredNoHeader, AnsweredConflict, AnsweredHeader, Observed, KeepResult,
         LinkResult, Step, Terminate, disk, world
<1>5. CASE Ending(o)
  BY <1>5 DEF Ending, WriteReceipt, Close, Follow, world
<1> QED BY <1>1, <1>2, <1>3, <1>4, <1>5 DEF Advance

LEMMA CommandPromises ==
  ASSUME IInv, NEW o \in Ops, Prepare(o) \/ Command(o) \/ Advance(o)
  PROVE  [Promise!Next]_(Promise!vars)
<1>1. /\ WorldFits(o) /\ RecordFits(o) /\ ReceiptFits(o) /\ RowFits(o) /\ row[o] \in Rows
      /\ op[o] \in Pending \cup Terminal \cup {"none"}
  BY Typed
<1>2. Paid' = Paid /\ UNCHANGED settled
  BY RowStays, PaidStays
<1>3. Moved(o)
  BY CommandMoves, AdvanceMoves
<1>4. CASE UNCHANGED row
  <2>1. Only(o, row, row') /\ row'[o] = row[o]
    BY <1>4 DEF Only
  <2>2. Only(o, op, op')
    BY <1>3 DEF Only, Moved, IInv, TypeOK
  <2>3. HoldOf(o)' = HoldOf(o)
    <3>1. row[o] = "finalized" =>
            (op'[o] = "abandoned_unknown" <=> op[o] = "abandoned_unknown")
      BY <1>1, <1>3, Names DEF Moved, RowFits, ReceiptFits, Claim, Shown, IInv, TypeOK
    <3> QED BY <2>1, <3>1 DEF HoldOf
  <2> QED BY <1>2, <2>1, <2>2, <2>3, HoldMoves, PromiseStutters
<1>5. CASE ApproveReserves(o)
  <2>1. /\ op[o] = "awaiting_approval" /\ row' = [row EXCEPT ![o] = "reserved"] /\ op' = op
    BY <1>5 DEF ApproveReserves
  <2>2. Only(o, row, row') /\ Only(o, op, op') /\ row'[o] = "reserved"
    BY <2>1 DEF Only, IInv, TypeOK
  <2>3. HoldOf(o)' = "held" /\ HoldOf(o) = IF row[o] = "none" THEN "none" ELSE "held"
    BY <1>1, <2>1, <2>2 DEF HoldOf, RowFits
  <2>4. CASE row[o] = "none"
    <3>1. Promise!Take(o)
      BY <1>2, <2>2, <2>3, <2>4, HoldMoves, Promises
    <3> QED BY <3>1 DEF Promise!Next
  <2>5. CASE row[o] # "none"
    BY <1>2, <2>2, <2>3, <2>5, HoldMoves, PromiseStutters
  <2> QED BY <2>4, <2>5
<1>6. CASE Follow(o)
  <2>1. /\ op' = op
        /\ row' = [row EXCEPT ![o] =
             IF Lags(o) THEN TransitionTo(row[o], Target(op[o])) ELSE row[o]]
    BY <1>6 DEF Follow
  <2>2. /\ Only(o, row, row') /\ Only(o, op, op')
        /\ row'[o] = IF Lags(o) THEN TransitionTo(row[o], Target(op[o])) ELSE row[o]
    BY <2>1 DEF Only, IInv, TypeOK
  <2>3. CASE HoldOf(o)' = HoldOf(o)
    BY <1>2, <2>2, <2>3, HoldMoves, PromiseStutters
  <2>4. CASE HoldOf(o)' # HoldOf(o)
    <3>1. /\ Lags(o) /\ row'[o] = Target(op[o]) /\ row[o] # "none" /\ Target(op[o]) # "none"
          /\ Rank(row[o]) < Rank(Target(op[o]))
      BY <2>1, <2>2, <2>4 DEF HoldOf, Lags, TransitionTo
    <3>2. row[o] \in {"reserved", "submitted", "unknown_finality"}
      BY <1>1, <3>1 DEF Rank, Rows, Target
    <3>3. Hold[o] = "held"
      BY <2>2, <3>2, HoldMoves DEF HoldOf
    <3>4. CASE Target(op[o]) = "finalized" /\ op[o] # "abandoned_unknown"
      <4>1. HoldOf(o)' = "charged"
        BY <2>1, <3>1, <3>4 DEF HoldOf
      <4>2. Proven(o)
        BY <1>1, <3>4, Targets, Names DEF RecordFits, ReceiptFits, Claim, WorldFits
      <4>3. o \in Paid
        BY <4>2 DEF Paid, Proven
      <4>4. Promise!Charge(o)
        BY <1>2, <2>2, <3>3, <4>1, <4>3, HoldMoves, Promises
      <4> QED BY <4>4 DEF Promise!Next
    <3>5. CASE Target(op[o]) \in {"failed_before_effect", "released_unsubmitted"}
      <4>1. HoldOf(o)' = "given_back"
        BY <2>1, <3>1, <3>5 DEF HoldOf
      <4>2. settled[o] = "no"
        BY <1>1, <3>5, Targets, Names DEF ReceiptFits, Claim, WorldFits, ProvablyUnused
      <4>3. o \notin Paid
        BY <4>2 DEF Paid
      <4>4. Promise!GiveBack(o)
        BY <1>2, <2>2, <3>3, <4>1, <4>3, HoldMoves, Promises
      <4> QED BY <4>4 DEF Promise!Next
    <3>6. CASE \/ Target(op[o]) \in {"submitted", "unknown_finality"}
               \/ Target(op[o]) = "finalized" /\ op[o] = "abandoned_unknown"
      BY <2>1, <2>4, <3>1, <3>2, <3>6 DEF HoldOf
    <3> QED BY <3>1, <3>4, <3>5, <3>6, Targets DEF Rows
  <2> QED BY <2>3, <2>4
<1> QED BY <1>4, <1>5, <1>6, RowStays

LEMMA ChainPromises ==
  ASSUME IInv, NEW o \in Ops, Chain(o)
  PROVE  [Promise!Next]_(Promise!vars)
<1>1. UNCHANGED <<row, op>>
  BY DEF Chain, Leak, Settle, Reorganise, Finalize, Settlement, Pass, Expire, disk
<1>2. Only(o, row, row') /\ Only(o, op, op') /\ HoldOf(o)' = HoldOf(o)
  BY <1>1 DEF Only, HoldOf
<1>3. Hold' = Hold
  BY <1>2, HoldMoves
<1>4. WorldFits(o) /\ RecordFits(o) /\ ReceiptFits(o) /\ RowFits(o) /\ row[o] \in Rows
  BY Typed
<1>5. CASE Settle(o) \/ Reorganise(o)
  <2>1. /\ Out(o) /\ settled[o] # "final"
        /\ o \in late => settled[o] # "no"
        /\ \E to \in {"no", "head"} : settled' = [settled EXCEPT ![o] = to]
    BY <1>4, <1>5 DEF Settle, Reorganise, Settlement, Out, WorldFits
  <2>2. op[o] \notin Unsigned \cup {"failed_before_effect"} /\ ~Shown(o)
        /\ proof[o] # "unused"
    BY <1>4, <2>1 DEF WorldFits, Proven, ProvablyUnused
  <2>3. row[o] # "none" /\ row[o] # "failed_before_effect"
    BY <1>4, <2>2, Names DEF RowFits
  <2>4. row[o] # "released_unsubmitted"
    BY <1>4, <2>2, Names DEF RowFits, ReceiptFits, Claim
  <2>5. row[o] = "finalized" => op[o] = "abandoned_unknown"
    BY <1>4, <2>2 DEF RowFits
  <2>6. Hold[o] = "held"
    BY <1>2, <2>3, <2>4, <2>5, HoldMoves DEF HoldOf
  <2>7. Paid' \in {Paid \cup {o}, Paid \ {o}}
    BY <2>1 DEF Paid, IInv, TypeOK
  <2>8. Promise!Pay(o)
    BY <1>3, <2>6, <2>7, Promises
  <2> QED BY <2>8 DEF Promise!Next
<1>6. CASE Finalize(o)
  <2>1. Paid' = Paid
    BY <1>6 DEF Finalize, Settlement, Paid, IInv, TypeOK
  <2> QED BY <1>3, <2>1, PromiseStutters
<1>7. CASE Leak(o) \/ Pass(o) \/ Expire(o)
  <2>1. UNCHANGED settled
    BY <1>7 DEF Leak, Pass, Expire
  <2> QED BY <1>3, <2>1, PaidStays, PromiseStutters
<1> QED BY <1>5, <1>6, <1>7 DEF Chain

(* The shared ledger and a purchase: its amount is held before the merchant *)
(* can be paid, charged when the authorization is used for good, given back *)
(* when it never can be, and held while neither is known or the owner gave  *)
(* it up.                                                                   *)
THEOREM PurchaseHoldsBeforePaying == Spec => KeepsPromise
<1>1. Init => Promise!Init
  BY Promises DEF Init, Hold, Paid
<1>2. IInv /\ [Next]_vars => [Promise!Next]_(Promise!vars)
  <2> SUFFICES ASSUME IInv, [Next]_vars PROVE [Promise!Next]_(Promise!vars)
    OBVIOUS
  <2>1. CASE Stop \/ UNCHANGED vars
    <3>1. Hold' = Hold /\ Paid' = Paid
      BY <2>1 DEF Stop, vars, disk, world, Hold, Paid
    <3> QED BY <3>1, PromiseStutters
  <2> QED BY <2>1, CommandPromises, ChainPromises DEF Next
<1> QED BY <1>1, <1>2, Inductive, PTL DEF Spec, KeepsPromise, Promise!Spec

-----------------------------------------------------------------------------
(* What the ledger takes of a purchase.                                     *)

(* A hold that lags behind its purchase can take the transition that follow *)
(* asks for.                                                                *)
LEMMA LagsLegally ==
  ASSUME IInv, NEW o \in Ops, Lags(o)
  PROVE  Ledger!Takes(row[o], TransitionTo(row[o], Target(op[o])))
<1>1. RowFits(o) /\ row[o] \in Rows
  BY Typed
<1>2. row[o] # "none" /\ Target(op[o]) # "none" /\ Rank(row[o]) < Rank(Target(op[o]))
  BY DEF Lags
<1>3. Target(op[o]) \in Rows \ {"reserved"}
  BY Targets
<1>4. row[o] \in {"reserved", "submitted", "unknown_finality"}
  BY <1>1, <1>2, <1>3 DEF Rank, Rows
<1>5. row[o] # "reserved" => Target(op[o]) # "failed_before_effect"
  BY <1>1, <1>4, Targets DEF RowFits
<1>6. CASE row[o] = "reserved"
  BY <1>2, <1>3, <1>6 DEF Rows, TransitionTo, Ledger!Takes
<1>7. CASE row[o] = "submitted"
  BY <1>2, <1>3, <1>5, <1>7 DEF Rows, TransitionTo, Ledger!Takes, Rank
<1>8. CASE row[o] = "unknown_finality"
  BY <1>2, <1>3, <1>5, <1>8 DEF Rows, TransitionTo, Ledger!Takes, Rank
<1> QED BY <1>4, <1>6, <1>7, <1>8

LEMMA Writes ==
  ASSUME NEW o \in Ops, NEW to \in Rows, Ledger!Takes(row[o], to),
         row' = [row EXCEPT ![o] = to]
  PROVE  Ledger!Next
<1>1. Rows \subseteq Ledger!States
  BY DEF Rows, Ledger!States
<1> QED BY <1>1 DEF Ledger!Next, Ledger!Write

(* The ledger takes every write of a hold: the amount is reserved once, and *)
(* what follow asks for is a transition of assertTransition's table from    *)
(* whatever state a stop left the hold in (X402Usage.follow).               *)
THEOREM LedgerTakesPurchases == Spec => LedgerTakesEveryWrite
<1>1. Init => Ledger!Init
  BY DEF Init, Ledger!Init
<1>2. IInv /\ [Next]_vars => [Ledger!Next]_row
  <2> SUFFICES ASSUME IInv, [Next]_vars, row' # row PROVE Ledger!Next
    OBVIOUS
  <2>1. PICK o \in Ops : ApproveReserves(o) \/ Follow(o)
    <3>1. \E o \in Ops : Prepare(o) \/ Command(o) \/ Advance(o)
      BY DEF Next, Chain, Leak, Settle, Reorganise, Finalize, Settlement, Pass,
             Expire, Stop, vars, disk
    <3> QED BY <3>1, RowStays
  <2>2. RowFits(o) /\ row[o] \in Rows
    BY Typed
  <2>3. CASE ApproveReserves(o)
    <3>1. op[o] = "awaiting_approval" /\ row' = [row EXCEPT ![o] = "reserved"]
      BY <2>3 DEF ApproveReserves
    <3>2. row[o] = "none"
      <4>1. row[o] # "reserved"
        BY <3>1 DEF IInv, TypeOK
      <4> QED BY <2>2, <3>1, <4>1 DEF RowFits
    <3>3. Ledger!Takes(row[o], "reserved")
      BY <3>2 DEF Ledger!Takes
    <3> QED BY <3>1, <3>3, Writes DEF Rows
  <2>4. CASE Follow(o)
    <3> DEFINE next == TransitionTo(row[o], Target(op[o]))
    <3>1. row' = [row EXCEPT ![o] = IF Lags(o) THEN next ELSE row[o]]
      BY <2>4 DEF Follow
    <3>2. Lags(o)
      BY <3>1 DEF IInv, TypeOK
    <3>3. next \in Rows
      BY Targets DEF TransitionTo, Rows
    <3> QED BY <3>1, <3>2, <3>3, LagsLegally, Writes
  <2> QED BY <2>1, <2>3, <2>4
<1> QED BY <1>1, <1>2, Inductive, PTL DEF Spec, LedgerTakesEveryWrite, Ledger!Spec

(* The hold of a purchase that is over says its outcome, or one more follow *)
(* brings it there; none was settled or released as something else.         *)
THEOREM HoldsEndAsRecorded == Spec => []HoldCanEndAsRecorded
<1>1. IInv => HoldCanEndAsRecorded
  <2> SUFFICES ASSUME IInv, NEW o \in Ops, op[o] \in Terminal
               PROVE  \/ row[o] = Target(op[o]) \/ Lags(o)
                      \/ row[o] = "none" /\ op[o] = "failed_before_effect"
    BY DEF HoldCanEndAsRecorded
  <2>1. WorldFits(o) /\ ReceiptFits(o) /\ RowFits(o) /\ row[o] \in Rows
    BY Typed
  <2>2. op[o] = "failed_expired_unused" => proof[o] = "unused"
    BY <2>1, Names DEF ReceiptFits, Claim
  <2>3. CASE row[o] \in {"reserved", "submitted", "unknown_finality"}
    BY <2>3 DEF Lags, Rank, Target, Terminal
  <2>4. CASE row[o] = "finalized"
    BY <2>1, <2>2, <2>4 DEF RowFits, Shown, Target, Terminal
  <2>5. CASE row[o] \in {"none", "failed_before_effect", "released_unsubmitted"}
    BY <2>1, <2>5, Names DEF RowFits, Target
  <2> QED BY <2>1, <2>3, <2>4, <2>5 DEF Rows
<1> QED BY <1>1, Inductive, PTL

-----------------------------------------------------------------------------
(* Holds that nobody moves.                                                 *)

(* While no command was cut short, a hold, a receipt or an outcome that the *)
(* record or the ledger has yet to follow belongs to the command at work;   *)
(* and an abandonment that will not move the hold has none to move.         *)
Uncut(o) ==
  /\ op[o] = "awaiting_approval" /\ row[o] # "none" => Running("pend", o)
  /\ op[o] \in Pending /\ receipt[o] # "none" => Running("close", o)
  /\ op[o] \in Terminal /\ Lags(o) => Running("follow", o)
  /\ proc.o = o /\ proc.mode = "abandon" =>
       /\ proc.at \in {"receipt", "close", "follow"}
       /\ proc.at = "receipt" /\ proc.arg # "abandoned_unknown" =>
            op[o] = "awaiting_approval"
       /\ proc.at = "close" /\ receipt[o] # "abandoned_unknown" =>
            op[o] = "awaiting_approval"
AllUncut == stops = 0 => \A o \in Ops : Uncut(o)

(* A command at work on one purchase leaves the others uncut.               *)
Turns(o) == \/ proc' = proc
            \/ (proc = Idle \/ proc.o = o) /\ (proc' = Idle \/ proc'.o = o)

LEMMA UncutElsewhere ==
  ASSUME NEW o \in Ops, NEW q \in Ops \ {o}, Uncut(q), Turns(o),
         op'[q] = op[q], row'[q] = row[q], receipt'[q] = receipt[q]
  PROVE  Uncut(q)'
<1>1. Lags(q)' = Lags(q)
  BY DEF Lags
<1>2. CASE proc' = proc
  BY <1>1, <1>2 DEF Uncut, Running
<1>3. CASE (proc = Idle \/ proc.o = o) /\ (proc' = Idle \/ proc'.o = o)
  <2>1. \A step \in {"pend", "close", "follow"} : ~Running(step, q) /\ ~Running(step, q)'
    BY <1>3, Resting DEF Running
  <2>2. ~(proc'.o = q /\ proc'.mode = "abandon")
    BY <1>3 DEF Idle
  <2> QED BY <1>1, <2>1, <2>2 DEF Uncut
<1> QED BY <1>2, <1>3 DEF Turns

LEMMA CommandTurns ==
  ASSUME IInv, NEW o \in Ops, Prepare(o) \/ Command(o) \/ Advance(o)
  PROVE  Turns(o)
<1>1. proc \in Procs
  BY Typed
<1>2. ASSUME NEW mode, NEW step, NEW arg, Begin(o, mode, step, arg) PROVE Turns(o)
  BY <1>2 DEF Begin, Turns
<1>3. ASSUME NEW step, NEW arg, proc.o = o, GotoWith(step, arg) PROVE Turns(o)
  BY <1>1, <1>3 DEF GotoWith, Turns, Procs
<1>4. CASE Prepare(o)
  BY <1>4 DEF Prepare, Turns
<1>5. CASE Command(o)
  BY <1>2, <1>5 DEF Command, ApproveExpired, ApproveReserves, Resume, ResumeReceipt,
         ResumeAuthorization, ResumeMarked, ResumeRead, Wait, AbandonUnsigned,
         Abandon, AbandonAgain
<1>6. CASE Authorization(o)
  BY <1>3, <1>6 DEF Authorization, Pend, Authorized, AuthorizeLater, AuthorizeNotFound,
         AuthorizeRefused, AuthorizeExpired, Authorizing, Running, Step, Terminate, Goto
<1>7. CASE Reconciliation(o)
  <2>1. CASE ReadUsed(o) \/ ReadNeverUsed(o)
    <3>1. proc.o = o /\ \E s, p, next : Prove(o, s, p, next)
      BY <2>1 DEF ReadUsed, ReadNeverUsed, Running
    <3>2. proc' = Idle \/ \E next : GotoWith(next, "none")
      BY <3>1 DEF Prove, Goto
    <3> QED BY <1>3, <3>1, <3>2 DEF Turns
  <2>2. CASE RecoverOrphan(o) \/ Finish(o) \/ ReadNothing(o)
    BY <1>3, <2>2 DEF RecoverOrphan, Finish, ReadNothing, Running, Step, Goto
  <2> QED BY <1>7, <2>1, <2>2 DEF Reconciliation
<1>8. CASE Request(o)
  <2>1. CASE Http(o)
    BY <1>1, <2>1 DEF Http, Running, Turns, Procs
  <2>2. CASE AnsweredNothing(o) \/ AnsweredNoHeader(o) \/ AnsweredConflict(o)
             \/ AnsweredHeader(o)
    <3>1. proc.o = o /\ (proc' = Idle \/ \E step, arg : GotoWith(step, arg))
      BY <2>2 DEF AnsweredNothing, AnsweredNoHeader, AnsweredConflict, AnsweredHeader,
             Answered, Observed, Running, Goto
    <3> QED BY <1>3, <3>1 DEF Turns
  <2>3. CASE Act(o) \/ SendTooLate(o) \/ BeginAttempt(o) \/ KeepResult(o) \/ LinkResult(o)
    BY <1>3, <2>3 DEF Act, SendTooLate, BeginAttempt, KeepResult, LinkResult,
           Running, Step, Terminate, Goto
  <2> QED BY <1>8, <2>1, <2>2, <2>3 DEF Request
<1>9. CASE Ending(o)
  BY <1>3, <1>9 DEF Ending, WriteReceipt, Close, Follow, Running, Turns, Goto
<1> QED BY <1>4, <1>5, <1>6, <1>7, <1>8, <1>9 DEF Advance

(* A step between those that write the hold, the receipt and the outcome.   *)
LEMMA QuietStep ==
  ASSUME NEW o \in Ops, Uncut(o), UNCHANGED <<row, receipt>>, receipt[o] = "none",
         proc = Idle \/ proc.at \notin {"receipt", "close", "follow"},
         \/ op'[o] = op[o] /\ proc.at # "pend"
         \/ op'[o] \in Pending \ {"awaiting_approval"},
         proc'.o = o => proc'.mode # "abandon"
  PROVE  Uncut(o)'
<1>1. CASE op'[o] = op[o] /\ proc.at # "pend"
  <2>1. Lags(o)' = Lags(o)
    BY <1>1 DEF Lags
  <2>2. ~Running("pend", o) /\ ~Running("follow", o)
    BY <1>1, Resting DEF Running
  <2> QED BY <1>1, <2>1, <2>2 DEF Uncut
<1>2. CASE op'[o] \in Pending \ {"awaiting_approval"}
  BY <1>2, Names DEF Uncut
<1> QED BY <1>1, <1>2

(* A command that starts finds the hold and the receipt where the record    *)
(* has them.                                                                *)
LEMMA CommandUncut ==
  ASSUME IInv, NEW o \in Ops, Uncut(o), Command(o)
  PROVE  Uncut(o)'
<1>1. ASSUME proc = Idle
      PROVE  /\ op[o] = "awaiting_approval" => row[o] = "none"
             /\ op[o] \in Pending => receipt[o] = "none"
             /\ op[o] \in Terminal => ~Lags(o)
  BY <1>1, Typed, Resting DEF Uncut, Running
<1>2. ASSUME NEW mode \in Modes, NEW step \in Steps, NEW arg \in Args,
             Begin(o, mode, step, arg)
      PROVE  proc = Idle /\ proc'.mode = mode /\ proc'.at = step /\ proc'.arg = arg /\ proc'.o = o
  BY <1>2 DEF Begin
<1>3. CASE \/ ApproveExpired(o) \/ ResumeAuthorization(o) \/ ResumeRead(o) \/ Wait(o)
  <2>1. /\ op' = op /\ UNCHANGED <<row, receipt>> /\ op[o] \in Pending
        /\ proc = Idle /\ proc'.mode # "abandon"
    BY <1>3, Names DEF ApproveExpired, ResumeAuthorization, ResumeRead, Wait, AfterApproval,
           Begin, disk
  <2>2. receipt[o] = "none" /\ proc.at # "pend"
    BY <1>1, <2>1, Resting
  <2> QED BY <2>1, <2>2, QuietStep
<1>4. CASE ResumeMarked(o)
  <2>1. /\ UNCHANGED <<row, receipt>> /\ receipt[o] = "none"
        /\ proc = Idle /\ proc'.mode # "abandon"
        /\ op'[o] \in Pending \ {"awaiting_approval"}
    BY <1>4, Typed, Names DEF ResumeMarked, AfterApproval, Begin, Record, IInv, TypeOK
  <2> QED BY <2>1, QuietStep
<1>5. CASE ApproveReserves(o)
  <2>1. /\ op' = op /\ UNCHANGED receipt /\ op[o] = "awaiting_approval" /\ proc = Idle
        /\ proc'.at = "pend" /\ proc'.o = o /\ proc'.mode = "approve"
    BY <1>5 DEF ApproveReserves, Begin
  <2> QED BY <1>1, <2>1, Names DEF Uncut, Running
<1>6. CASE ResumeReceipt(o)
  BY <1>1, <1>6 DEF ResumeReceipt, Begin
<1>7. CASE AbandonUnsigned(o) \/ Abandon(o)
  <2>1. /\ UNCHANGED <<row, receipt>> /\ op[o] \in Pending /\ receipt[o] = "none"
        /\ proc = Idle /\ proc'.at = "receipt" /\ proc'.o = o
    BY <1>7 DEF AbandonUnsigned, Abandon, Abandonable, Begin, disk
  <2>2. /\ op'[o] \in Pending
        /\ op'[o] = "awaiting_approval" => op[o] = "awaiting_approval"
        /\ proc'.arg # "abandoned_unknown" => op'[o] = "awaiting_approval"
    BY <1>7, <2>1, Names DEF AbandonUnsigned, Abandon, Record, Begin, disk, IInv, TypeOK
  <2> QED BY <1>1, <2>1, <2>2, Names DEF Uncut
<1>8. CASE AbandonAgain(o)
  BY <1>1, <1>8, Names DEF AbandonAgain, Begin
<1> QED BY <1>3, <1>4, <1>5, <1>6, <1>7, <1>8 DEF Command, Resume

(* The steps between.                                                       *)
LEMMA WorkUncut ==
  ASSUME IInv, NEW o \in Ops, Uncut(o), Authorization(o) \/ Reconciliation(o) \/ Request(o)
  PROVE  Uncut(o)'
<1>1. PICK step \in Steps \ {"idle", "receipt", "close", "follow"} : Running(step, o)
  BY Names DEF Authorization, Pend, Authorized, AuthorizeLater, AuthorizeNotFound,
         AuthorizeRefused, AuthorizeExpired, Authorizing, Running,
         Reconciliation, RecoverOrphan, Finish, ReadUsed, ReadNeverUsed, ReadNothing,
         Request, Act, SendTooLate, BeginAttempt, Http, AnsweredNothing,
         AnsweredNoHeader, AnsweredConflict, AnsweredHeader, Answered, KeepResult, LinkResult
<1>2. /\ receipt[o] = "none" /\ op[o] \in Pending
      /\ proc.at # "pend" => op[o] # "awaiting_approval"
      /\ proc.at \notin {"receipt", "close", "follow"} /\ proc.o = o
  BY <1>1, AtWork DEF Works, Running
<1>3. UNCHANGED <<row, receipt>>
  BY DEF Authorization, Pend, Authorized, AuthorizeLater, AuthorizeNotFound,
         AuthorizeRefused, AuthorizeExpired, Reconciliation, RecoverOrphan, Finish,
         ReadUsed, ReadNeverUsed, ReadNothing, Prove, Request, Act, SendTooLate,
         BeginAttempt, Http, AnsweredNothing, AnsweredNoHeader, AnsweredConflict,
         AnsweredHeader, Observed, KeepResult, LinkResult, Step, Terminate, disk
<1>4. \/ op'[o] = op[o] /\ proc.at # "pend"
      \/ op'[o] \in Pending \ {"awaiting_approval"}
  <2>1. CASE Pend(o)
    BY <2>1, Names DEF Pend, Record, IInv, TypeOK
  <2>2. CASE ~Pend(o)
    <3>1. proc.at # "pend"
      BY <1>2, <2>2, Names DEF Authorization, Authorized, AuthorizeLater, AuthorizeNotFound,
         AuthorizeRefused, AuthorizeExpired, Authorizing, Running,
         Reconciliation, RecoverOrphan, Finish, ReadUsed, ReadNeverUsed, ReadNothing,
         Request, Act, SendTooLate, BeginAttempt, Http, AnsweredNothing,
         AnsweredNoHeader, AnsweredConflict, AnsweredHeader, Answered, KeepResult, LinkResult
    <3>2. Moved(o)
      BY AdvanceMoves DEF Advance
    <3>3. op' = op \/ \E s \in Pending : op' = [op EXCEPT ![o] = s]
      BY <1>2, <1>3, <3>2 DEF Moved
    <3>4. op'[o] # op[o] => \E s : Legal(op[o], s) /\ op' = [op EXCEPT ![o] = s]
      <4>1. CASE Authorization(o)
        BY <2>2, <4>1 DEF Authorization, Authorized, AuthorizeLater, AuthorizeNotFound,
           AuthorizeRefused, AuthorizeExpired, Step, Terminate, disk, Record
      <4>2. CASE Reconciliation(o)
        BY <4>2 DEF Reconciliation, RecoverOrphan, Finish, ReadUsed, ReadNeverUsed,
           ReadNothing, Prove, Step, disk, Record
      <4>3. CASE Act(o) \/ SendTooLate(o) \/ BeginAttempt(o) \/ Http(o)
                 \/ KeepResult(o) \/ LinkResult(o)
        BY <4>3 DEF Act, SendTooLate, BeginAttempt, Http, KeepResult, LinkResult,
           Step, Terminate, disk, Record
      <4>4. CASE AnsweredNothing(o) \/ AnsweredNoHeader(o) \/ AnsweredConflict(o)
                 \/ AnsweredHeader(o)
        BY <4>4 DEF AnsweredNothing, AnsweredNoHeader, AnsweredConflict, AnsweredHeader,
           Observed, Record
      <4> QED BY <4>1, <4>2, <4>3, <4>4 DEF Request
    <3>5. op'[o] # op[o] => op'[o] # "awaiting_approval"
      BY <3>4, LegalOnly DEF IInv, TypeOK
    <3> QED BY <1>2, <3>1, <3>3, <3>5 DEF IInv, TypeOK
  <2> QED BY <2>1, <2>2
<1>5. proc'.mode # "abandon"
  <2>1. proc.mode # "abandon"
    BY <1>2 DEF Uncut
  <2>2. proc \in Procs
    BY Typed
  <2>3. ASSUME NEW to, NEW arg, GotoWith(to, arg) PROVE proc'.mode = proc.mode
    BY <2>2, <2>3 DEF GotoWith, Procs
  <2>4. CASE proc' = Idle
    BY <2>4 DEF Idle
  <2>5. CASE Http(o)
    BY <2>1, <2>2, <2>5 DEF Http, Procs
  <2>6. CASE proc' # Idle /\ ~Http(o)
    <3>1. \E to, arg : GotoWith(to, arg)
      BY <2>6 DEF Authorization, Pend, Authorized, AuthorizeLater, AuthorizeNotFound,
         AuthorizeRefused, AuthorizeExpired, Reconciliation, RecoverOrphan, Finish,
         ReadUsed, ReadNeverUsed, ReadNothing, Prove, Request, Act, SendTooLate,
         BeginAttempt, AnsweredNothing, AnsweredNoHeader, AnsweredConflict,
         AnsweredHeader, Observed, KeepResult, LinkResult, Step, Terminate, Goto
    <3> QED BY <2>1, <2>3, <3>1
  <2> QED BY <2>4, <2>5, <2>6
<1> QED BY <1>2, <1>3, <1>4, <1>5, QuietStep

(* The receipt, then the outcome, then the hold; an abandonment that goes   *)
(* no further than the outcome had no hold.                                 *)
LEMMA EndingUncut ==
  ASSUME IInv, NEW o \in Ops, Uncut(o), Ending(o)
  PROVE  Uncut(o)'
<1>1. proc \in Procs /\ op[o] \in Pending \cup Terminal \cup {"none"}
  BY Typed
<1>2. CASE WriteReceipt(o)
  <2>1. /\ Ends(o, proc.arg) /\ op' = op /\ row' = row /\ op[o] \in Pending
        /\ proc.o = o /\ proc.at = "receipt"
    BY <1>2, AtWork, Names DEF WriteReceipt, Ends, Running
  <2>2. receipt[o] = "none"
    BY <2>1 DEF Uncut, Running
  <2>3. Goto("close") /\ receipt' = [receipt EXCEPT ![o] = proc.arg]
    BY <1>2, <2>2 DEF WriteReceipt
  <2>4. /\ proc'.at = "close" /\ proc'.o = o /\ proc'.mode = proc.mode
        /\ receipt'[o] = proc.arg
    BY <1>1, <2>1, <2>3 DEF Goto, GotoWith, Procs, IInv, TypeOK
  <2>5. op[o] = "awaiting_approval" => row[o] = "none"
    BY <2>1 DEF Uncut, Running
  <2>6. op[o] \notin Terminal
    BY <2>1, Names
  <2> QED BY <2>1, <2>4, <2>5, <2>6 DEF Uncut, Running
<1>3. CASE Close(o)
  <2>1. /\ proc.o = o /\ proc.at = "close" /\ receipt' = receipt /\ row' = row
        /\ Legal(op[o], receipt[o]) /\ op'[o] = receipt[o]
    BY <1>1, <1>3 DEF Close, Running, Record, IInv, TypeOK
  <2>2. receipt[o] \in Terminal /\ op'[o] \notin Pending
    <3>1. receipt[o] # "none"
      BY <1>3, AtWork, Names DEF Close
    <3> QED BY <2>1, <3>1, Typed, Names
  <2>3. CASE proc.mode = "abandon" /\ receipt[o] # "abandoned_unknown"
    <3>1. op[o] = "awaiting_approval" /\ row[o] = "none" /\ proc' = Idle
      BY <1>3, <2>1, <2>3 DEF Uncut, Running, Close
    <3>2. ~Lags(o)'
      BY <2>1, <3>1 DEF Lags
    <3> QED BY <2>2, <3>1, <3>2, Names DEF Uncut, Idle
  <2>4. CASE ~(proc.mode = "abandon" /\ receipt[o] # "abandoned_unknown")
    <3>1. proc'.at = "follow" /\ proc'.o = o /\ proc'.mode = proc.mode
      BY <1>1, <1>3, <2>1, <2>4 DEF Close, Goto, GotoWith, Procs
    <3> QED BY <2>2, <3>1, Names DEF Uncut, Running
  <2> QED BY <2>3, <2>4
<1>4. CASE Follow(o)
  <2> DEFINE next == TransitionTo(row[o], Target(op[o]))
  <2>1. /\ proc.o = o /\ proc.at = "follow" /\ op' = op /\ receipt' = receipt
        /\ row'[o] = IF Lags(o) THEN next ELSE row[o]
        /\ IF Lags(o) /\ next # Target(op[o]) THEN proc' = proc ELSE proc' = Idle
    BY <1>4 DEF Follow, Running, IInv, TypeOK
  <2>2. /\ op[o] = "awaiting_approval" => row[o] = "none"
        /\ op[o] \in Pending => receipt[o] = "none"
    BY <2>1, Typed, Names DEF Uncut, Running
  <2>3. op[o] = "awaiting_approval" => row'[o] = "none"
    BY <2>1, <2>2 DEF Lags
  <2>4. CASE proc' = proc
    BY <2>1, <2>2, <2>3, <2>4, Names DEF Uncut, Running
  <2>5. CASE proc' = Idle
    <3>1. \/ ~Lags(o) /\ row'[o] = row[o]
          \/ row'[o] = Target(op[o])
      <4>1. proc' # proc
        BY <2>1, <2>5, Resting
      <4> QED BY <2>1, <4>1
    <3>2. ~(Rank(Target(op[o])) < Rank(Target(op[o])))
      BY DEF Rank
    <3>3. ~Lags(o)'
      BY <2>1, <3>1, <3>2 DEF Lags
    <3> QED BY <2>1, <2>2, <2>3, <2>5, <3>3, Names DEF Uncut, Idle
  <2> QED BY <2>1, <2>4, <2>5
<1> QED BY <1>2, <1>3, <1>4 DEF Ending

LEMMA UncutStep ==
  ASSUME IInv, AllUncut, [Next]_vars
  PROVE  AllUncut'
<1> SUFFICES ASSUME stops' = 0 PROVE \A q \in Ops : Uncut(q)'
  BY DEF AllUncut
<1>1. CASE UNCHANGED vars
  BY <1>1 DEF AllUncut, Uncut, Lags, Running, vars, disk
<1>2. CASE Stop
  BY <1>2 DEF Stop, IInv, TypeOK
<1>3. ASSUME NEW o \in Ops, Chain(o) PROVE \A q \in Ops : Uncut(q)'
  <2>1. UNCHANGED <<op, row, receipt, proc, stops>>
    BY <1>3 DEF Chain, Leak, Settle, Reorganise, Finalize, Settlement, Pass, Expire, disk
  <2> QED BY <2>1 DEF AllUncut, Uncut, Lags, Running
<1>4. ASSUME NEW o \in Ops, Prepare(o) \/ Command(o) \/ Advance(o)
      PROVE  \A q \in Ops : Uncut(q)'
  <2>1. stops = 0
    BY <1>4 DEF Prepare, Command, ApproveExpired, ApproveReserves, Resume, ResumeReceipt,
         ResumeAuthorization, ResumeMarked, ResumeRead, Wait, AbandonUnsigned,
         Abandon, AbandonAgain, Advance, Authorization, Pend, Authorized, AuthorizeLater,
         AuthorizeNotFound, AuthorizeRefused, AuthorizeExpired, Reconciliation,
         RecoverOrphan, Finish, ReadUsed, ReadNeverUsed, ReadNothing, Prove, Request, Act,
         SendTooLate, BeginAttempt, Http, AnsweredNothing, AnsweredNoHeader,
         AnsweredConflict, AnsweredHeader, Observed, KeepResult, LinkResult, Ending,
         WriteReceipt, Close, Follow, Step, Terminate
  <2>2. \A q \in Ops : Uncut(q)
    BY <2>1 DEF AllUncut
  <2>3. Turns(o)
    BY <1>4, CommandTurns
  <2>4. ASSUME NEW q \in Ops \ {o} PROVE Uncut(q)'
    <3>1. Moved(o)
      BY <1>4, CommandMoves, AdvanceMoves
    <3>2. op'[q] = op[q] /\ receipt'[q] = receipt[q]
      BY <3>1 DEF Moved, IInv, TypeOK
    <3>3. UNCHANGED row \/ \E r : row' = [row EXCEPT ![o] = r]
      BY <1>4, RowStays DEF ApproveReserves, Follow
    <3>4. row'[q] = row[q]
      BY <3>3 DEF IInv, TypeOK
    <3> QED BY <2>2, <2>3, <3>2, <3>4, UncutElsewhere
  <2>5. Uncut(o)'
    <3>1. CASE Prepare(o)
      <4>1. /\ op[o] = "none" /\ op'[o] = "awaiting_approval"
            /\ UNCHANGED <<row, receipt, proc>>
        BY <3>1 DEF Prepare, IInv, TypeOK
      <4>2. row[o] = "none" /\ receipt[o] = "none"
        BY <4>1, Typed DEF RowFits, ReceiptFits
      <4> QED BY <2>2, <4>1, <4>2, Names DEF Uncut
    <3> QED BY <1>4, <2>2, <3>1, CommandUncut, WorkUncut, EndingUncut DEF Advance
  <2> QED BY <2>4, <2>5
<1> QED BY <1>1, <1>2, <1>3, <1>4 DEF Next

(* No command that runs to its end leaves the hold of a finished purchase   *)
(* behind its record: only one that was cut short does.                     *)
THEOREM OnlyStopsLeaveHoldsBehind == Spec => []OnlyStopsLeaveHolds
<1>1. Init => AllUncut
  BY Names DEF Init, AllUncut, Uncut, Idle
<1>2. IInv /\ AllUncut => OnlyStopsLeaveHolds
  <2>1. IInv /\ stops # 0 => stops > 0
    BY DEF IInv, TypeOK
  <2> QED BY <2>1 DEF AllUncut, Uncut, OnlyStopsLeaveHolds
<1>3. IInv /\ AllUncut /\ [Next]_vars => AllUncut'
  BY UncutStep
<1> QED BY <1>1, <1>2, <1>3, Inductive, PTL DEF Spec

=============================================================================
