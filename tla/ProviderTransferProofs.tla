----------------------- MODULE ProviderTransferProofs -----------------------
(* USDC transfers that a wallet provider sends: theorems for every number   *)
(* of transfers, lanes, stops between two steps and replaced blocks.        *)
EXTENDS ProviderTransfer, TLAPS

Sendings == [stage : {"none", "waiting", "denied", "out"},
             mined : {"no", "ok", "reverted"},
             ever : SUBSET {"ok", "reverted"}, from : Accounts]
Receipts == [of : Records, over : Records]
Effects == [phase : Phases, attempts : Nat]
Runs == [at : Steps, then : Steps, by : {"execute", "observe"},
         answer : {"none", "taken", "other", "lost"}, to : Records]

Typed ==
  /\ rec \in [Ops -> Records] /\ receipt \in [Ops -> Receipts]
  /\ effect \in [Ops -> Effects] /\ run \in [Ops -> Runs]
  /\ sends \in [Ops -> Nat] /\ sent \in [Ops -> Sendings]

(* What a record r of p claims of the world s, if it is an outcome.         *)
Told(p, r, s) ==
  /\ r.state = "completed" =>
       r.hash \in Ops /\ "ok" \in s[r.hash].ever /\ s[r.hash].from = "bound"
  /\ r.state = "failed_confirmed_revert" =>
       r.hash \in Ops /\ "reverted" \in s[r.hash].ever
  /\ r.state \in {"failed_before_effect", "failed_provider_rejected"}
     /\ r.token \in {None, p} => s[p].stage \in {"none", "denied"}

(* Nothing is sent before the start is on disk, and only what was counted.  *)
Counted(p) ==
  /\ sends[p] <= 1
  /\ sends[p] > 0 => rec[p].state \notin {"none", "awaiting_approval"}
  /\ rec[p].lane = "delegated" /\ effect[p].phase = "none" => sends[p] = 0
  /\ effect[p].phase # "none" => sends[p] > 0
  /\ sent[p].stage # "none" => sends[p] > 0
  /\ sent[p].stage = "none" => sent[p].ever = {}
  /\ sent[p].mined # "no" => sent[p].mined \in sent[p].ever

(* The receipt of a terminal record is there, and so is what it was made    *)
(* from.                                                                    *)
ReceiptFits(p) ==
  /\ rec[p].state \in Terminal => receipt[p].of = rec[p]
  /\ receipt[p].of.state \in Terminal => receipt[p].of.lane = receipt[p].over.lane
  /\ Told(p, receipt[p].of, sent)

(* What the command at work relies on at its next step.                     *)
Writing == {"record", "receipt", "close"}
WriteFits(p) ==
  LET r == run[p]
  IN /\ r.to.state \in Terminal \cup Open /\ Told(p, r.to, sent)
     /\ r.to.lane = rec[p].lane \/ r.to.state = "awaiting_approval"
     /\ r.at = "record" =>
          /\ r.to.state \in Open
          /\ r.to.state = "awaiting_approval" => rec[p].state = "none"
     /\ r.at = "receipt" => r.to.state \in Terminal \/ rec[p] = r.to
     /\ r.at = "close" => r.to.state \in Terminal /\ receipt[p].of = r.to
     /\ r.then = "execute" => r.to.state = "started" /\ sends[p] = 0
     /\ r.then = "inspect" => r.to.hash \in Ops
WorkFits(p) ==
  LET r == run[p]
  IN /\ r.then \in {"idle", "consent"}
     /\ r.at = "execute" =>
          rec[p].state = "started" /\ (rec[p].lane # "delegated" => sends[p] = 0)
     /\ r.at = "inspect" => rec[p].hash \in Ops
     /\ r.at \in {"submit", "broadcast", "answered"} => effect[p].phase # "none"
     /\ receipt[p].of.state \notin Terminal
RunFits(p) ==
  \/ run[p] = Idle
  \/ /\ rec[p].state \notin Terminal /\ run[p].at # "idle"
     /\ run[p].then \in {"idle", "consent", "inspect", "execute"}
     /\ IF run[p].at \in Writing THEN WriteFits(p) ELSE WorkFits(p)

Fits(p) == Counted(p) /\ ReceiptFits(p) /\ RunFits(p)
IInv == Typed /\ \A p \in Ops : Fits(p)

-----------------------------------------------------------------------------
(* A step for p leaves the other transfers alone, and what was once in a    *)
(* block stays known to have been there.                                    *)
Alone(p) ==
  \A q \in Ops \ {p} :
    /\ rec'[q] = rec[q] /\ receipt'[q] = receipt[q] /\ effect'[q] = effect[q]
    /\ run'[q] = run[q] /\ sends'[q] = sends[q] /\ sent'[q] = sent[q]
Grows ==
  \A q \in Ops : /\ sent[q].ever \subseteq sent'[q].ever
                 /\ sent[q].ever # {} => sent'[q].from = sent[q].from

LEMMA ToldStays ==
  ASSUME Grows, NEW p \in Ops, NEW r, Told(p, r, sent),
         r.state \in {"failed_before_effect", "failed_provider_rejected"} =>
           \/ sent'[p].stage = sent[p].stage
           \/ sent[p].stage \notin {"none", "denied"}
  PROVE  Told(p, r, sent')
BY DEF Told, Grows

LEMMA ActionKeeps ==
  ASSUME IInv, NEW p \in Ops, Typed', Alone(p), Grows, Fits(p)'
  PROVE  IInv'
<1>1. ASSUME NEW q \in Ops \ {p} PROVE Fits(q)'
  <2>1. /\ rec'[q] = rec[q] /\ receipt'[q] = receipt[q] /\ effect'[q] = effect[q]
        /\ run'[q] = run[q] /\ sends'[q] = sends[q] /\ sent'[q] = sent[q]
        /\ Counted(q) /\ ReceiptFits(q) /\ RunFits(q)
    BY <1>1 DEF Alone, IInv, Fits
  <2>2. Counted(q)'
    BY <2>1 DEF Counted
  <2>3. ReceiptFits(q)'
    BY <2>1, ToldStays DEF ReceiptFits
  <2>4. RunFits(q)'
    <3>1. CASE run[q].at \in Writing
      <4>1. run[q] # Idle => WriteFits(q)
        BY <2>1, <3>1 DEF RunFits
      <4>2. run[q] # Idle => WriteFits(q)'
        BY <2>1, <4>1, ToldStays DEF WriteFits
      <4> QED BY <2>1, <3>1, <4>2 DEF RunFits
    <3>2. CASE run[q].at \notin Writing
      BY <2>1, <3>2 DEF RunFits, WorkFits
    <3> QED BY <3>1, <3>2
  <2> QED BY <2>2, <2>3, <2>4 DEF Fits
<1> QED BY <1>1 DEF IInv

LEMMA Names ==
  /\ {"idle", "execute", "answer", "submit", "broadcast", "answered", "inspect", "consent",
      "record", "receipt", "close"} = Steps
  /\ "none" \notin Terminal \cup Open
  /\ Terminal \cap Open = {}
  /\ {"failed_before_effect", "failed_provider_rejected", "completed",
      "failed_confirmed_revert", "abandoned_unknown"} = Terminal
  /\ {"awaiting_approval", "started", "provider_pending",
         "provider_acknowledged", "evidence_pending", "ambiguous_effect"} = Open
  /\ Accounts = {"bound", "other"}
BY DEF Steps, Terminal, Open, Accounts

LEMMA RecordOf ==
  ASSUME Typed, NEW p \in Ops, NEW state \in Terminal \cup Open
  PROVE  /\ With(p, state) \in Records /\ With(p, state).state = state
         /\ With(p, state).lane = rec[p].lane /\ With(p, state).hash = rec[p].hash
         /\ With(p, state).token = rec[p].token
BY DEF With, Typed, Records

LEMMA Resting ==
  /\ NoRecord \in Records /\ NoRecord.state = "none" /\ NoReceipt \in Receipts
  /\ NoReceipt.of = NoRecord
  /\ Idle \in Runs /\ Idle.at = "idle" /\ Idle.then = "idle" /\ Idle.to = NoRecord
  /\ NotSent \in Sendings /\ NotSent.ever = {} /\ NotSent.mined = "no"
BY Names DEF NoRecord, Records, NoReceipt, Receipts, Idle, Runs, NotSent, Sendings

LEMMA Ran ==
  ASSUME Typed, NEW p \in Ops, NEW r \in Runs, run' = [run EXCEPT ![p] = r]
  PROVE  /\ run' \in [Ops -> Runs] /\ run'[p] = r
         /\ \A q \in Ops \ {p} : run'[q] = run[q]
BY DEF Typed

(* The effect of p goes on to another phase, but is not sealed anew.        *)
Phased(p) ==
  /\ effect' \in [Ops -> Effects]
  /\ \A q \in Ops \ {p} : effect'[q] = effect[q]
  /\ effect'[p].phase = "none" <=> effect[p].phase = "none"

LEMMA Unphased ==
  ASSUME Typed, NEW p \in Ops, UNCHANGED effect PROVE Phased(p)
BY DEF Typed, Phased

(* A step that moves the command and the effect only.                       *)
LEMMA StepKeeps ==
  ASSUME IInv, NEW p \in Ops, NEW r \in Runs, run' = [run EXCEPT ![p] = r],
         UNCHANGED <<rec, receipt, sends, sent>>, Phased(p), RunFits(p)'
  PROVE  IInv'
<1>1. Typed /\ Counted(p) /\ ReceiptFits(p)
  BY DEF IInv, Fits
<1>2. /\ run' \in [Ops -> Runs] /\ run'[p] = r
      /\ \A q \in Ops \ {p} : run'[q] = run[q]
  BY <1>1, Ran
<1>3. Typed'
  BY <1>1, <1>2 DEF Typed, Phased
<1>4. Alone(p) /\ Grows
  BY <1>2 DEF Alone, Grows, Phased
<1>5. Counted(p)'
  BY <1>1 DEF Counted, Phased
<1>6. ReceiptFits(p)'
  BY <1>1 DEF ReceiptFits
<1> QED BY <1>3, <1>4, <1>5, <1>6, ActionKeeps DEF Fits

LEMMA IdleKeeps ==
  ASSUME IInv, NEW p \in Ops, run' = [run EXCEPT ![p] = Idle],
         UNCHANGED <<rec, receipt, sends, sent>>, Phased(p)
  PROVE  IInv'
<1>1. run'[p] = Idle
  BY Ran, Resting DEF IInv
<1>2. RunFits(p)'
  BY <1>1 DEF RunFits
<1> QED BY <1>2, Resting, StepKeeps

(* The record that a command may decide to write over the one of p.         *)
Writes(p, next, then) ==
  /\ next \in Records /\ next.state \in Terminal \cup Open
  /\ rec[p].state \notin Terminal
  /\ next.lane = rec[p].lane \/ next.state = "awaiting_approval"
  /\ next.state = "awaiting_approval" => rec[p].state = "none"
  /\ then \in {"idle", "consent", "inspect", "execute"}
  /\ then = "execute" => next.state = "started" /\ sends[p] = 0
  /\ then = "inspect" => next.hash \in Ops
  /\ Told(p, next, sent)

LEMMA WriteKeeps ==
  ASSUME IInv, NEW p \in Ops, NEW next, NEW then, Writes(p, next, then),
         TransitionTo(p, next, then),
         UNCHANGED <<rec, receipt, sends, sent>>, Phased(p)
  PROVE  IInv'
<1> DEFINE at == IF next.state \in Terminal THEN "receipt" ELSE "record"
           r == [Idle EXCEPT !.at = at, !.to = next, !.then = then]
<1>1. run' = [run EXCEPT ![p] = r]
  BY DEF TransitionTo
<1>2. at \in {"receipt", "record"} /\ (at = "receipt" <=> next.state \in Terminal)
  OBVIOUS
<1>3. r \in Runs /\ r.at = at /\ r.to = next /\ r.then = then
  BY <1>2, Resting, Names DEF Runs, Writes
<1> HIDE DEF r
<1>4. run'[p] = r
  BY <1>1, <1>3, Ran DEF IInv
<1>5. WriteFits(p)'
  BY <1>2, <1>3, <1>4, Names DEF WriteFits, Writes
<1>6. RunFits(p)'
  BY <1>2, <1>3, <1>4, <1>5, Names DEF RunFits, Writes, Writing
<1> QED BY <1>1, <1>3, <1>6, StepKeeps

(* What a step that writes nothing must leave for the step it moves to.     *)
Works(p, at, then) ==
  /\ rec[p].state \notin Terminal
  /\ then \in {"idle", "consent"}
  /\ at \in Steps \ (Writing \cup {"idle"})
  /\ at = "execute" =>
       rec[p].state = "started" /\ (rec[p].lane # "delegated" => sends[p] = 0)
  /\ at = "inspect" => rec[p].hash \in Ops
  /\ at \in {"submit", "broadcast", "answered"} => effect[p].phase # "none"
  /\ receipt[p].of.state \notin Terminal

LEMMA GotoKeeps ==
  ASSUME IInv, NEW p \in Ops, NEW r \in Runs, run' = [run EXCEPT ![p] = r],
         Works(p, r.at, r.then)',
         UNCHANGED <<rec, receipt, sends, sent>>, Phased(p)
  PROVE  IInv'
<1>1. run'[p] = r
  BY Ran DEF IInv
<1>2. RunFits(p)'
  BY <1>1 DEF Works, RunFits, WorkFits
<1> QED BY <1>2, StepKeeps

LEMMA Working ==
  ASSUME IInv, NEW p \in Ops, run[p].at \notin Writing \cup {"idle"}
  PROVE  /\ rec[p] \in Records /\ rec[p].state \notin Terminal
         /\ WorkFits(p) /\ Counted(p) /\ ReceiptFits(p)
BY Resting DEF IInv, Fits, Typed, RunFits

LEMMA AtRest ==
  ASSUME IInv, NEW p \in Ops, Found(p), rec[p].state \notin Terminal
  PROVE  /\ rec[p] \in Records /\ receipt[p].of.state \notin Terminal
         /\ Counted(p) /\ ReceiptFits(p)
BY DEF IInv, Fits, Typed, Found, Orphan

(* A record that is no outcome, made from the one that is there.            *)
LEMMA OpenWrites ==
  ASSUME NEW p \in Ops, NEW next \in Records, NEW then \in {"idle", "consent", "inspect"},
         next.state \in {"provider_pending", "provider_acknowledged", "evidence_pending",
                         "ambiguous_effect", "abandoned_unknown"},
         rec[p].state \notin Terminal, next.lane = rec[p].lane,
         then = "inspect" => next.hash \in Ops
  PROVE  Writes(p, next, then)
BY Names DEF Writes, Told

LEMMA OpenKeeps ==
  ASSUME IInv, NEW p \in Ops, NEW then \in {"idle", "consent", "inspect"},
         NEW state \in {"provider_pending", "provider_acknowledged", "evidence_pending",
                        "ambiguous_effect", "abandoned_unknown"},
         rec[p].state \notin Terminal, then = "inspect" => rec[p].hash \in Ops,
         Transition(p, state, then),
         UNCHANGED <<rec, receipt, sends, sent>>, Phased(p)
  PROVE  IInv'
<1>1. /\ With(p, state) \in Records /\ With(p, state).state = state
      /\ With(p, state).lane = rec[p].lane /\ With(p, state).hash = rec[p].hash
  BY RecordOf, Names DEF IInv
<1>2. Writes(p, With(p, state), then)
  BY <1>1, OpenWrites
<1> QED BY <1>2, WriteKeeps DEF Transition

(* The same, with a request or a transaction that the record now names.     *)
LEMMA NamedKeeps ==
  ASSUME IInv, NEW p \in Ops, NEW q \in Ops, NEW lost \in BOOLEAN,
         rec[p].state \notin Terminal,
         \/ Acknowledge(p, q)
         \/ TransitionTo(p, [With(p, "provider_pending") EXCEPT !.token = q], "idle")
         \/ TransitionTo(p, [With(p, "ambiguous_effect") EXCEPT !.token = q], "idle")
         \/ TransitionTo(p, [With(p, "ambiguous_effect") EXCEPT !.token = q,
                                                         !.lost = lost], "idle")
         \/ TransitionTo(p, [With(p, "ambiguous_effect") EXCEPT !.lost = lost], "idle"),
         UNCHANGED <<rec, receipt, sends, sent>>, Phased(p)
  PROVE  IInv'
<1>1. ASSUME NEW state \in {"provider_pending", "provider_acknowledged",
                            "ambiguous_effect"}
      PROVE  /\ With(p, state) \in Records /\ With(p, state).state = state
             /\ With(p, state).lane = rec[p].lane
  BY RecordOf, Names DEF IInv
<1>2. CASE Acknowledge(p, q)
  <2> DEFINE next == [With(p, "provider_acknowledged") EXCEPT !.hash = q]
  <2>1. /\ next \in Records /\ next.state = "provider_acknowledged"
        /\ next.lane = rec[p].lane /\ next.hash = q
    BY <1>1 DEF Records
  <2>2. TransitionTo(p, next, "inspect")
    BY <1>2 DEF Acknowledge
  <2> HIDE DEF next
  <2>3. Writes(p, next, "inspect")
    BY <2>1, OpenWrites
  <2> QED BY <2>2, <2>3, WriteKeeps
<1>3. ASSUME NEW next, NEW state \in {"provider_pending", "ambiguous_effect"},
             \/ next = [With(p, state) EXCEPT !.token = q]
             \/ next = [With(p, state) EXCEPT !.token = q, !.lost = lost]
             \/ next = [With(p, state) EXCEPT !.lost = lost],
             TransitionTo(p, next, "idle")
      PROVE  IInv'
  <2> DEFINE w == With(p, state)
  <2>1. w \in Records /\ w.state = state /\ w.lane = rec[p].lane
    BY <1>1
  <2>2. \/ next = [w EXCEPT !.token = q]
        \/ next = [w EXCEPT !.token = q, !.lost = lost]
        \/ next = [w EXCEPT !.lost = lost]
    BY <1>3
  <2> HIDE DEF w
  <2>3. next \in Records /\ next.state = state /\ next.lane = rec[p].lane
    <3>1. CASE next = [w EXCEPT !.token = q]
      BY <2>1, <3>1 DEF Records
    <3>2. CASE next = [w EXCEPT !.token = q, !.lost = lost]
      BY <2>1, <3>2 DEF Records
    <3>3. CASE next = [w EXCEPT !.lost = lost]
      BY <2>1, <3>3 DEF Records
    <3> QED BY <2>2, <3>1, <3>2, <3>3
  <2>4. Writes(p, next, "idle")
    BY <2>3, OpenWrites
  <2> QED BY <1>3, <2>4, WriteKeeps
<1> QED BY <1>2, <1>3

(* A record that is an outcome: what it claims must be so.                  *)
LEMMA OutcomeKeeps ==
  ASSUME IInv, NEW p \in Ops,
         NEW state \in {"completed", "failed_confirmed_revert", "failed_before_effect",
                        "failed_provider_rejected"},
         rec[p].state \notin Terminal, Told(p, With(p, state), sent),
         Transition(p, state, "idle"),
         UNCHANGED <<rec, receipt, sends, sent>>, Phased(p)
  PROVE  IInv'
<1>1. /\ With(p, state) \in Records /\ With(p, state).state = state
      /\ With(p, state).lane = rec[p].lane
  BY RecordOf, Names DEF IInv
<1>2. Writes(p, With(p, state), "idle")
  BY <1>1, Names DEF Writes
<1> QED BY <1>2, WriteKeeps DEF Transition

-----------------------------------------------------------------------------
(* The two files of a record.                                               *)
LEMMA Persisting ==
  ASSUME IInv, NEW p \in Ops, run[p].at \in Writing
  PROVE  /\ rec[p] \in Records /\ rec[p].state \notin Terminal
         /\ run[p] \in Runs /\ run[p].then \in {"idle", "consent", "inspect", "execute"}
         /\ WriteFits(p) /\ Counted(p) /\ ReceiptFits(p) /\ run[p].to \in Records
BY Resting DEF IInv, Fits, Typed, RunFits, Writing, Runs

LEMMA WriteReceiptKeeps ==
  ASSUME IInv, NEW p \in Ops, WriteReceipt(p)
  PROVE  IInv'
<1>1. /\ At(p, "receipt") /\ run[p].at = "receipt"
      /\ UNCHANGED <<rec, effect, sends, sent>>
  BY DEF WriteReceipt, At, world
<1>2. /\ rec[p] \in Records /\ rec[p].state \notin Terminal
      /\ run[p] \in Runs /\ run[p].then \in {"idle", "consent", "inspect", "execute"}
      /\ WriteFits(p) /\ Counted(p) /\ ReceiptFits(p) /\ run[p].to \in Records
  BY <1>1, Persisting DEF Writing
<1>3. CASE run[p].to.state \in Terminal
  <2> DEFINE r == [run[p] EXCEPT !.at = "close"]
             f == [of |-> run[p].to, over |-> rec[p]]
  <2>1. r \in Runs /\ r.at = "close" /\ r.to = run[p].to /\ r.then = run[p].then
    BY <1>2, Names DEF Runs
  <2>2. f \in Receipts /\ f.of = run[p].to /\ f.over = rec[p]
    BY <1>2 DEF Receipts
  <2>3. receipt' = [receipt EXCEPT ![p] = f] /\ run' = [run EXCEPT ![p] = r]
    BY <1>1, <1>3 DEF WriteReceipt, Goto
  <2> HIDE DEF r, f
  <2>4. Typed' /\ Alone(p) /\ Grows /\ run'[p] = r /\ receipt'[p] = f
    BY <1>1, <2>1, <2>2, <2>3 DEF IInv, Typed, Alone, Grows
  <2>5. Counted(p)'
    BY <1>1, <1>2 DEF Counted
  <2>6. /\ Told(p, run[p].to, sent) /\ run[p].to.lane = rec[p].lane
        /\ run[p].then \notin {"execute"}
    BY <1>2, <1>3, Names DEF WriteFits
  <2>7. ReceiptFits(p)'
    BY <1>1, <1>2, <2>2, <2>4, <2>6 DEF ReceiptFits
  <2>8. WriteFits(p)'
    BY <1>1, <1>2, <1>3, <2>1, <2>2, <2>4, <2>6, Names DEF WriteFits
  <2>9. RunFits(p)'
    BY <1>1, <1>2, <2>1, <2>4, <2>8 DEF RunFits, Writing
  <2> QED BY <2>4, <2>5, <2>7, <2>9, ActionKeeps DEF Fits
<1>4. CASE run[p].to.state \notin Terminal
  <2> DEFINE r == [Idle EXCEPT !.at = run[p].then]
  <2>1. r \in Runs /\ r.at = run[p].then /\ r.then = "idle"
    BY <1>2, Names, Resting DEF Runs
  <2>2. run[p].then = "idle" => r = Idle
    BY DEF Idle
  <2>3. receipt' = [receipt EXCEPT ![p] = NoReceipt] /\ run' = [run EXCEPT ![p] = r]
    BY <1>1, <1>4 DEF WriteReceipt
  <2> HIDE DEF r
  <2>4. Typed' /\ Alone(p) /\ Grows /\ run'[p] = r /\ receipt'[p] = NoReceipt
    BY <1>1, <2>1, <2>3, Resting DEF IInv, Typed, Alone, Grows
  <2>5. Counted(p)'
    BY <1>1, <1>2 DEF Counted
  <2>6. ReceiptFits(p)'
    BY <1>1, <1>2, <2>4, Resting, Names DEF ReceiptFits, Told
  <2>7. /\ rec[p] = run[p].to
        /\ run[p].then = "execute" => rec[p].state = "started" /\ sends[p] = 0
        /\ run[p].then = "inspect" => rec[p].hash \in Ops
    BY <1>1, <1>2, <1>4 DEF WriteFits
  <2>8. receipt'[p].of.state \notin Terminal
    BY <2>4, Resting, Names
  <2>9. RunFits(p)'
    <3>1. CASE run[p].then = "idle"
      BY <2>2, <2>4, <3>1 DEF RunFits
    <3>2. CASE run[p].then # "idle"
      <4>1. WorkFits(p)'
        BY <1>1, <1>2, <2>1, <2>4, <2>7, <2>8, <3>2 DEF WorkFits
      <4> QED BY <1>1, <1>2, <2>1, <2>4, <3>2, <4>1 DEF RunFits, Writing
    <3> QED BY <3>1, <3>2
  <2> QED BY <2>4, <2>5, <2>6, <2>9, ActionKeeps DEF Fits
<1> QED BY <1>3, <1>4

LEMMA WriteRecordKeeps ==
  ASSUME IInv, NEW p \in Ops, WriteRecord(p)
  PROVE  IInv'
<1>1. /\ run[p].at \in {"record", "close"} /\ UNCHANGED <<receipt, effect, sends, sent>>
      /\ rec' = [rec EXCEPT ![p] = run[p].to]
  BY DEF WriteRecord, world
<1>2. /\ rec[p] \in Records /\ rec[p].state \notin Terminal
      /\ run[p] \in Runs /\ run[p].then \in {"idle", "consent", "inspect", "execute"}
      /\ WriteFits(p) /\ Counted(p) /\ ReceiptFits(p) /\ run[p].to \in Records
  BY <1>1, Persisting DEF Writing
<1>3. rec'[p] = run[p].to /\ rec' \in [Ops -> Records]
  BY <1>1, <1>2 DEF IInv, Typed
<1>4. /\ run[p].to.lane = rec[p].lane
         \/ (rec[p].state = "none" /\ run[p].to.state = "awaiting_approval")
      /\ run[p].to.state = "awaiting_approval" => rec[p].state = "none"
      /\ run[p].to.state \in Terminal \cup Open
  <2>1. CASE run[p].at = "record"
    BY <1>2, <2>1 DEF WriteFits
  <2>2. CASE run[p].at = "close"
    <3>1. run[p].to.state \in Terminal
      BY <1>2, <2>2 DEF WriteFits
    <3>2. run[p].to.state # "awaiting_approval"
      BY <3>1 DEF Terminal
    <3> QED BY <1>2, <3>1, <3>2 DEF WriteFits
  <2> QED BY <1>1, <2>1, <2>2
<1>5. Counted(p)'
  <2>1. sends[p] \in Nat /\ sends'[p] = sends[p] /\ effect'[p] = effect[p]
        /\ sent'[p] = sent[p]
    BY <1>1 DEF IInv, Typed
  <2>2. run[p].to.state # "none"
    BY <1>4, Names
  <2>3. sends[p] > 0 => run[p].to.lane = rec[p].lane
                        /\ run[p].to.state # "awaiting_approval"
    BY <1>2, <1>4 DEF Counted
  <2> QED BY <1>2, <1>3, <2>1, <2>2, <2>3 DEF Counted
<1>6. CASE run[p].at = "close"
  <2>1. run' = [run EXCEPT ![p] = Idle]
    BY <1>6 DEF WriteRecord, At
  <2>2. Typed' /\ Alone(p) /\ Grows /\ run'[p] = Idle
    BY <1>1, <1>3, <2>1, Resting DEF IInv, Typed, Alone, Grows
  <2>3. ReceiptFits(p)'
    BY <1>1, <1>2, <1>3, <1>6 DEF ReceiptFits, WriteFits
  <2> QED BY <1>5, <2>2, <2>3, ActionKeeps DEF Fits, RunFits
<1>7. CASE run[p].at = "record"
  <2> DEFINE r == [run[p] EXCEPT !.at = "receipt"]
  <2>1. r \in Runs /\ r.at = "receipt" /\ r.to = run[p].to /\ r.then = run[p].then
    BY <1>2, Names DEF Runs
  <2>2. run' = [run EXCEPT ![p] = r]
    BY <1>7 DEF WriteRecord, At, Goto
  <2> HIDE DEF r
  <2>3. Typed' /\ Alone(p) /\ Grows /\ run'[p] = r
    BY <1>1, <1>3, <2>1, <2>2 DEF IInv, Typed, Alone, Grows
  <2>4. rec'[p].state \notin Terminal
    BY <1>2, <1>3, <1>7, Names DEF WriteFits
  <2>5. ReceiptFits(p)'
    BY <1>1, <1>2, <2>4 DEF ReceiptFits
  <2>6. WriteFits(p)'
    BY <1>1, <1>2, <1>3, <2>1, <2>3, Names DEF WriteFits
  <2>7. RunFits(p)'
    BY <1>2, <2>1, <2>3, <2>4, <2>6 DEF RunFits, Writing
  <2> QED BY <1>5, <2>3, <2>5, <2>7, ActionKeeps DEF Fits
<1> QED BY <1>1, <1>6, <1>7

-----------------------------------------------------------------------------
(* A send of p: whatever it changes, no outcome is on disk or being written.*)
LEMMA SendKeeps ==
  ASSUME IInv, NEW p \in Ops, NEW r \in Runs, run' = [run EXCEPT ![p] = r],
         rec[p].state \notin Terminal, receipt[p].of.state \notin Terminal,
         UNCHANGED <<rec, receipt>>, Typed', Alone(p), Grows, Counted(p)',
         r = Idle \/ Works(p, r.at, r.then)'
  PROVE  IInv'
<1>1. run'[p] = r
  BY Ran DEF IInv
<1>2. ReceiptFits(p)'
  BY Names DEF ReceiptFits, Told
<1>3. RunFits(p)'
  BY <1>1 DEF Works, RunFits, WorkFits
<1> QED BY <1>2, <1>3, ActionKeeps DEF Fits

LEMMA Stepped ==
  ASSUME Typed, NEW p \in Ops, NEW step \in Steps, Goto(p, step)
  PROVE  \E r \in Runs : /\ run' = [run EXCEPT ![p] = r]
                         /\ r.at = step /\ r.then = run[p].then
<1> DEFINE r == [run[p] EXCEPT !.at = step]
<1>1. r \in Runs /\ r.at = step /\ r.then = run[p].then
  BY DEF Typed, Runs
<1>2. run' = [run EXCEPT ![p] = r]
  BY DEF Goto
<1> HIDE DEF r
<1> QED BY <1>1, <1>2

LEMMA ExecuteNotStartedKeeps ==
  ASSUME IInv, NEW p \in Ops, ExecuteNotStarted(p) \/ ExecuteRefused(p)
  PROVE  IInv'
<1>1. /\ run[p].at = "execute" /\ UNCHANGED <<rec, receipt, effect, sends, sent>>
      /\ Transition(p, "failed_before_effect", "idle")
      /\ rec[p].lane # "delegated" \/ effect[p].phase = "none"
  BY DEF ExecuteNotStarted, ExecuteRefused, Executing, ExecutingDelegated, At, disk, world
<1>2. rec[p].state \notin Terminal /\ WorkFits(p) /\ Counted(p)
  BY <1>1, Working DEF Writing
<1>3. sends[p] = 0
  BY <1>1, <1>2 DEF WorkFits, Counted, ExecuteNotStarted, ExecuteRefused,
                    Executing, ExecutingDelegated
<1>4. sent[p].stage = "none"
  BY <1>2, <1>3 DEF Counted
<1>5. With(p, "failed_before_effect").state = "failed_before_effect"
  BY RecordOf, Names DEF IInv
<1>6. Told(p, With(p, "failed_before_effect"), sent)
  BY <1>4, <1>5 DEF Told
<1> QED BY <1>1, <1>2, <1>6, Unphased, OutcomeKeeps DEF IInv

LEMMA ExecuteSendsKeeps ==
  ASSUME IInv, NEW p \in Ops,
         ExecuteLost(p) \/ \E account \in Accounts : ExecuteSends(p, account)
  PROVE  IInv'
<1>1. /\ run[p].at = "execute" /\ rec[p].lane # "delegated"
      /\ UNCHANGED <<rec, receipt, effect>>
      /\ sends' = [sends EXCEPT ![p] = @ + 1] /\ Goto(p, "answer")
  BY DEF ExecuteLost, ExecuteSends, Executing, At, disk
<1>2. /\ rec[p].state \notin Terminal /\ WorkFits(p) /\ Counted(p)
      /\ rec[p].state = "started" /\ sends[p] = 0
      /\ receipt[p].of.state \notin Terminal /\ run[p].then \in {"idle", "consent"}
  <2>1. rec[p].state \notin Terminal /\ WorkFits(p) /\ Counted(p)
    BY <1>1, Working DEF Writing
  <2> QED BY <1>1, <2>1 DEF WorkFits
<1>3. sends' \in [Ops -> Nat] /\ sends'[p] = 1
      /\ \A q \in Ops \ {p} : sends'[q] = sends[q]
  BY <1>1, <1>2 DEF IInv, Typed
<1>4. PICK s \in Sendings : /\ sent' = [sent EXCEPT ![p] = s] /\ s.ever = {}
                            /\ s.mined = "no"
  <2>1. CASE ExecuteLost(p)
    <3>1. sent' = [sent EXCEPT ![p] = sent[p]] /\ sent[p] \in Sendings
      BY <2>1 DEF ExecuteLost, world, IInv, Typed
    <3>2. sent[p].ever = {} /\ sent[p].mined = "no"
      BY <1>2, <3>1 DEF Counted
    <3> QED BY <3>1, <3>2
  <2>2. ASSUME NEW account \in Accounts, ExecuteSends(p, account)
        PROVE  \E s \in Sendings : /\ sent' = [sent EXCEPT ![p] = s] /\ s.ever = {}
                                   /\ s.mined = "no"
    <3> DEFINE s == [NotSent EXCEPT !.stage = "waiting", !.from = account]
    <3>1. s \in Sendings /\ s.ever = {} /\ s.mined = "no"
      BY DEF NotSent, Sendings
    <3>2. sent' = [sent EXCEPT ![p] = s]
      BY <2>2 DEF ExecuteSends
    <3> HIDE DEF s
    <3> QED BY <3>1, <3>2
  <2> QED BY <2>1, <2>2
<1>5. /\ sent' \in [Ops -> Sendings] /\ sent'[p].ever = {} /\ sent'[p].mined = "no"
      /\ \A q \in Ops \ {p} : sent'[q] = sent[q]
  BY <1>4 DEF IInv, Typed
<1>6. PICK r \in Runs : /\ run' = [run EXCEPT ![p] = r]
                        /\ r.at = "answer" /\ r.then = run[p].then
  BY <1>1, Stepped, Names DEF IInv
<1>7. /\ run' \in [Ops -> Runs] /\ \A q \in Ops \ {p} : run'[q] = run[q]
  BY <1>6, Ran DEF IInv
<1>8. Typed' /\ Alone(p) /\ Grows
  <2>1. sent[p].stage = "none" /\ sent[p].ever = {}
    BY <1>2 DEF Counted
  <2>2. Typed' /\ Alone(p)
    BY <1>1, <1>3, <1>5, <1>7 DEF IInv, Typed, Alone
  <2> QED BY <1>5, <2>1, <2>2 DEF Grows
<1>9. Counted(p)'
  BY <1>1, <1>2, <1>3, <1>5 DEF Counted
<1>10. Works(p, r.at, r.then)'
  BY <1>1, <1>2, <1>6, Names DEF Works, Writing
<1> QED BY <1>1, <1>2, <1>6, <1>8, <1>9, <1>10, SendKeeps

LEMMA SealKeeps ==
  ASSUME IInv, NEW p \in Ops, Seal(p)
  PROVE  IInv'
<1> DEFINE e == [phase |-> "sealed", attempts |-> 0]
<1>1. /\ run[p].at = "execute" /\ rec[p].lane = "delegated" /\ effect[p].phase = "none"
      /\ UNCHANGED <<rec, receipt, sent>>
      /\ sends' = [sends EXCEPT ![p] = @ + 1] /\ Goto(p, "submit")
      /\ effect' = [effect EXCEPT ![p] = e]
  BY DEF Seal, ExecutingDelegated, Phase, At, world
<1>2. e \in Effects /\ e.phase = "sealed"
  BY DEF Effects, Phases
<1> HIDE DEF e
<1>3. /\ rec[p].state \notin Terminal /\ WorkFits(p) /\ Counted(p)
  BY <1>1, Working DEF Writing
<1>4. /\ rec[p].state = "started" /\ sends[p] = 0
      /\ receipt[p].of.state \notin Terminal /\ run[p].then \in {"idle", "consent"}
  BY <1>1, <1>3 DEF WorkFits, Counted
<1>5. /\ sends' \in [Ops -> Nat] /\ sends'[p] = 1
      /\ effect' \in [Ops -> Effects] /\ effect'[p] = e
      /\ \A q \in Ops \ {p} : sends'[q] = sends[q] /\ effect'[q] = effect[q]
  BY <1>1, <1>2, <1>4 DEF IInv, Typed
<1>6. PICK r \in Runs : /\ run' = [run EXCEPT ![p] = r]
                        /\ r.at = "submit" /\ r.then = run[p].then
  BY <1>1, Stepped, Names DEF IInv
<1>7. /\ run' \in [Ops -> Runs] /\ \A q \in Ops \ {p} : run'[q] = run[q]
  BY <1>6, Ran DEF IInv
<1>8. Typed' /\ Alone(p) /\ Grows
  BY <1>1, <1>5, <1>7 DEF IInv, Typed, Alone, Grows
<1>9. Counted(p)'
  BY <1>1, <1>2, <1>3, <1>4, <1>5 DEF Counted
<1>10. Works(p, r.at, r.then)'
  BY <1>1, <1>2, <1>4, <1>5, <1>6, Names DEF Works, Writing
<1> QED BY <1>1, <1>3, <1>4, <1>6, <1>8, <1>9, <1>10, SendKeeps

LEMMA AnswerKeeps ==
  ASSUME IInv, NEW p \in Ops,
         \/ AnswerHash(p) \/ AnswerRejected(p) \/ AnswerPending(p)
         \/ \E lost \in BOOLEAN : AnswerAmbiguous(p, lost)
  PROVE  IInv'
<1>1. /\ run[p].at = "answer" /\ UNCHANGED <<rec, receipt, effect, sends, sent>>
  BY DEF AnswerHash, AnswerRejected, AnswerPending, AnswerAmbiguous, At, disk, world
<1>2. rec[p].state \notin Terminal /\ Phased(p)
  BY <1>1, Working, Unphased DEF Writing, IInv
<1>3. CASE AnswerHash(p)
  BY <1>1, <1>2, <1>3, NamedKeeps DEF AnswerHash
<1>4. CASE AnswerRejected(p)
  <2>1. With(p, "failed_provider_rejected").state = "failed_provider_rejected"
    BY RecordOf, Names DEF IInv
  <2>2. Told(p, With(p, "failed_provider_rejected"), sent)
    BY <1>4, <2>1 DEF AnswerRejected, Told
  <2> QED BY <1>1, <1>2, <1>4, <2>2, OutcomeKeeps DEF AnswerRejected
<1>5. CASE AnswerPending(p)
  BY <1>1, <1>2, <1>5, NamedKeeps DEF AnswerPending
<1>6. ASSUME NEW lost \in BOOLEAN, AnswerAmbiguous(p, lost) PROVE IInv'
  BY <1>1, <1>2, <1>6, NamedKeeps DEF AnswerAmbiguous
<1> QED BY <1>3, <1>4, <1>5, <1>6

-----------------------------------------------------------------------------
(* The delegated lane.                                                      *)
LEMMA PhasedTo ==
  ASSUME Typed, NEW p \in Ops, NEW phase \in Phases \ {"none"}, NEW attempts \in Nat,
         effect[p].phase # "none", Phase(p, phase, attempts)
  PROVE  Phased(p)
<1> DEFINE e == [phase |-> phase, attempts |-> attempts]
<1>1. e \in Effects /\ e.phase # "none"
  BY DEF Effects
<1>2. effect' = [effect EXCEPT ![p] = e]
  BY DEF Phase
<1> HIDE DEF e
<1> QED BY <1>1, <1>2 DEF Typed, Phased

LEMMA Attempted ==
  ASSUME Typed, NEW p \in Ops
  PROVE  effect[p].attempts \in Nat /\ effect[p].attempts + 1 \in Nat
BY DEF Typed, Effects

LEMMA ExecuteThrowsKeeps ==
  ASSUME IInv, NEW p \in Ops, ExecuteThrows(p)
  PROVE  IInv'
<1>1. /\ run[p].at = "execute" /\ UNCHANGED <<rec, receipt, effect, sends, sent>>
  BY DEF ExecuteThrows, ExecutingDelegated, At, disk, world
<1>2. rec[p].state \notin Terminal /\ Phased(p)
  BY <1>1, Working, Unphased DEF Writing, IInv
<1> QED BY <1>1, <1>2, NamedKeeps DEF ExecuteThrows

LEMMA ResumeEffectKeeps ==
  ASSUME IInv, NEW p \in Ops, ResumeEffect(p)
  PROVE  IInv'
<1>1. /\ run[p].at = "execute" /\ UNCHANGED <<rec, receipt, effect, sends, sent>>
  BY DEF ResumeEffect, ExecutingDelegated, At, disk, world
<1>2. rec[p].state \notin Terminal /\ WorkFits(p) /\ Phased(p)
  BY <1>1, Working, Unphased DEF Writing, IInv
<1>3. CASE Acknowledge(p, p)
  BY <1>1, <1>2, <1>3, NamedKeeps
<1>4. CASE effect[p].phase # "none" /\ Goto(p, "submit")
  <2>1. PICK r \in Runs : /\ run' = [run EXCEPT ![p] = r]
                          /\ r.at = "submit" /\ r.then = run[p].then
    BY <1>4, Stepped, Names DEF IInv
  <2>2. Works(p, r.at, r.then)'
    BY <1>1, <1>2, <1>4, <2>1, Names DEF Works, Writing, WorkFits
  <2> QED BY <1>1, <1>2, <2>1, <2>2, GotoKeeps
<1> QED BY <1>3, <1>4 DEF ResumeEffect

LEMMA SubmitKeeps ==
  ASSUME IInv, NEW p \in Ops, Submit(p)
  PROVE  IInv'
<1>1. /\ run[p].at = "submit" /\ UNCHANGED <<rec, receipt, sends, sent>>
  BY DEF Submit, At, world
<1>2. rec[p].state \notin Terminal /\ WorkFits(p) /\ effect[p].phase # "none"
  BY <1>1, Working DEF Writing, WorkFits
<1>3. CASE UNCHANGED effect /\ run' = [run EXCEPT ![p] = Idle]
  BY <1>1, <1>3, Unphased, IdleKeeps DEF IInv
<1>4. CASE /\ Phase(p, "submission_pending", effect[p].attempts + 1)
           /\ Goto(p, "broadcast")
  <2>1. Phased(p)
    BY <1>2, <1>4, PhasedTo, Attempted DEF IInv, Phases
  <2>2. PICK r \in Runs : /\ run' = [run EXCEPT ![p] = r]
                          /\ r.at = "broadcast" /\ r.then = run[p].then
    BY <1>4, Stepped, Names DEF IInv
  <2>3. Works(p, r.at, r.then)'
    BY <1>1, <1>2, <2>1, <2>2, Names DEF Works, Writing, WorkFits, Phased
  <2> QED BY <1>1, <2>1, <2>2, <2>3, GotoKeeps
<1> QED BY <1>3, <1>4 DEF Submit

(* The bytes of p are with a node.                                          *)
LEMMA Broadcasted ==
  ASSUME IInv, NEW p \in Ops, Broadcasts(p), effect[p].phase # "none",
         UNCHANGED <<rec, effect, sends>>
  PROVE  /\ sent' \in [Ops -> Sendings] /\ Counted(p)' /\ Grows
         /\ \A q \in Ops \ {p} : sent'[q] = sent[q]
<1> DEFINE s == [sent[p] EXCEPT !.stage = "out"]
<1>1. sent[p] \in Sendings /\ Counted(p)
  BY DEF IInv, Typed, Fits
<1>2. /\ s \in Sendings /\ s.stage = "out" /\ s.ever = sent[p].ever
      /\ s.mined = sent[p].mined /\ s.from = sent[p].from
  BY <1>1 DEF Sendings
<1>3. sent' = [sent EXCEPT ![p] = s]
  BY DEF Broadcasts
<1> HIDE DEF s
<1>4. /\ sent' \in [Ops -> Sendings] /\ sent'[p] = s
      /\ \A q \in Ops \ {p} : sent'[q] = sent[q]
  BY <1>2, <1>3 DEF IInv, Typed
<1>5. Grows
  BY <1>2, <1>4 DEF Grows
<1>6. Counted(p)'
  BY <1>1, <1>2, <1>4 DEF Counted
<1> QED BY <1>4, <1>5, <1>6

LEMMA BroadcastKeeps ==
  ASSUME IInv, NEW p \in Ops, NEW answer \in {"taken", "other", "lost"},
         Broadcast(p, answer)
  PROVE  IInv'
<1>1. /\ run[p].at = "broadcast" /\ UNCHANGED <<rec, receipt, effect, sends>>
      /\ Broadcasts(p) \/ UNCHANGED sent
  BY DEF Broadcast, At, disk, world
<1>2. /\ rec[p].state \notin Terminal /\ effect[p].phase # "none"
      /\ receipt[p].of.state \notin Terminal /\ run[p].then \in {"idle", "consent"}
  BY <1>1, Working DEF Writing, WorkFits
<1>3. PICK r \in Runs : /\ run' = [run EXCEPT ![p] = r]
                        /\ r.at = "answered" /\ r.then = run[p].then
  <2> DEFINE s == [run[p] EXCEPT !.at = "answered", !.answer = answer]
  <2>1. run[p] \in Runs /\ "answered" \in Steps
    BY Names DEF IInv, Typed
  <2>2. s \in Runs /\ s.at = "answered" /\ s.then = run[p].then
    BY <2>1 DEF Runs
  <2>3. run' = [run EXCEPT ![p] = s]
    BY DEF Broadcast
  <2> HIDE DEF s
  <2> QED BY <2>2, <2>3
<1>4. /\ run' \in [Ops -> Runs] /\ \A q \in Ops \ {p} : run'[q] = run[q]
  BY <1>1, <1>3, Ran DEF IInv
<1>5. Works(p, r.at, r.then)'
  BY <1>1, <1>2, <1>3, Names DEF Works, Writing
<1>6. CASE Broadcasts(p)
  <2>1. /\ sent' \in [Ops -> Sendings] /\ Counted(p)' /\ Grows
        /\ \A q \in Ops \ {p} : sent'[q] = sent[q]
    BY <1>1, <1>2, <1>6, Broadcasted
  <2>2. Typed' /\ Alone(p)
    BY <1>1, <1>4, <2>1 DEF IInv, Typed, Alone
  <2> QED BY <1>1, <1>2, <1>3, <1>5, <2>1, <2>2, SendKeeps
<1>7. CASE UNCHANGED sent
  BY <1>1, <1>3, <1>5, <1>7, Unphased, GotoKeeps DEF IInv
<1> QED BY <1>1, <1>6, <1>7

LEMMA AnsweredKeeps ==
  ASSUME IInv, NEW p \in Ops, AnsweredTaken(p) \/ AnsweredOther(p) \/ AnsweredLost(p)
  PROVE  IInv'
<1>1. /\ run[p].at = "answered" /\ UNCHANGED <<rec, receipt, sends, sent>>
  BY DEF AnsweredTaken, AnsweredOther, AnsweredLost, At, world
<1>2. rec[p].state \notin Terminal /\ effect[p].phase # "none"
  BY <1>1, Working DEF Writing, WorkFits
<1>3. Phased(p)
  <2>1. PICK phase \in Phases \ {"none"} : Phase(p, phase, effect[p].attempts)
    BY DEF AnsweredTaken, AnsweredOther, AnsweredLost, Phases
  <2> QED BY <1>2, <2>1, PhasedTo, Attempted DEF IInv
<1>4. CASE Acknowledge(p, p)
  BY <1>1, <1>2, <1>3, <1>4, NamedKeeps
<1>5. CASE run' = [run EXCEPT ![p] = Idle]
  BY <1>1, <1>3, <1>5, IdleKeeps
<1>6. CASE TransitionTo(p, [With(p, "ambiguous_effect") EXCEPT !.token = p], "idle")
  BY <1>1, <1>2, <1>3, <1>6, NamedKeeps
<1>7. CASE TransitionTo(p, [With(p, "provider_pending") EXCEPT !.token = p], "idle")
  BY <1>1, <1>2, <1>3, <1>7, NamedKeeps
<1> QED BY <1>4, <1>5, <1>6, <1>7
        DEF AnsweredTaken, AnsweredOther, AnsweredLost, AmbiguousDelegated

-----------------------------------------------------------------------------
(* The look at the transaction's receipt, and the owner's consent.          *)
LEMMA ContinueKeeps ==
  ASSUME IInv, NEW p \in Ops, Continue(p), rec[p].state \notin Terminal, WorkFits(p),
         UNCHANGED <<rec, receipt, effect, sends, sent>>
  PROVE  IInv'
<1>1. CASE run[p].then = "idle"
  <2>1. run' = [run EXCEPT ![p] = Idle]
    <3>1. [Idle EXCEPT !.at = "idle"] = Idle
      BY DEF Idle
    <3> QED BY <1>1, <3>1 DEF Continue
  <2> QED BY <2>1, Unphased, IdleKeeps DEF IInv
<1>2. CASE run[p].then = "consent"
  <2> DEFINE r == [Idle EXCEPT !.at = "consent"]
  <2>1. r \in Runs /\ r.at = "consent" /\ r.then = "idle"
    BY Resting, Names DEF Runs
  <2>2. run' = [run EXCEPT ![p] = r]
    BY <1>2 DEF Continue
  <2> HIDE DEF r
  <2>3. Works(p, r.at, r.then)'
    <3>1. /\ receipt'[p].of.state \notin Terminal /\ rec'[p].state \notin Terminal
          /\ "consent" \in Steps \ (Writing \cup {"idle"})
      BY Names DEF WorkFits, Writing
    <3> QED BY <2>1, <3>1 DEF Works, Idle
  <2> QED BY <2>1, <2>2, <2>3, Unphased, GotoKeeps DEF IInv
<1> QED BY <1>1, <1>2 DEF WorkFits

LEMMA InspectKeeps ==
  ASSUME IInv, NEW p \in Ops,
         \/ InspectPending(p) \/ InspectAmbiguous(p)
         \/ InspectReverted(p) \/ InspectCompleted(p)
  PROVE  IInv'
<1>1. /\ run[p].at = "inspect" /\ UNCHANGED <<rec, receipt, effect, sends, sent>>
  BY DEF InspectPending, InspectAmbiguous, InspectReverted, InspectCompleted, At,
         disk, world
<1>2. /\ rec[p].state \notin Terminal /\ WorkFits(p) /\ Phased(p)
  BY <1>1, Working, Unphased DEF Writing, IInv
<1>3. rec[p].hash \in Ops /\ run[p].then \in {"idle", "consent"}
  BY <1>1, <1>2 DEF WorkFits
<1>4. sent[rec[p].hash].mined # "no" =>
        sent[rec[p].hash].mined \in sent[rec[p].hash].ever
  BY <1>3 DEF IInv, Fits, Counted
<1>5. CASE Continue(p)
  BY <1>1, <1>2, <1>5, ContinueKeeps
<1>6. CASE \/ Transition(p, "evidence_pending", run[p].then)
           \/ Transition(p, "ambiguous_effect", run[p].then)
  BY <1>1, <1>2, <1>3, <1>6, OpenKeeps
<1>7. CASE InspectReverted(p)
  <2>1. Told(p, With(p, "failed_confirmed_revert"), sent)
    BY <1>3, <1>4, <1>7, RecordOf, Names DEF InspectReverted, Told, IInv
  <2> QED BY <1>1, <1>2, <1>7, <2>1, OutcomeKeeps DEF InspectReverted
<1>8. CASE InspectCompleted(p)
  <2>1. Told(p, With(p, "completed"), sent)
    BY <1>3, <1>4, <1>8, RecordOf, Names
       DEF InspectCompleted, HasExactTransfer, Told, IInv
  <2> QED BY <1>1, <1>2, <1>8, <2>1, OutcomeKeeps DEF InspectCompleted
<1> QED BY <1>5, <1>6, <1>7, <1>8 DEF InspectPending, InspectAmbiguous

LEMMA AbandonConsentedKeeps ==
  ASSUME IInv, NEW p \in Ops, AbandonConsented(p)
  PROVE  IInv'
<1>1. /\ run[p].at = "consent" /\ UNCHANGED <<rec, receipt, effect, sends, sent>>
      /\ Transition(p, "abandoned_unknown", "idle")
  BY DEF AbandonConsented, At, disk, world
<1>2. rec[p].state \notin Terminal /\ Phased(p)
  BY <1>1, Working, Unphased DEF Writing, IInv
<1> QED BY <1>1, <1>2, OpenKeeps

LEMMA WorkKeeps ==
  ASSUME IInv, NEW p \in Ops, Work(p)
  PROVE  IInv'
<1>1. \/ WriteReceipt(p) \/ WriteRecord(p) => IInv'
  BY WriteReceiptKeeps, WriteRecordKeeps
<1>2. \/ ExecuteNotStarted(p) \/ ExecuteLost(p) \/ ExecuteRefused(p)
      \/ \E account \in Accounts : ExecuteSends(p, account)
      => IInv'
  BY ExecuteNotStartedKeeps, ExecuteSendsKeeps
<1> QED BY <1>1, <1>2, AnswerKeeps, ExecuteThrowsKeeps, SealKeeps, ResumeEffectKeeps,
           SubmitKeeps, BroadcastKeeps, AnsweredKeeps, InspectKeeps,
           AbandonConsentedKeeps DEF Work

-----------------------------------------------------------------------------
(* The commands.                                                            *)
LEMMA BeginKeeps ==
  ASSUME IInv, NEW p \in Ops, Found(p), NEW step \in Steps, NEW then \in Steps,
         NEW by \in {"execute", "observe"}, Begin(p, step, then, by),
         Works(p, step, then),
         UNCHANGED <<rec, receipt, effect, sends, sent>>
  PROVE  IInv'
<1> DEFINE r == [Idle EXCEPT !.at = step, !.then = then, !.by = by]
<1>1. r \in Runs /\ r.at = step /\ r.then = then
  BY Resting DEF Runs
<1>2. run' = [run EXCEPT ![p] = r]
  BY DEF Begin
<1> HIDE DEF r
<1>3. PICK s \in Runs : s = r
  BY <1>1
<1>4. Works(p, s.at, s.then)'
  BY <1>1, <1>3 DEF Works
<1> QED BY <1>2, <1>3, <1>4, Unphased, GotoKeeps DEF IInv

LEMMA PrepareKeeps ==
  ASSUME IInv, NEW p \in Ops, NEW lane \in LanesOf[p], Prepare(p, lane)
  PROVE  IInv'
<1> DEFINE next == [state |-> "awaiting_approval", lane |-> lane, hash |-> None,
                    token |-> None, lost |-> FALSE]
<1>1. next \in Records /\ next.state = "awaiting_approval"
  BY LanesAssumption, Names DEF Records
<1>2. /\ TransitionTo(p, next, "idle") /\ rec[p].state = "none"
      /\ UNCHANGED <<rec, receipt, effect, sends, sent>>
  BY DEF Prepare, disk, world
<1> HIDE DEF next
<1>3. Writes(p, next, "idle")
  BY <1>1, <1>2, Names DEF Writes, Told
<1> QED BY <1>2, <1>3, Unphased, WriteKeeps DEF IInv

LEMMA ApproveKeeps ==
  ASSUME IInv, NEW p \in Ops, Approve(p) \/ ApproveRefused(p)
  PROVE  IInv'
<1>1. /\ rec[p].state = "awaiting_approval"
      /\ UNCHANGED <<rec, receipt, effect, sends, sent>>
  BY DEF Approve, ApproveRefused, disk, world
<1>2. rec[p].state \notin Terminal /\ Phased(p)
  BY <1>1, Names, Unphased DEF IInv
<1>3. sends[p] = 0 /\ sent[p].stage = "none"
  BY <1>1 DEF IInv, Fits, Counted, Typed
<1>4. ASSUME NEW state \in {"started", "failed_before_effect"}
      PROVE  /\ With(p, state) \in Records /\ With(p, state).state = state
             /\ With(p, state).lane = rec[p].lane
  BY RecordOf, Names DEF IInv
<1>5. CASE Approve(p)
  <2>1. Writes(p, With(p, "started"), "execute")
    BY <1>2, <1>3, <1>4, Names DEF Writes, Told
  <2> QED BY <1>1, <1>2, <1>5, <2>1, WriteKeeps DEF Approve, Transition
<1>6. CASE ApproveRefused(p)
  <2>1. Told(p, With(p, "failed_before_effect"), sent)
    BY <1>3, <1>4 DEF Told
  <2> QED BY <1>1, <1>2, <1>6, <2>1, OutcomeKeeps DEF ApproveRefused
<1> QED BY <1>5, <1>6

LEMMA RecoverKeeps ==
  ASSUME IInv, NEW p \in Ops, NEW q \in Ops, Recover(p, q)
  PROVE  IInv'
<1>1. /\ rec[p].state \notin Terminal /\ UNCHANGED <<rec, receipt, effect, sends, sent>>
  BY Names DEF Recover, disk, world
<1> QED BY <1>1, Unphased, NamedKeeps DEF IInv, Recover

LEMMA RecoverOrphanTerminalKeeps ==
  ASSUME IInv, NEW p \in Ops, RecoverOrphanTerminal(p)
  PROVE  IInv'
<1>1. /\ run[p] = Idle /\ receipt[p].of.state \in Terminal /\ receipt[p].over = rec[p]
      /\ rec' = [rec EXCEPT ![p] = receipt[p].of]
      /\ UNCHANGED <<receipt, effect, run, sends, sent>>
  BY DEF RecoverOrphanTerminal, Orphan, Corrupt, world
<1>2. Counted(p) /\ ReceiptFits(p) /\ receipt[p].of \in Records
  BY DEF IInv, Fits, Typed, Receipts
<1>3. /\ rec' \in [Ops -> Records] /\ rec'[p] = receipt[p].of
      /\ \A q \in Ops \ {p} : rec'[q] = rec[q]
  BY <1>1, <1>2 DEF IInv, Typed
<1>4. Typed' /\ Alone(p) /\ Grows
  BY <1>1, <1>3 DEF IInv, Typed, Alone, Grows
<1>5. rec'[p].lane = rec[p].lane
  BY <1>1, <1>2, <1>3 DEF ReceiptFits
<1>6. Counted(p)'
  BY <1>1, <1>2, <1>3, <1>5, Names DEF Counted
<1>7. ReceiptFits(p)'
  BY <1>1, <1>2, <1>3 DEF ReceiptFits
<1>8. RunFits(p)'
  BY <1>1 DEF RunFits
<1> QED BY <1>4, <1>6, <1>7, <1>8, ActionKeeps DEF Fits

LEMMA ResumeKeeps ==
  ASSUME IInv, NEW p \in Ops,
         \/ ResumeStarted(p) \/ ResumeInspects(p)
         \/ ObserveAmbiguous(p) \/ ObserveRejected(p) \/ ObserveHash(p)
         \/ ObserveSubmitted(p) \/ ObserveLanded(p) \/ ObserveSubmits(p)
  PROVE  IInv'
<1>1. /\ Found(p) /\ rec[p].state \notin Terminal
      /\ UNCHANGED <<rec, receipt, sends, sent>>
  BY Names DEF ResumeStarted, ResumeInspects, ObserveAmbiguous, ObserveRejected,
         ObserveHash, ObserveSubmitted, ObserveLanded, ObserveSubmits, Observing,
         disk, world
<1>2. rec[p] \in Records /\ receipt[p].of.state \notin Terminal
  BY <1>1, AtRest
<1>3. CASE ResumeStarted(p)
  <2>1. UNCHANGED effect /\ rec[p].state = "started"
    BY <1>3 DEF ResumeStarted, disk
  <2>2. CASE Begin(p, "execute", "idle", "execute") /\ rec[p].lane = "delegated"
    <3>1. Works(p, "execute", "idle")
      BY <1>1, <1>2, <2>1, <2>2, Names DEF Works, Writing
    <3> QED BY <1>1, <2>1, <2>2, <3>1, Names, BeginKeeps
  <2>3. CASE TransitionTo(p, [With(p, "ambiguous_effect") EXCEPT !.lost = TRUE], "idle")
    BY <1>1, <2>1, <2>3, Unphased, NamedKeeps DEF IInv
  <2> QED BY <1>3, <2>2, <2>3 DEF ResumeStarted
<1>4. CASE ResumeInspects(p)
  <2>1. /\ UNCHANGED effect /\ rec[p].hash \in Ops
        /\ Begin(p, "inspect", "idle", "execute")
    BY <1>2, <1>4 DEF ResumeInspects, disk, Records
  <2>2. Works(p, "inspect", "idle")
    BY <1>1, <1>2, <2>1, Names DEF Works, Writing
  <2> QED BY <1>1, <2>1, <2>2, Names, BeginKeeps
<1>5. CASE ObserveAmbiguous(p)
  BY <1>1, <1>5, Unphased, OpenKeeps DEF ObserveAmbiguous, disk, IInv
<1>6. CASE ObserveRejected(p)
  <2>1. UNCHANGED effect /\ Transition(p, "failed_provider_rejected", "idle")
        /\ sent[rec[p].token].stage = "denied" /\ rec[p].token # None
    BY <1>6 DEF ObserveRejected, Observing, disk
  <2>2. Told(p, With(p, "failed_provider_rejected"), sent)
    BY <2>1, RecordOf, Names DEF Told, IInv
  <2> QED BY <1>1, <2>1, <2>2, Unphased, OutcomeKeeps DEF IInv
<1>7. CASE ObserveHash(p)
  <2>1. UNCHANGED effect /\ rec[p].token \in Ops /\ Acknowledge(p, rec[p].token)
    BY <1>2, <1>7 DEF ObserveHash, Observing, disk, Records
  <2> QED BY <1>1, <2>1, Unphased, NamedKeeps DEF IInv
<1>8. CASE ObserveSubmitted(p)
  BY <1>1, <1>8, Unphased, NamedKeeps DEF ObserveSubmitted, disk, IInv
<1>9. CASE ObserveLanded(p)
  <2>1. Phased(p) /\ Acknowledge(p, p)
    BY <1>9, PhasedTo, Attempted DEF ObserveLanded, Unsure, Phases, IInv
  <2> QED BY <1>1, <2>1, NamedKeeps
<1>10. CASE ObserveSubmits(p)
  <2>1. /\ UNCHANGED effect /\ effect[p].phase # "none"
        /\ Begin(p, "submit", "idle", "observe")
    BY <1>10 DEF ObserveSubmits, Unsure, disk
  <2>2. Works(p, "submit", "idle")
    BY <1>1, <1>2, <2>1, Names DEF Works, Writing
  <2> QED BY <1>1, <2>1, <2>2, Names, BeginKeeps
<1> QED BY <1>3, <1>4, <1>5, <1>6, <1>7, <1>8, <1>9, <1>10

LEMMA ObserveResendsKeeps ==
  ASSUME IInv, NEW p \in Ops, NEW taken \in BOOLEAN, ObserveResends(p, taken)
  PROVE  IInv'
<1>1. /\ Found(p) /\ rec[p].state \notin Terminal /\ effect[p].phase # "none"
      /\ UNCHANGED <<rec, receipt, effect, sends>> /\ Broadcasts(p)
  BY Names DEF ObserveResends, Observing, Unsure, disk
<1>2. receipt[p].of.state \notin Terminal
  BY <1>1, AtRest
<1>3. /\ sent' \in [Ops -> Sendings] /\ Counted(p)' /\ Grows
      /\ \A q \in Ops \ {p} : sent'[q] = sent[q]
  BY <1>1, Broadcasted
<1>4. PICK r \in Runs : /\ run' = [run EXCEPT ![p] = r]
                        /\ r = Idle \/ (r.at = "answered" /\ r.then = "idle")
  <2>1. CASE taken
    <3> DEFINE r == [Idle EXCEPT !.at = "answered", !.by = "observe", !.answer = "taken"]
    <3>1. r \in Runs /\ r.at = "answered" /\ r.then = "idle"
      BY Resting, Names DEF Runs
    <3>2. run' = [run EXCEPT ![p] = r]
      BY <2>1 DEF ObserveResends
    <3> HIDE DEF r
    <3> QED BY <3>1, <3>2
  <2>2. CASE ~taken
    <3>1. run' = run /\ run[p] = Idle
      BY <1>1, <2>2 DEF ObserveResends, Found
    <3> QED BY <3>1, Resting DEF IInv, Typed
  <2> QED BY <2>1, <2>2
<1>5. /\ run' \in [Ops -> Runs] /\ \A q \in Ops \ {p} : run'[q] = run[q]
  BY <1>4, Ran DEF IInv
<1>6. Typed' /\ Alone(p)
  BY <1>1, <1>3, <1>5 DEF IInv, Typed, Alone
<1>7. r = Idle \/ Works(p, r.at, r.then)'
  BY <1>1, <1>2, <1>4, Names DEF Works, Writing
<1> QED BY <1>1, <1>2, <1>3, <1>4, <1>6, <1>7, SendKeeps

LEMMA AbandonKeeps ==
  ASSUME IInv, NEW p \in Ops, Abandon(p)
  PROVE  IInv'
<1> DEFINE step == IF rec[p].hash = None THEN "consent" ELSE "inspect"
<1>1. /\ Found(p) /\ rec[p].state \notin Terminal
      /\ Begin(p, step, "consent", "execute")
      /\ UNCHANGED <<rec, receipt, effect, sends, sent>>
  BY Names DEF Abandon, AbandonEligible, disk, world
<1>2. rec[p] \in Records /\ receipt[p].of.state \notin Terminal
  BY <1>1, AtRest
<1>3. step = "consent" \/ (step = "inspect" /\ rec[p].hash \in Ops)
  BY <1>2 DEF Records
<1> HIDE DEF step
<1>4. Works(p, step, "consent")
  BY <1>1, <1>2, <1>3, Names DEF Works, Writing
<1> QED BY <1>1, <1>3, <1>4, Names, BeginKeeps

LEMMA CommandKeeps ==
  ASSUME IInv, NEW p \in Ops, Command(p)
  PROVE  IInv'
BY PrepareKeeps, ApproveKeeps, ResumeKeeps, ObserveResendsKeeps, RecoverKeeps,
   RecoverOrphanTerminalKeeps, AbandonKeeps DEF Command, Resume

-----------------------------------------------------------------------------
(* The provider, the chain, the clock and a stop.                           *)
LEMMA SentKeeps ==
  ASSUME IInv, NEW p \in Ops, NEW s \in Sendings, sent' = [sent EXCEPT ![p] = s],
         UNCHANGED <<rec, receipt, effect, run, sends>>,
         sent[p].stage # "none", s.stage # "none",
         s.stage = sent[p].stage \/ sent[p].stage = "waiting",
         sent[p].ever \subseteq s.ever, s.from = sent[p].from,
         s.mined # "no" => s.mined \in s.ever
  PROVE  IInv'
<1>1. /\ sent' \in [Ops -> Sendings] /\ sent'[p] = s
      /\ \A q \in Ops \ {p} : sent'[q] = sent[q]
  BY DEF IInv, Typed
<1>2. Typed' /\ Alone(p) /\ Grows
  BY <1>1 DEF IInv, Typed, Alone, Grows
<1>3. Counted(p) /\ ReceiptFits(p) /\ RunFits(p)
  BY DEF IInv, Fits
<1>4. \A r : Told(p, r, sent) => Told(p, r, sent')
  BY <1>1, <1>2, ToldStays
<1>5. Counted(p)'
  BY <1>1, <1>3 DEF Counted
<1>6. ReceiptFits(p)'
  BY <1>3, <1>4 DEF ReceiptFits
<1>7. RunFits(p)'
  <2>1. CASE run[p].at \in Writing /\ run[p] # Idle
    <3>1. WriteFits(p)
      BY <1>3, <2>1 DEF RunFits
    <3>2. WriteFits(p)'
      BY <1>4, <3>1 DEF WriteFits
    <3> QED BY <1>3, <2>1, <3>2 DEF RunFits
  <2>2. CASE run[p].at \notin Writing \/ run[p] = Idle
    BY <1>3, <2>2 DEF RunFits, WorkFits
  <2> QED BY <2>1, <2>2
<1> QED BY <1>2, <1>5, <1>6, <1>7, ActionKeeps DEF Fits

LEMMA WorldKeeps ==
  ASSUME IInv, NEW p \in Ops, World(p)
  PROVE  IInv'
<1>1. sent[p] \in Sendings /\ Counted(p)
  BY DEF IInv, Typed, Fits
<1>2. ASSUME NEW stage \in {"out", "denied"}, sent[p].stage = "waiting",
             sent' = [sent EXCEPT ![p].stage = stage],
             UNCHANGED <<rec, receipt, effect, run, sends>>
      PROVE  IInv'
  <2> DEFINE s == [sent[p] EXCEPT !.stage = stage]
  <2>1. /\ s \in Sendings /\ s.stage = stage /\ s.ever = sent[p].ever
        /\ s.mined = sent[p].mined /\ s.from = sent[p].from
    BY <1>1 DEF Sendings
  <2>2. sent' = [sent EXCEPT ![p] = s]
    BY <1>2
  <2> HIDE DEF s
  <2> QED BY <1>1, <1>2, <2>1, <2>2, SentKeeps DEF Counted
<1>3. ASSUME NEW how \in {"ok", "reverted"}, Lands(p, how) PROVE IInv'
  <2> DEFINE s == [sent[p] EXCEPT !.mined = how, !.ever = sent[p].ever \cup {how}]
  <2>1. /\ s \in Sendings /\ s.stage = sent[p].stage /\ s.mined = how
        /\ s.ever = sent[p].ever \cup {how} /\ s.from = sent[p].from
    BY <1>1 DEF Sendings
  <2>2. sent[p].stage = "out" /\ UNCHANGED <<rec, receipt, effect, run, sends>>
    BY <1>3 DEF Lands, disk
  <2>3. sent' = [sent EXCEPT ![p] = s]
    BY <1>3 DEF Lands
  <2> HIDE DEF s
  <2> QED BY <2>1, <2>2, <2>3, SentKeeps
<1>4. CASE Reorganise(p)
  <2> DEFINE s == [sent[p] EXCEPT !.mined = "no"]
  <2>1. /\ s \in Sendings /\ s.stage = sent[p].stage /\ s.mined = "no"
        /\ s.ever = sent[p].ever /\ s.from = sent[p].from
    BY <1>1 DEF Sendings
  <2>2. /\ sent' = [sent EXCEPT ![p] = s] /\ sent[p].stage # "none"
        /\ UNCHANGED <<rec, receipt, effect, run, sends>>
    BY <1>1, <1>4 DEF Reorganise, disk, Counted
  <2> HIDE DEF s
  <2> QED BY <2>1, <2>2, SentKeeps
<1>5. CASE Stop(p)
  BY <1>5, Unphased, IdleKeeps DEF Stop, disk, world, IInv
<1>6. CASE Expire(p)
  <2>1. sent' = [sent EXCEPT ![p] = sent[p]]
        /\ UNCHANGED <<rec, receipt, effect, run, sends, sent>>
    BY <1>6 DEF Expire, disk, IInv, Typed
  <2>2. Typed' /\ Alone(p) /\ Grows
    BY <2>1 DEF IInv, Typed, Alone, Grows
  <2>3. Fits(p)'
    BY <2>1 DEF IInv, Fits, Counted, ReceiptFits, RunFits, WriteFits, WorkFits
  <2> QED BY <2>2, <2>3, ActionKeeps
<1>7. CASE ProviderSigns(p) \/ ProviderDenies(p)
  BY <1>2, <1>7 DEF ProviderSigns, ProviderDenies, disk
<1> QED BY <1>3, <1>4, <1>5, <1>6, <1>7 DEF World

-----------------------------------------------------------------------------
LEMMA Initially ==
  ASSUME Init
  PROVE  IInv
<1>1. Typed
  <2>1. [phase |-> "none", attempts |-> 0] \in Effects
    BY DEF Effects, Phases
  <2> QED BY <2>1, Resting DEF Init, Typed
<1>2. ASSUME NEW p \in Ops PROVE Fits(p)
  <2>1. /\ rec[p] = NoRecord /\ receipt[p] = NoReceipt /\ run[p] = Idle
        /\ sends[p] = 0 /\ sent[p] = NotSent /\ effect[p].phase = "none"
    BY DEF Init
  <2>2. NotSent.stage = "none"
    BY DEF NotSent
  <2> QED BY <2>1, <2>2, Resting, Names DEF Fits, Counted, ReceiptFits, RunFits, Told
<1> QED BY <1>1, <1>2 DEF IInv

LEMMA Stutters ==
  ASSUME IInv, UNCHANGED vars
  PROVE  IInv'
<1>1. UNCHANGED <<rec, receipt, effect, run, sends, sent>>
  BY DEF vars, disk, world
<1> QED BY <1>1 DEF IInv, Typed, Fits, Counted, ReceiptFits, RunFits, WriteFits,
                    WorkFits, Told

THEOREM Inductive == Spec => []IInv
<1>1. Init => IInv
  BY Initially
<1>2. IInv /\ [Next]_vars => IInv'
  BY WorkKeeps, CommandKeeps, WorldKeeps, Stutters DEF Next
<1> QED BY <1>1, <1>2, PTL DEF Spec

(* One approval of a provider transfer makes at most one child process,     *)
(* request or signed transaction, and none before its start is on disk,     *)
(* however its commands are stopped and resumed.                            *)
THEOREM OneApprovalSendsOnce == Spec => []SentOnce
<1>1. IInv => SentOnce
  BY DEF IInv, Fits, Counted, SentOnce
<1> QED BY <1>1, Inductive, PTL

(* An outcome of a provider transfer was once in a block with the exact     *)
(* transfer from the bound account, or reverted there; a transfer that      *)
(* failed before its effect or was rejected has sent nothing of its own.    *)
THEOREM ProviderOutcomesAreProven == Spec => []OutcomeIsProven
<1>1. IInv => OutcomeIsProven
  <2> SUFFICES ASSUME IInv, NEW p \in Ops
               PROVE  Told(p, rec[p], sent)
    BY DEF Told, OutcomeIsProven, OwnRequest
  <2>1. CASE rec[p].state \in Terminal
    BY <2>1 DEF IInv, Fits, ReceiptFits
  <2>2. CASE rec[p].state \notin Terminal
    BY <2>2, Names DEF Told
  <2> QED BY <2>1, <2>2
<1> QED BY <1>1, Inductive, PTL

(* A terminal record of a provider transfer always finds its own receipt,   *)
(* whichever of the two writes of either order a stop came between.         *)
THEOREM TerminalRecordsHaveReceipts == Spec => []TerminalHasReceipt
<1>1. IInv => TerminalHasReceipt
  BY DEF IInv, Fits, ReceiptFits, TerminalHasReceipt
<1> QED BY <1>1, Inductive, PTL

-----------------------------------------------------------------------------
(* One transfer of the account at a time, and one record to each request.   *)

Busy(p) == rec[p].state \in Open \/ run[p] # Idle
Single == \A p, q \in Ops : Busy(p) /\ Busy(q) => p = q

(* The request of transfer t is p's own, or t's record is closed and can    *)
(* never come to name it; no record but p's names it.                       *)
Holds(p, t) ==
  t # None => /\ t # p => rec[t].state \in Terminal
              /\ \A r \in Ops \ {p} : rec[r].token # t
(* A command closes a record without a change of its request.               *)
Bound(p) ==
  /\ Holds(p, rec[p].token)
  /\ receipt[p].of.state \in Terminal => receipt[p].of.token = receipt[p].over.token
  /\ run[p].at \in Writing =>
       /\ Holds(p, run[p].to.token)
       /\ run[p].to.state \in Terminal => run[p].to.token = rec[p].token
BInv == Single /\ \A p \in Ops : Bound(p)

LEMMA Resolved ==
  ASSUME IInv, BInv, NEW p \in Ops
  PROVE  /\ Bound(p) /\ rec[p] \in Records /\ run[p] \in Runs /\ receipt[p] \in Receipts
         /\ rec[p].token \in Ops \cup {None} /\ run[p].to.token \in Ops \cup {None}
         /\ Busy(p) => \A q \in Ops \ {p} : ~Busy(q)
         /\ run[p] # Idle => rec[p].state \notin Terminal
BY DEF IInv, BInv, Typed, Single, Records, Runs, Fits, RunFits

(* A step that moves the command only.                                      *)
LEMMA MoveBinds ==
  ASSUME IInv, BInv, NEW p \in Ops, UNCHANGED <<rec, receipt>>,
         \A q \in Ops \ {p} : run'[q] = run[q],
         Busy(p) \/ (\A q \in Ops \ {p} : ~Busy(q)),
         run'[p].at \in Writing =>
           /\ Holds(p, run'[p].to.token)
           /\ run'[p].to.state \in Terminal => run'[p].to.token = rec[p].token
  PROVE  BInv'
<1>1. ASSUME NEW q \in Ops \ {p} PROVE (Busy(q)' <=> Busy(q)) /\ ~Busy(q)
  BY <1>1, Resolved DEF Busy
<1>2. Single'
  BY <1>1 DEF Single
<1>3. \A t : \A q \in Ops : Holds(q, t)' <=> Holds(q, t)
  BY DEF Holds
<1>4. ASSUME NEW q \in Ops PROVE Bound(q)'
  <2>1. Bound(q)
    BY Resolved
  <2>2. CASE q = p
    BY <1>3, <2>1, <2>2 DEF Bound
  <2>3. CASE q # p
    BY <1>3, <2>1, <2>3 DEF Bound
  <2> QED BY <2>2, <2>3
<1> QED BY <1>2, <1>4 DEF BInv

LEMMA RunBinds ==
  ASSUME IInv, BInv, NEW p \in Ops, NEW r, run' = [run EXCEPT ![p] = r],
         r.at \notin Writing, UNCHANGED <<rec, receipt>>, Busy(p)
  PROVE  BInv'
<1>1. run'[p] = r /\ \A q \in Ops \ {p} : run'[q] = run[q]
  BY DEF IInv, Typed
<1> QED BY <1>1, MoveBinds

LEMMA GotoBinds ==
  ASSUME IInv, BInv, NEW p \in Ops, NEW step, Goto(p, step), step \notin Writing,
         UNCHANGED <<rec, receipt>>, Busy(p)
  PROVE  BInv'
<1> DEFINE r == [run[p] EXCEPT !.at = step]
<1>1. r.at = step
  BY Resolved DEF Runs
<1>2. run' = [run EXCEPT ![p] = r]
  BY DEF Goto
<1> HIDE DEF r
<1> QED BY <1>1, <1>2, RunBinds

LEMMA IdleBinds ==
  ASSUME IInv, BInv, NEW p \in Ops, run' = [run EXCEPT ![p] = Idle],
         UNCHANGED <<rec, receipt>>, Busy(p)
  PROVE  BInv'
BY RunBinds, Resting DEF Writing

LEMMA TransitionToBinds ==
  ASSUME IInv, BInv, NEW p \in Ops, NEW next, NEW then, TransitionTo(p, next, then),
         UNCHANGED <<rec, receipt>>,
         Busy(p) \/ (\A q \in Ops \ {p} : ~Busy(q)),
         Holds(p, next.token),
         next.state \in Terminal => next.token = rec[p].token
  PROVE  BInv'
<1> DEFINE r == [Idle EXCEPT !.at = IF next.state \in Terminal THEN "receipt" ELSE "record",
                             !.to = next, !.then = then]
<1>1. r.to = next
  BY DEF Idle
<1>2. run' = [run EXCEPT ![p] = r]
  BY DEF TransitionTo
<1> HIDE DEF r
<1>3. run'[p] = r /\ \A q \in Ops \ {p} : run'[q] = run[q]
  BY <1>2 DEF IInv, Typed
<1> QED BY <1>1, <1>3, MoveBinds

(* A record that names the request the one before it named.                 *)
LEMMA SameBinds ==
  ASSUME IInv, BInv, NEW p \in Ops, NEW q, NEW lost, NEW then, Busy(p),
         UNCHANGED <<rec, receipt>>,
         \/ \E state \in Terminal \cup Open : Transition(p, state, then)
         \/ Acknowledge(p, q)
         \/ TransitionTo(p, [With(p, "ambiguous_effect") EXCEPT !.lost = lost], then)
  PROVE  BInv'
<1>1. Holds(p, rec[p].token)
  BY Resolved DEF Bound
<1>2. ASSUME NEW state \in Terminal \cup Open
      PROVE  /\ With(p, state) \in Records /\ With(p, state).state = state
             /\ With(p, state).token = rec[p].token
  BY RecordOf DEF IInv
<1>3. CASE \E state \in Terminal \cup Open : Transition(p, state, then)
  <2>1. PICK state \in Terminal \cup Open : Transition(p, state, then)
    BY <1>3
  <2> QED BY <1>1, <1>2, <2>1, TransitionToBinds DEF Transition
<1>4. CASE Acknowledge(p, q)
  <2> DEFINE next == [With(p, "provider_acknowledged") EXCEPT !.hash = q]
  <2>1. next.token = rec[p].token
    BY <1>2, Names DEF Records
  <2>2. TransitionTo(p, next, "inspect")
    BY <1>4 DEF Acknowledge
  <2> HIDE DEF next
  <2> QED BY <1>1, <2>1, <2>2, TransitionToBinds
<1>5. CASE TransitionTo(p, [With(p, "ambiguous_effect") EXCEPT !.lost = lost], then)
  <2> DEFINE next == [With(p, "ambiguous_effect") EXCEPT !.lost = lost]
  <2>1. next.token = rec[p].token
    BY <1>2, Names DEF Records
  <2>2. TransitionTo(p, next, then)
    BY <1>5
  <2> HIDE DEF next
  <2> QED BY <1>1, <2>1, <2>2, TransitionToBinds
<1> QED BY <1>3, <1>4, <1>5

(* A record that is not closed and names another request.                   *)
LEMMA NamedBinds ==
  ASSUME IInv, BInv, NEW p \in Ops, NEW q \in Ops, NEW then, Busy(p), Holds(p, q),
         UNCHANGED <<rec, receipt>>,
         NEW state \in {"provider_pending", "ambiguous_effect"},
         \/ TransitionTo(p, [With(p, state) EXCEPT !.token = q], then)
         \/ TransitionTo(p, [With(p, state) EXCEPT !.token = q, !.lost = TRUE], then)
  PROVE  BInv'
<1>1. With(p, state) \in Records /\ With(p, state).state = state
  BY RecordOf, Names DEF IInv
<1>2. state \notin Terminal
  BY Names
<1>3. PICK next : /\ TransitionTo(p, next, then)
                  /\ \/ next = [With(p, state) EXCEPT !.token = q]
                     \/ next = [With(p, state) EXCEPT !.token = q, !.lost = TRUE]
  OBVIOUS
<1>4. next.token = q /\ next.state = state
  BY <1>1, <1>3 DEF Records
<1> QED BY <1>2, <1>3, <1>4, TransitionToBinds

(* No record names the request of a transfer that is not closed but its own.*)
LEMMA OwnHolds ==
  ASSUME IInv, BInv, NEW p \in Ops, rec[p].state \notin Terminal
  PROVE  Holds(p, p)
<1>1. ASSUME NEW r \in Ops \ {p}, rec[r].token = p PROVE FALSE
  BY <1>1, NoneAssumption, Resolved DEF Bound, Holds
<1> QED BY <1>1 DEF Holds

LEMMA WriteReceiptBinds ==
  ASSUME IInv, BInv, NEW p \in Ops, WriteReceipt(p)
  PROVE  BInv'
<1> DEFINE f == IF run[p].to.state \in Terminal
                THEN [of |-> run[p].to, over |-> rec[p]] ELSE NoReceipt
           r == IF run[p].to.state \in Terminal
                THEN [run[p] EXCEPT !.at = "close"]
                ELSE [Idle EXCEPT !.at = run[p].then]
<1>1. /\ run[p].at = "receipt" /\ rec' = rec
      /\ receipt' = [receipt EXCEPT ![p] = f] /\ run' = [run EXCEPT ![p] = r]
  BY DEF WriteReceipt, At, Goto
<1>2. /\ Bound(p) /\ run[p] # Idle /\ \A q \in Ops \ {p} : ~Busy(q)
      /\ run[p] \in Runs
  BY <1>1, Resolved, Resting DEF Busy
<1>3. run[p].then \notin Writing
  BY <1>1, <1>2 DEF IInv, Fits, RunFits, Writing
<1>4. f.of.state \in Terminal => f.of.token = f.over.token
  BY <1>1, <1>2, Resting, Names DEF Bound, Writing
<1>5. r.at \in Writing => r.to = run[p].to
  BY <1>2, <1>3 DEF Runs, Idle
<1> HIDE DEF r, f
<1>6. /\ run'[p] = r /\ receipt'[p] = f
      /\ \A q \in Ops \ {p} : run'[q] = run[q] /\ receipt'[q] = receipt[q]
  BY <1>1 DEF IInv, Typed
<1>7. \A t : \A q \in Ops : Holds(q, t)' <=> Holds(q, t)
  BY <1>1 DEF Holds
<1>8. Bound(p)'
  BY <1>1, <1>2, <1>4, <1>5, <1>6, <1>7 DEF Bound, Writing
<1>9. ASSUME NEW q \in Ops \ {p} PROVE Bound(q)' /\ ~Busy(q)'
  BY <1>1, <1>2, <1>6, <1>7, Resolved DEF Bound, Busy
<1> QED BY <1>8, <1>9 DEF BInv, Single

LEMMA WriteRecordBinds ==
  ASSUME IInv, BInv, NEW p \in Ops, WriteRecord(p)
  PROVE  BInv'
<1> PICK to \in Records : to = run[p].to
  BY Resolved DEF Runs
<1>1. /\ run[p].at \in Writing /\ receipt' = receipt /\ rec' = [rec EXCEPT ![p] = to]
      /\ run' = [run EXCEPT ![p] = Idle] \/ Goto(p, "receipt")
  BY DEF WriteRecord, At, Writing
<1>2. /\ Bound(p) /\ rec[p].state \notin Terminal /\ \A q \in Ops \ {p} : ~Busy(q)
      /\ run[p] \in Runs /\ Holds(p, to.token) /\ to.token \in Ops \cup {None}
  BY <1>1, Resolved, Resting DEF Busy, Bound, Writing
<1>3. PICK r : /\ run' = [run EXCEPT ![p] = r]
               /\ r.at \in Writing => r.to = to
  <2>1. CASE run' = [run EXCEPT ![p] = Idle]
    BY <2>1, Resting DEF Writing
  <2>2. CASE Goto(p, "receipt")
    <3> DEFINE s == [run[p] EXCEPT !.at = "receipt"]
    <3>1. s.to = to
      BY <1>2 DEF Runs
    <3>2. run' = [run EXCEPT ![p] = s]
      BY <2>2 DEF Goto
    <3> HIDE DEF s
    <3> QED BY <3>1, <3>2
  <2> QED BY <1>1, <2>1, <2>2
<1>4. /\ run'[p] = r /\ rec'[p] = to
      /\ \A q \in Ops \ {p} : run'[q] = run[q] /\ rec'[q] = rec[q]
  BY <1>1, <1>3 DEF IInv, Typed
<1>5. Holds(p, to.token)'
  BY <1>2, <1>4 DEF Holds
<1>6. Bound(p)'
  BY <1>1, <1>2, <1>3, <1>4, <1>5 DEF Bound
<1>7. ASSUME NEW q \in Ops \ {p} PROVE Bound(q)' /\ ~Busy(q)'
  <2>1. /\ Bound(q) /\ run[q] = Idle /\ ~Busy(q)
        /\ rec[q].token \in Ops \cup {None} /\ Holds(q, rec[q].token)
    BY <1>2, Resolved DEF Busy, Bound
  <2>2. rec[q].token # None => rec[q].token # p /\ rec[q].token # to.token
    BY <1>2, <1>4, <2>1, NoneAssumption DEF Holds
  <2>3. Holds(q, rec[q].token)'
    BY <1>4, <2>1, <2>2 DEF Holds
  <2>4. run'[q].at \notin Writing
    BY <1>4, <2>1, Resting DEF Writing
  <2> QED BY <1>1, <1>4, <2>1, <2>3, <2>4 DEF Bound, Busy
<1> QED BY <1>6, <1>7 DEF BInv, Single

LEMMA RecoverOrphanTerminalBinds ==
  ASSUME IInv, BInv, NEW p \in Ops, RecoverOrphanTerminal(p)
  PROVE  BInv'
<1>1. /\ run[p] = Idle /\ receipt[p].of.state \in Terminal /\ receipt[p].over = rec[p]
      /\ rec' = [rec EXCEPT ![p] = receipt[p].of] /\ UNCHANGED <<receipt, run>>
  BY DEF RecoverOrphanTerminal, Orphan, Corrupt
<1>2. /\ rec'[p] = receipt[p].of /\ receipt[p].of.token = rec[p].token
      /\ \A q \in Ops \ {p} : rec'[q] = rec[q]
  BY <1>1, Resolved DEF IInv, Typed, Bound
<1>3. \A q \in Ops : Busy(q)' => Busy(q)
  BY <1>1, <1>2, Names DEF Busy
<1>4. ASSUME NEW q \in Ops, NEW t \in Ops \cup {None}, Holds(q, t)
      PROVE  Holds(q, t)'
  BY <1>1, <1>2, <1>4 DEF Holds
<1>5. ASSUME NEW q \in Ops PROVE Bound(q)'
  <2>1. rec'[q].token = rec[q].token /\ Bound(q)
    BY <1>2, Resolved
  <2>2. Holds(q, rec[q].token)' /\ (run[q].at \in Writing => Holds(q, run[q].to.token)')
    BY <1>1, <1>4, <2>1, Resolved DEF Bound
  <2> QED BY <1>1, <2>1, <2>2 DEF Bound
<1> QED BY <1>3, <1>5 DEF BInv, Single

LEMMA WorkBinds ==
  ASSUME IInv, BInv, NEW p \in Ops, Work(p)
  PROVE  BInv'
<1>1. CASE WriteReceipt(p) \/ WriteRecord(p)
  BY <1>1, WriteReceiptBinds, WriteRecordBinds
<1> SUFFICES ASSUME ~WriteReceipt(p), ~WriteRecord(p) PROVE BInv'
  BY <1>1
<1>2. run[p].at \notin Writing \cup {"idle"} /\ UNCHANGED <<rec, receipt>>
  BY DEF Work, ExecuteNotStarted, ExecuteLost, ExecuteSends, AnswerHash, AnswerRejected,
         AnswerPending, AnswerAmbiguous, ExecuteRefused, ExecuteThrows, Seal,
         ResumeEffect, Submit, Broadcast, AnsweredTaken, AnsweredOther, AnsweredLost,
         InspectPending, InspectAmbiguous, InspectReverted, InspectCompleted,
         AbandonConsented, Executing, ExecutingDelegated, At, disk, Writing
<1>3. /\ Busy(p) /\ rec[p].state \notin Terminal /\ run[p].then \notin Writing
      /\ run[p] \in Runs
  <2>1. run[p] # Idle
    BY <1>2, Resting
  <2>2. run[p].then \in {"idle", "consent"}
    BY <1>2, Working DEF WorkFits
  <2> QED BY <2>1, <2>2, Resolved DEF Busy, Writing
<1>4. Holds(p, p)
  BY <1>3, OwnHolds
<1>5. CASE \E then : \E state \in Terminal \cup Open : Transition(p, state, then)
  BY <1>2, <1>3, <1>5, SameBinds
<1>6. CASE Acknowledge(p, p)
  BY <1>2, <1>3, <1>6, SameBinds
<1>7. CASE run' = [run EXCEPT ![p] = Idle]
  BY <1>2, <1>3, <1>7, IdleBinds
<1>8. CASE \E step \in {"answer", "submit", "broadcast"} : Goto(p, step)
  BY <1>2, <1>3, <1>8, GotoBinds DEF Writing
<1>9. CASE \/ TransitionTo(p, [With(p, "provider_pending") EXCEPT !.token = p], "idle")
           \/ AmbiguousDelegated(p) \/ ExecuteThrows(p)
  BY <1>2, <1>3, <1>4, <1>9, NamedBinds DEF AmbiguousDelegated, ExecuteThrows
<1>10. CASE \E lost \in BOOLEAN : AnswerAmbiguous(p, lost)
  BY <1>2, <1>3, <1>10, SameBinds DEF AnswerAmbiguous
<1>11. CASE Continue(p)
  <2> DEFINE r == [Idle EXCEPT !.at = run[p].then]
  <2>1. r.at = run[p].then
    BY DEF Idle
  <2>2. run' = [run EXCEPT ![p] = r]
    BY <1>11 DEF Continue
  <2> HIDE DEF r
  <2> QED BY <1>2, <1>3, <2>1, <2>2, RunBinds
<1>12. ASSUME NEW answer, Broadcast(p, answer) PROVE BInv'
  <2> DEFINE r == [run[p] EXCEPT !.at = "answered", !.answer = answer]
  <2>1. r.at = "answered"
    BY <1>3 DEF Runs
  <2>2. run' = [run EXCEPT ![p] = r]
    BY <1>12 DEF Broadcast
  <2> HIDE DEF r
  <2> QED BY <1>2, <1>3, <2>1, <2>2, RunBinds DEF Writing
<1>13. CASE \/ ExecuteNotStarted(p) \/ ExecuteRefused(p) \/ AnswerRejected(p)
            \/ InspectReverted(p) \/ InspectCompleted(p) \/ AbandonConsented(p)
  BY <1>5, <1>13, Names DEF ExecuteNotStarted, ExecuteRefused, AnswerRejected,
     InspectReverted, InspectCompleted, AbandonConsented
<1>14. CASE InspectPending(p) \/ InspectAmbiguous(p)
  BY <1>5, <1>11, <1>14, Names DEF InspectPending, InspectAmbiguous
<1>15. CASE \/ ExecuteLost(p) \/ Seal(p) \/ Submit(p) \/ ResumeEffect(p)
            \/ \E account \in Accounts : ExecuteSends(p, account)
  BY <1>6, <1>7, <1>8, <1>15 DEF ExecuteLost, Seal, Submit, ResumeEffect, ExecuteSends
<1>16. CASE \/ AnswerHash(p) \/ AnswerPending(p)
            \/ AnsweredTaken(p) \/ AnsweredOther(p) \/ AnsweredLost(p)
  BY <1>6, <1>7, <1>9, <1>16 DEF AnswerHash, AnswerPending, AnsweredTaken,
     AnsweredOther, AnsweredLost
<1> QED BY <1>9, <1>10, <1>12, <1>13, <1>14, <1>15, <1>16 DEF Work

LEMMA CommandBinds ==
  ASSUME IInv, BInv, NEW p \in Ops, Command(p)
  PROVE  BInv'
<1>1. ASSUME NEW lane, Prepare(p, lane) PROVE BInv'
  <2> DEFINE next == [state |-> "awaiting_approval", lane |-> lane, hash |-> None,
                      token |-> None, lost |-> FALSE]
  <2>1. next.token = None /\ next.state \notin Terminal
    BY Names
  <2>2. /\ TransitionTo(p, next, "idle") /\ UNCHANGED <<rec, receipt>>
        /\ \A q \in Ops \ {p} : ~Busy(q)
    BY <1>1 DEF Prepare, AccountAvailable, Busy, disk
  <2> HIDE DEF next
  <2>3. Holds(p, next.token)
    BY <2>1 DEF Holds
  <2> QED BY <2>1, <2>2, <2>3, TransitionToBinds
<1>2. CASE RecoverOrphanTerminal(p)
  BY <1>2, RecoverOrphanTerminalBinds
<1> SUFFICES ASSUME ~RecoverOrphanTerminal(p), ~\E lane : Prepare(p, lane)
             PROVE  BInv'
  BY <1>1, <1>2
<1>3. Busy(p) /\ UNCHANGED <<rec, receipt>> /\ rec[p].state \notin Terminal
  BY Names DEF Command, Resume, ApproveRefused, Approve, ResumeStarted, ResumeInspects,
         ObserveAmbiguous, ObserveRejected, ObserveHash, ObserveSubmitted, ObserveLanded,
         ObserveSubmits, ObserveResends, Observing, Recover, Abandon, AbandonEligible,
         disk, Busy
<1>4. CASE \/ \E then : \E state \in Terminal \cup Open : Transition(p, state, then)
           \/ \E q : Acknowledge(p, q)
           \/ TransitionTo(p, [With(p, "ambiguous_effect") EXCEPT !.lost = TRUE], "idle")
  BY <1>3, <1>4, SameBinds
<1>5. ASSUME NEW step, NEW then, NEW by, Begin(p, step, then, by), step \notin Writing
      PROVE  BInv'
  <2> DEFINE r == [Idle EXCEPT !.at = step, !.then = then, !.by = by]
  <2>1. r.at = step
    BY DEF Idle
  <2>2. run' = [run EXCEPT ![p] = r]
    BY <1>5 DEF Begin
  <2> HIDE DEF r
  <2> QED BY <1>3, <1>5, <2>1, <2>2, RunBinds
<1>6. ASSUME NEW q \in Ops, Recover(p, q) PROVE BInv'
  <2>1. /\ rec[p].state \in Open /\ sent[q].stage # "none" /\ ~BoundElsewhere(p, q)
        /\ TransitionTo(p, [With(p, "provider_pending") EXCEPT !.token = q], "idle")
    BY <1>6 DEF Recover, Open
  <2>2. q # p => rec[q].state \in Terminal
    <3> SUFFICES ASSUME q # p PROVE rec[q].state \in Terminal
      OBVIOUS
    <3>1. rec[q].state \notin Open
      BY <2>1, Resolved DEF Busy
    <3>2. rec[q].state # "none" /\ rec[q] \in Records
      BY <2>1, Resolved DEF IInv, Fits, Counted
    <3> QED BY <3>1, <3>2 DEF Records
  <2>3. Holds(p, q)
    BY <2>1, <2>2 DEF Holds, BoundElsewhere
  <2> QED BY <1>3, <2>1, <2>3, NamedBinds
<1>7. ASSUME NEW taken \in BOOLEAN, ObserveResends(p, taken) PROVE BInv'
  <2>1. CASE taken
    <3> DEFINE r == [Idle EXCEPT !.at = "answered", !.by = "observe", !.answer = "taken"]
    <3>1. r.at = "answered"
      BY DEF Idle
    <3>2. run' = [run EXCEPT ![p] = r]
      BY <1>7, <2>1 DEF ObserveResends
    <3> HIDE DEF r
    <3> QED BY <1>3, <3>1, <3>2, RunBinds DEF Writing
  <2>2. CASE ~taken
    <3>1. run' = run /\ run[p].at \notin Writing
      BY <1>7, <2>2, Resting DEF ObserveResends, Observing, Found, Writing
    <3> QED BY <1>3, <3>1, MoveBinds
  <2> QED BY <2>1, <2>2
<1>8. CASE ApproveRefused(p) \/ Approve(p) \/ ObserveAmbiguous(p) \/ ObserveRejected(p)
  BY <1>4, <1>8, Names DEF ApproveRefused, Approve, ObserveAmbiguous, ObserveRejected
<1>9. CASE ObserveHash(p) \/ ObserveSubmitted(p) \/ ObserveLanded(p)
  BY <1>4, <1>9 DEF ObserveHash, ObserveSubmitted, ObserveLanded
<1>10. CASE ResumeStarted(p) \/ ResumeInspects(p) \/ ObserveSubmits(p) \/ Abandon(p)
  BY <1>4, <1>5, <1>10 DEF ResumeStarted, ResumeInspects, ObserveSubmits, Abandon, Writing
<1> QED BY <1>6, <1>7, <1>8, <1>9, <1>10 DEF Command, Resume

LEMMA WorldBinds ==
  ASSUME IInv, BInv, NEW p \in Ops, World(p)
  PROVE  BInv'
<1>1. CASE Stop(p)
  BY <1>1, IdleBinds DEF Stop, disk, Busy
<1>2. CASE UNCHANGED <<rec, receipt, run>>
  BY <1>2 DEF BInv, Single, Bound, Holds, Busy
<1> QED BY <1>1, <1>2 DEF World, ProviderSigns, ProviderDenies, Lands, Reorganise,
                          Expire, disk

(* One provider account moves one transfer at a time: of two transfers that *)
(* may both still pay without ever having been in a block, one was released *)
(* by its owner or was told by another one's transaction; and two records   *)
(* never wait on one provider request.                                      *)
THEOREM AccountMovesOneAtATime == Spec => []OneAtATime
<1>1. Init => BInv
  <2> SUFFICES ASSUME Init PROVE BInv
    OBVIOUS
  <2>1. \A p \in Ops : rec[p] = NoRecord /\ receipt[p] = NoReceipt /\ run[p] = Idle
    BY DEF Init
  <2>2. NoRecord.token = None
    BY DEF NoRecord
  <2> QED BY <2>1, <2>2, Resting, Names DEF BInv, Single, Bound, Holds, Busy, Writing
<1>2. IInv /\ BInv /\ [Next]_vars => BInv'
  <2>1. ASSUME IInv, BInv, UNCHANGED vars PROVE BInv'
    BY <2>1 DEF vars, disk, BInv, Single, Bound, Holds, Busy
  <2> QED BY <2>1, WorkBinds, CommandBinds, WorldBinds DEF Next
<1>3. IInv /\ BInv => OneAtATime
  <2> SUFFICES ASSUME IInv, BInv, NEW p \in Ops, NEW q \in Ops, p # q
               PROVE  /\ rec[p].token # None => rec[p].token # rec[q].token
                      /\ MayStillPay(p) /\ MayStillPay(q) =>
                           \E r \in {p, q} : \/ rec[r].state = "abandoned_unknown"
                                             \/ ~OwnRequest(r)
                                             \/ rec[r].hash \notin {None, r}
    BY DEF OneAtATime
  <2>1. rec[p].token # None => rec[p].token # rec[q].token
    BY Resolved DEF Bound, Holds
  <2>2. ASSUME NEW r \in Ops, MayStillPay(r), ~Busy(r)
        PROVE  \/ rec[r].state = "abandoned_unknown" \/ ~OwnRequest(r)
               \/ rec[r].hash \notin {None, r}
    <3>1. sent[r].stage \notin {"none", "denied"} /\ sent[r].ever = {}
      BY <2>2 DEF MayStillPay
    <3>2. rec[r] \in Records /\ rec[r].state \notin Open /\ rec[r].state # "none"
      BY <2>2, <3>1, Resolved DEF IInv, Fits, Counted, Busy
    <3>3. rec[r].state \in Terminal
      BY <3>2 DEF Records
    <3>4. Told(r, rec[r], sent)
      BY <3>3 DEF IInv, Fits, ReceiptFits
    <3> QED BY <3>1, <3>3, <3>4, Names, NoneAssumption DEF Told, OwnRequest
  <2>3. ~Busy(p) \/ ~Busy(q)
    BY DEF BInv, Single
  <2> QED BY <2>1, <2>2, <2>3
<1> QED BY <1>1, <1>2, <1>3, Inductive, PTL DEF Spec

=============================================================================
