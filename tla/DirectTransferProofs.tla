------------------------ MODULE DirectTransferProofs ------------------------
(* The local EVM direct transfer: theorems for every number of transfers of *)
(* an account, nonces and stops between two steps of a command.             *)
EXTENDS DirectTransfer, TLAPS

Process == [at : Steps, o : Ops \cup {Nobody}, then : Steps]

(* Where the ledger may still be when the operation is in state s.          *)
Pending == {"reserved", "submitted", "unknown_finality"}
RowFits(s, r) ==
  /\ s = "none" => r = "none"
  /\ s = "awaiting_approval" => r \in {"none", "reserved"}
  /\ s \in {"started", "signed_not_submitted"} => r = "reserved"
  /\ s \in Dispatched \cup {"abandoned_sent"} => r \in Pending
  /\ s = "completed" => r \in Pending \cup {"finalized"}
  /\ s \in {"failed_confirmed_revert", "failed_proven_superseded"} =>
       r \in Pending \cup {"failed_confirmed_revert"}
  /\ s = "failed_before_effect" => r \in {"none", "reserved", "failed_before_effect"}
  /\ s = "abandoned_undispatched" => r \in {"reserved", "failed_before_effect"}

(* What the operation says of its bytes: their signature is public, and     *)
(* none left before the fence or after it was closed as undispatched.       *)
Unsigned == {"none", "awaiting_approval", "started", "failed_before_effect"}
BytesFit(o) ==
  /\ op[o] \notin Unsigned => "signed" \in journal[o]
  /\ o \in sent => op[o] \notin Unsigned \cup {"abandoned_undispatched"}
  /\ o \in sent /\ op[o] = "signed_not_submitted" => o \in fence

(* What the running command relies on at its next step.                     *)
Sendable(o) == op[o] \in Dispatched \/ (op[o] = "signed_not_submitted" /\ o \in fence)
ProcFits ==
  LET o == proc.o
  IN \/ proc = Idle
     \/ /\ o \in Ops
        /\ proc.at \in {"journal_prepare", "start"} => op[o] = "awaiting_approval"
        /\ proc.at = "start" => row[o] = "reserved"
        /\ proc.at \in {"begin_signing", "prompt", "refused", "sign", "publish", "bind"} =>
             op[o] = "started"
        /\ proc.at = "bind" => "signed" \in journal[o]
        /\ proc.at \in {"submit", "abandon_close", "dispatch"} =>
             op[o] = "signed_not_submitted"
        /\ proc.at = "abandon_close" => o \notin fence
        /\ proc.at = "resume" => op[o] \in Dispatched \cup {"signed_not_submitted"}
        /\ proc.at \in {"redispatch", "observe", "observe_only", "settle", "settle_only"} =>
             op[o] \in Dispatched
        /\ proc.at \in {"dispatch", "accepted", "ambiguous", "inspect", "abandon_observe",
                        "abandon_ack"} => Sendable(o)
        /\ proc.at \in {"accepted", "ambiguous"} => proc.then \in {"inspect", "idle"}
        /\ proc.at = "follow" =>
             /\ UsageTarget(op[o]) # "reserved"
             /\ proc.then \in {"idle", "inspect", "abandon_ack", "observe", "observe_only"}
             /\ proc.then # "idle" => op[o] \in Dispatched

(* A nonce is taken by the bytes that were frozen with it.                  *)
TakersFit ==
  \A n \in Nonces : taker[n] \in Ops =>
    taker[n] \in sent /\ nonce[taker[n]] = n /\ n < head

IInv ==
  /\ TypeOK /\ ProcFits /\ TakersFit
  /\ \A o \in Ops : RowFits(op[o], row[o]) /\ BytesFit(o)

(* On a network whose included blocks stay wherever inclusion is proof, an  *)
(* outcome was proven and remains so.                                       *)
OutcomeFits ==
  \A o \in Ops :
    /\ op[o] \in {"completed", "failed_confirmed_revert"} =>
         Provable(o) /\ (op[o] = "completed" <=> o \notin reverted)
    /\ op[o] = "failed_proven_superseded" => nonce[o] < final /\ ~Mined(o)

-----------------------------------------------------------------------------
LEMMA Names ==
  /\ "idle" \in Steps /\ "follow" \in Steps
  /\ {"none", "awaiting_approval", "started", "signed_not_submitted"} \subseteq States
  /\ Terminal \subseteq States /\ Dispatched \subseteq States
  /\ Dispatched = {"submitted_pending", "unknown_finality"}
BY DEF Steps, States, Dispatched

LEMMA Going ==
  ASSUME NEW step \in Steps, NEW o \in Ops
  PROVE  /\ At(step, o) \in Process
         /\ step # "idle" => At(step, o) = [at |-> step, o |-> o, then |-> "idle"]
         /\ step = "idle" => At(step, o) = Idle
BY Names DEF At, Idle, Process

(* A step of a command on o leaves the other transfers and the chain alone. *)
LEMMA CommandKeeps ==
  ASSUME IInv, NEW o \in Ops, TypeOK', ProcFits',
         \A p \in Ops \ {o} :
           /\ op'[p] = op[p] /\ row'[p] = row[p] /\ journal'[p] = journal[p]
           /\ p \in sent' => p \in sent
           /\ p \in fence => p \in fence',
         sent \subseteq sent', UNCHANGED <<nonce, taker, head>>,
         RowFits(op'[o], row'[o]), BytesFit(o)'
  PROVE  IInv'
<1>1. \A p \in Ops : RowFits(op'[p], row'[p])
  <2>1. \A p \in Ops \ {o} : RowFits(op'[p], row'[p])
    BY DEF IInv
  <2> QED BY <2>1
<1>2. \A p \in Ops : BytesFit(p)'
  <2>1. ASSUME NEW p \in Ops \ {o} PROVE BytesFit(p)'
    BY <2>1 DEF IInv, BytesFit
  <2> QED BY <2>1
<1>3. TakersFit'
  BY DEF IInv, TakersFit
<1> QED BY <1>1, <1>2, <1>3 DEF IInv

(* A command that goes on without writing.                                  *)
LEMMA StepKeeps ==
  ASSUME IInv, NEW o \in Ops, proc' \in Process, ProcFits',
         UNCHANGED <<disk, expired, sent, chain>>, stops' \in 0 .. MaxStops
  PROVE  IInv'
<1>1. TypeOK'
  BY DEF IInv, TypeOK, disk, chain, Process
<1>2. RowFits(op'[o], row'[o]) /\ BytesFit(o)'
  BY DEF IInv, BytesFit, disk
<1> QED BY <1>1, <1>2, CommandKeeps DEF disk, chain

LEMMA TransitionKeeps ==
  ASSUME IInv, NEW o \in Ops, NEW s \in States, NEW then, Transition(o, s, then),
         proc' \in Process, ProcFits', RowFits(s, row[o]),
         s \notin Unsigned => "signed" \in journal[o],
         o \in sent => s \notin Unsigned \cup {"abandoned_undispatched"},
         o \in sent /\ s = "signed_not_submitted" => o \in fence
  PROVE  IInv'
<1>1. /\ op' = [op EXCEPT ![o] = s]
      /\ UNCHANGED <<nonce, journal, fence, row, expired, stops, sent, chain>>
  BY DEF Transition
<1>2. op' \in [Ops -> States] /\ op'[o] = s /\ \A p \in Ops \ {o} : op'[p] = op[p]
  BY <1>1 DEF IInv, TypeOK
<1>3. TypeOK'
  BY <1>1, <1>2 DEF IInv, TypeOK, chain, Process
<1>4. RowFits(op'[o], row'[o]) /\ BytesFit(o)'
  BY <1>1, <1>2 DEF BytesFit
<1> QED BY <1>1, <1>2, <1>3, <1>4, CommandKeeps DEF chain

(* The ledger follows a transfer that was sent or closed.                   *)
Follows == {"idle", "inspect", "abandon_ack", "observe", "observe_only"}
LEMMA FollowStarts ==
  ASSUME IInv, NEW o \in Ops, NEW s \in Dispatched \cup Terminal, NEW then \in Follows,
         Transition(o, s, then), then # "idle" => s \in Dispatched
  PROVE  proc' \in Process /\ ProcFits'
<1>1. UsageTarget(s) # "reserved"
  BY DEF UsageTarget, Dispatched, Terminal
<1>2. s \in States /\ then \in Steps
  BY Names DEF Follows, Steps
<1>3. op'[o] = s
  BY <1>2 DEF Transition, IInv, TypeOK
<1>4. proc' = [at |-> "follow", o |-> o, then |-> then]
  BY <1>1 DEF Transition, Follow
<1>5. proc' \in Process
  BY <1>2, <1>4, Names DEF Process
<1>6. proc'.at = "follow" /\ proc'.o = o /\ proc'.then = then
  BY <1>4
<1> QED BY <1>1, <1>3, <1>5, <1>6 DEF ProcFits, Follows

(* Any other transition goes straight on.                                   *)
LEMMA TransitionGoes ==
  ASSUME NEW o \in Ops, NEW s, NEW then \in Steps \ {"idle"}, Transition(o, s, then),
         s \in {"started", "signed_not_submitted"}
  PROVE  /\ proc' \in Process /\ proc'.at = then /\ proc'.o = o /\ proc'.then = "idle"
<1>1. UsageTarget(s) = "reserved"
  BY DEF UsageTarget
<1>2. proc' = [at |-> then, o |-> o, then |-> "idle"]
  BY <1>1, Going DEF Transition, Follow
<1> QED BY <1>2, Names DEF Process

-----------------------------------------------------------------------------
LEMMA Closes ==
  ASSUME IInv, NEW o \in Ops, NEW s \in Dispatched \cup Terminal, NEW then \in Follows,
         Transition(o, s, then), then # "idle" => s \in Dispatched, RowFits(s, row[o]),
         s \notin Unsigned => "signed" \in journal[o],
         o \in sent => s \notin Unsigned \cup {"abandoned_undispatched"}
  PROVE  IInv'
<1>1. s \in States /\ s # "signed_not_submitted"
  BY Names DEF Dispatched, Terminal
<1>2. proc' \in Process /\ ProcFits'
  BY FollowStarts
<1> QED BY <1>1, <1>2, TransitionKeeps

LEMMA StepGoes ==
  ASSUME IInv, NEW o \in Ops, NEW step \in Steps \ {"idle"}, StepTo(step, o)
  PROVE  /\ UNCHANGED <<disk, expired, sent, chain>> /\ stops' \in 0 .. MaxStops
         /\ proc' \in Process /\ proc'.at = step /\ proc'.o = o /\ proc'.then = "idle"
<1>1. proc' = [at |-> step, o |-> o, then |-> "idle"]
  BY Going DEF StepTo, Goto
<1> QED BY <1>1, Names DEF StepTo, Process, IInv, TypeOK

LEMMA IdleKeeps ==
  ASSUME IInv, NEW o \in Ops, StepTo("idle", o)
  PROVE  IInv'
<1>1. proc' = Idle /\ Idle \in Process
  BY Going, Names DEF StepTo, Goto
<1>2. ProcFits'
  BY <1>1 DEF ProcFits
<1> QED BY <1>1, <1>2, StepKeeps DEF StepTo, IInv, TypeOK

LEMMA PrepareKeeps ==
  ASSUME IInv, NEW o \in Ops, Prepare(o)
  PROVE  IInv'
<1>1. PICK n \in Nonces : nonce' = [nonce EXCEPT ![o] = n]
  BY DEF Prepare, PendingNonces
<1>2. /\ op[o] = "none" /\ op' = [op EXCEPT ![o] = "awaiting_approval"]
      /\ UNCHANGED <<journal, fence, row, expired, stops, sent, chain>>
      /\ proc' = At("journal_prepare", o)
  BY DEF Prepare, Goto
<1>3. o \notin sent /\ row[o] = "none"
  BY <1>2 DEF IInv, BytesFit, RowFits, Unsigned
<1>4. /\ op' \in [Ops -> States] /\ op'[o] = "awaiting_approval"
      /\ \A p \in Ops \ {o} : op'[p] = op[p]
  BY <1>2, Names DEF IInv, TypeOK
<1>5. /\ nonce' \in [Ops -> Nonces] /\ \A p \in Ops \ {o} : nonce'[p] = nonce[p]
  BY <1>1 DEF IInv, TypeOK
<1>6. /\ proc' \in Process /\ proc'.at = "journal_prepare" /\ proc'.o = o
  <2>1. "journal_prepare" \in Steps
    BY DEF Steps
  <2> QED BY <1>2, <2>1, Going
<1>7. TypeOK'
  BY <1>2, <1>4, <1>5, <1>6 DEF IInv, TypeOK, chain, Process
<1>8. ProcFits'
  BY <1>4, <1>6 DEF ProcFits
<1>9. TakersFit'
  <2>1. ASSUME NEW k \in Nonces, taker[k] \in Ops
        PROVE  taker[k] \in sent /\ nonce'[taker[k]] = k /\ k < head
    <3>1. taker[k] \in sent /\ nonce[taker[k]] = k /\ k < head
      BY <2>1 DEF IInv, TakersFit
    <3> QED BY <1>3, <1>5, <2>1, <3>1
  <2> QED BY <1>2, <2>1 DEF TakersFit, chain
<1>10. \A p \in Ops : RowFits(op'[p], row'[p])
  BY <1>2, <1>3, <1>4 DEF IInv, RowFits, Dispatched
<1>11. \A p \in Ops : BytesFit(p)'
  BY <1>2, <1>3, <1>4 DEF IInv, BytesFit, Unsigned
<1> QED BY <1>7, <1>8, <1>9, <1>10, <1>11 DEF IInv

(* What opens, closes or repairs a transfer without its bytes.              *)
LEMMA FailKeeps ==
  ASSUME IInv, NEW o \in Ops,
         RetireExpired(o) \/ ApproveFails(o) \/ ResumeNoPrivateEntry(o)
  PROVE  IInv'
<1>1. /\ op[o] \in {"awaiting_approval", "started"}
      /\ Transition(o, "failed_before_effect", "idle")
  BY DEF RetireExpired, ApproveFails, ResumeNoPrivateEntry, Unstarted, NoPrivateEntry,
     NoPrivateContext
<1>2. o \notin sent /\ RowFits("failed_before_effect", row[o])
  BY <1>1 DEF IInv, BytesFit, RowFits, Unsigned, Dispatched
<1> QED BY <1>1, <1>2, Closes DEF Terminal, Follows, Unsigned

LEMMA ReserveKeeps ==
  ASSUME IInv, NEW o \in Ops, ApproveReserves(o)
  PROVE  IInv'
<1>1. /\ op[o] = "awaiting_approval" /\ row' = [row EXCEPT ![o] = "reserved"]
      /\ proc' = At("start", o)
      /\ UNCHANGED <<op, nonce, journal, fence, expired, stops, sent, chain>>
  BY DEF ApproveReserves, Unstarted, Goto
<1>2. /\ row' \in [Ops -> RowStates] /\ row'[o] = "reserved"
      /\ \A p \in Ops \ {o} : row'[p] = row[p]
  <2>1. "reserved" \in RowStates
    BY DEF RowStates
  <2> QED BY <1>1, <2>1 DEF IInv, TypeOK
<1>3. proc' \in Process /\ proc'.at = "start" /\ proc'.o = o
  <2>1. "start" \in Steps
    BY DEF Steps
  <2> QED BY <1>1, <2>1, Going
<1>4. TypeOK'
  BY <1>1, <1>2, <1>3 DEF IInv, TypeOK, chain, Process
<1>5. ProcFits'
  BY <1>1, <1>2, <1>3 DEF ProcFits
<1>6. RowFits(op'[o], row'[o]) /\ BytesFit(o)'
  BY <1>1, <1>2 DEF IInv, RowFits, BytesFit, Dispatched
<1> QED BY <1>1, <1>2, <1>4, <1>5, <1>6, CommandKeeps DEF chain

(* The commands that begin on what was signed, sent or closed.              *)
LEMMA ResumeKeeps ==
  ASSUME IInv, NEW o \in Ops,
         ResumeTerminal(o) \/ ResumeSigned(o) \/ ResumeObserveOnly(o) \/ SettleDispatched(o)
  PROVE  IInv'
<1>1. CASE ResumeTerminal(o)
  <2>1. /\ op[o] \in Terminal /\ proc' = [at |-> "follow", o |-> o, then |-> "idle"]
        /\ UNCHANGED <<disk, expired, stops, sent, chain>>
    BY <1>1 DEF ResumeTerminal
  <2>2. UsageTarget(op[o]) # "reserved"
    BY <2>1 DEF UsageTarget, Terminal
  <2>3. proc' \in Process /\ ProcFits'
    BY <2>1, <2>2, Names DEF Process, ProcFits, disk
  <2> QED BY <2>1, <2>3, StepKeeps DEF IInv, TypeOK
<1>2. CASE ResumeSigned(o)
  <2>1. /\ "signed" \in journal[o]
        /\ \/ op[o] = "started" /\ Transition(o, "signed_not_submitted", "resume")
           \/ op[o] \in Dispatched \cup {"signed_not_submitted"} /\ StepTo("resume", o)
    <3>1. op[o] \in States
      BY DEF IInv, TypeOK
    <3> QED BY <1>2, <3>1 DEF ResumeSigned, Open, Effect, States
  <2>2. "resume" \in Steps
    BY DEF Steps
  <2>3. CASE op[o] = "started" /\ Transition(o, "signed_not_submitted", "resume")
    <3>1. /\ proc' \in Process /\ proc'.at = "resume" /\ proc'.o = o
      BY <2>2, <2>3, TransitionGoes
    <3>2. op'[o] = "signed_not_submitted"
      BY <2>3 DEF Transition, IInv, TypeOK
    <3>3. ProcFits'
      BY <3>1, <3>2 DEF ProcFits
    <3>4. o \notin sent /\ RowFits("signed_not_submitted", row[o])
      BY <2>3 DEF IInv, BytesFit, RowFits, Unsigned, Dispatched
    <3> QED BY <2>1, <2>3, <3>1, <3>3, <3>4, Names, TransitionKeeps
  <2>4. CASE op[o] \in Dispatched \cup {"signed_not_submitted"} /\ StepTo("resume", o)
    <3>1. /\ UNCHANGED <<disk, expired, sent, chain>> /\ stops' \in 0 .. MaxStops
          /\ proc' \in Process /\ proc'.at = "resume" /\ proc'.o = o
      BY <2>2, <2>4, StepGoes
    <3>2. ProcFits'
      BY <2>4, <3>1 DEF ProcFits, disk
    <3> QED BY <3>1, <3>2, StepKeeps
  <2> QED BY <2>1, <2>3, <2>4
<1>3. CASE ResumeObserveOnly(o) \/ SettleDispatched(o)
  <2>1. \/ /\ op[o] = "signed_not_submitted" /\ "signed" \in journal[o]
           /\ Transition(o, "unknown_finality", "observe_only")
        \/ op[o] \in Dispatched /\ StepTo("observe_only", o)
    BY <1>3 DEF ResumeObserveOnly, SettleDispatched, Effect
  <2>2. CASE /\ op[o] = "signed_not_submitted" /\ "signed" \in journal[o]
             /\ Transition(o, "unknown_finality", "observe_only")
    <3>1. RowFits("unknown_finality", row[o])
      BY <2>2 DEF IInv, RowFits, Dispatched, Pending
    <3> QED BY <2>2, <3>1, Closes DEF Dispatched, Follows, Unsigned
  <2>3. CASE op[o] \in Dispatched /\ StepTo("observe_only", o)
    <3>1. "observe_only" \in Steps
      BY DEF Steps
    <3>2. /\ UNCHANGED <<disk, expired, sent, chain>> /\ stops' \in 0 .. MaxStops
          /\ proc' \in Process /\ proc'.at = "observe_only" /\ proc'.o = o
      BY <2>3, <3>1, StepGoes
    <3>3. ProcFits'
      BY <2>3, <3>2 DEF ProcFits, disk
    <3> QED BY <3>2, <3>3, StepKeeps
  <2> QED BY <2>1, <2>2, <2>3
<1> QED BY <1>1, <1>2, <1>3

LEMMA AbandonKeeps ==
  ASSUME IInv, NEW o \in Ops,
         \/ AbandonUndispatched(o) \/ AbandonDispatched(o) \/ AbandonClose(o) \/ AbandonAck(o)
  PROVE  IInv'
<1>1. CASE AbandonUndispatched(o)
  <2>1. /\ "signed" \in journal[o] /\ o \notin fence
        /\ \/ op[o] = "started" /\ Transition(o, "signed_not_submitted", "abandon_close")
           \/ /\ op[o] = "signed_not_submitted"
              /\ Transition(o, "abandoned_undispatched", "idle")
    BY <1>1 DEF AbandonUndispatched, Effect
  <2>2. CASE op[o] = "started" /\ Transition(o, "signed_not_submitted", "abandon_close")
    <3>1. "abandon_close" \in Steps
      BY DEF Steps
    <3>2. /\ proc' \in Process /\ proc'.at = "abandon_close" /\ proc'.o = o
      BY <2>2, <3>1, TransitionGoes
    <3>3. op'[o] = "signed_not_submitted" /\ fence' = fence
      BY <2>2 DEF Transition, IInv, TypeOK
    <3>4. ProcFits'
      BY <2>1, <3>2, <3>3 DEF ProcFits
    <3>5. o \notin sent /\ RowFits("signed_not_submitted", row[o])
      BY <2>2 DEF IInv, BytesFit, RowFits, Unsigned, Dispatched
    <3> QED BY <2>1, <2>2, <3>2, <3>4, <3>5, Names, TransitionKeeps
  <2>3. CASE /\ op[o] = "signed_not_submitted"
             /\ Transition(o, "abandoned_undispatched", "idle")
    <3>1. o \notin sent /\ RowFits("abandoned_undispatched", row[o])
      BY <2>1, <2>3 DEF IInv, BytesFit, RowFits, Dispatched
    <3> QED BY <2>1, <2>3, <3>1, Closes DEF Terminal, Follows
  <2> QED BY <2>1, <2>2, <2>3
<1>2. CASE AbandonDispatched(o)
  <2>1. PICK next \in {"abandon_observe", "abandon_ack"} : StepTo(next, o)
    BY <1>2 DEF AbandonDispatched
  <2>2. next \in Steps \ {"idle"} /\ Sendable(o)
    BY <1>2 DEF AbandonDispatched, Steps, Sendable
  <2>3. /\ UNCHANGED <<disk, expired, sent, chain>> /\ stops' \in 0 .. MaxStops
        /\ proc' \in Process /\ proc'.at = next /\ proc'.o = o
    BY <2>1, <2>2, StepGoes
  <2>4. ProcFits'
    BY <2>2, <2>3 DEF ProcFits, Sendable, disk
  <2> QED BY <2>3, <2>4, StepKeeps
<1>3. CASE AbandonClose(o)
  <2>1. /\ proc.at = "abandon_close" /\ proc.o = o
        /\ Transition(o, "abandoned_undispatched", "idle")
    BY <1>3 DEF AbandonClose, Running
  <2>2. op[o] = "signed_not_submitted" /\ o \notin fence
    BY <2>1 DEF IInv, ProcFits, Idle
  <2>3. "signed" \in journal[o] /\ o \notin sent /\ RowFits("abandoned_undispatched", row[o])
    BY <2>2 DEF IInv, BytesFit, RowFits, Unsigned, Dispatched
  <2> QED BY <2>1, <2>3, Closes DEF Terminal, Follows
<1>4. CASE AbandonAck(o)
  <2>1. /\ proc.at = "abandon_ack" /\ proc.o = o
        /\ Transition(o, "abandoned_sent", "idle") \/ StepTo("idle", o)
    BY <1>4 DEF AbandonAck, Running
  <2>2. Sendable(o)
    BY <2>1 DEF IInv, ProcFits, Idle
  <2>3. "signed" \in journal[o] /\ RowFits("abandoned_sent", row[o])
    BY <2>2 DEF Sendable, IInv, BytesFit, RowFits, Unsigned, Dispatched, Pending
  <2> QED BY <2>1, <2>3, Closes, IdleKeeps DEF Terminal, Follows, Unsigned
<1> QED BY <1>1, <1>2, <1>3, <1>4

(* A journal file more.                                                     *)
LEMMA PublishKeeps ==
  ASSUME IInv, NEW o \in Ops, NEW phase \in Phases, Publish(o, phase),
         proc' \in Process, ProcFits'
  PROVE  IInv'
<1>1. /\ UNCHANGED <<op, nonce, fence, row, expired, stops, sent, chain>>
      /\ journal' = [journal EXCEPT ![o] = @ \cup {phase}]
  BY DEF Publish
<1>2. /\ journal' \in [Ops -> SUBSET Phases] /\ journal'[o] = journal[o] \cup {phase}
      /\ \A p \in Ops \ {o} : journal'[p] = journal[p]
  BY <1>1 DEF IInv, TypeOK
<1>3. TypeOK'
  BY <1>1, <1>2 DEF IInv, TypeOK, chain, Process
<1>4. RowFits(op'[o], row'[o]) /\ BytesFit(o)'
  BY <1>1, <1>2 DEF IInv, BytesFit
<1> QED BY <1>1, <1>2, <1>3, <1>4, CommandKeeps DEF chain

LEMMA SigningKeeps ==
  ASSUME IInv, NEW o \in Ops,
         \/ JournalPrepare(o) \/ Start(o) \/ BeginSigning(o) \/ Prompt(o)
         \/ RecordNoPrivateEntry(o) \/ Sign(o) \/ PublishSigned(o) \/ Bind(o)
  PROVE  IInv'
<1>1. proc.o = o /\ proc # Idle
  BY DEF JournalPrepare, Start, BeginSigning, Prompt, RecordNoPrivateEntry, Sign,
     PublishSigned, Bind, Running, Idle
<1>2. Phases = {"prepared", "signing", "no_private_entry", "signed"}
  BY DEF Phases
<1>3. /\ op[o] = "started" => o \notin sent /\ row[o] = "reserved"
      /\ op[o] = "awaiting_approval" => o \notin sent
  BY DEF IInv, BytesFit, RowFits, Unsigned, Dispatched
<1>4. CASE JournalPrepare(o) \/ RecordNoPrivateEntry(o)
  <2>1. PICK phase \in Phases : Publish(o, phase)
    BY <1>2, <1>4 DEF JournalPrepare, RecordNoPrivateEntry
  <2>2. proc' = Idle
    BY <1>4 DEF JournalPrepare, RecordNoPrivateEntry, Goto, At
  <2>3. proc' \in Process /\ ProcFits'
    BY <2>2, Going, Names DEF ProcFits
  <2> QED BY <2>1, <2>3, PublishKeeps
<1>5. CASE Start(o)
  <2>1. proc.at = "start" /\ Transition(o, "started", "begin_signing")
    BY <1>5 DEF Start, Running
  <2>2. op[o] = "awaiting_approval" /\ row[o] = "reserved"
    BY <1>1, <2>1 DEF IInv, ProcFits
  <2>3. "begin_signing" \in Steps
    BY DEF Steps
  <2>4. proc' \in Process /\ proc'.at = "begin_signing" /\ proc'.o = o
    BY <2>1, <2>3, TransitionGoes
  <2>5. op'[o] = "started"
    BY <2>1 DEF Transition, IInv, TypeOK
  <2>6. ProcFits'
    BY <2>4, <2>5 DEF ProcFits
  <2>7. RowFits("started", row[o])
    BY <2>2 DEF RowFits, Dispatched
  <2> QED BY <1>3, <2>1, <2>2, <2>4, <2>6, <2>7, Names, TransitionKeeps DEF Unsigned
<1>6. CASE BeginSigning(o)
  <2>1. proc.at = "begin_signing" /\ Publish(o, "signing") /\ proc' = At("prompt", o)
    BY <1>6 DEF BeginSigning, Running, Goto
  <2>2. "prompt" \in Steps
    BY DEF Steps
  <2>3. proc' \in Process /\ proc'.at = "prompt" /\ proc'.o = o
    BY <2>1, <2>2, Going
  <2>4. op[o] = "started"
    BY <1>1, <2>1 DEF IInv, ProcFits
  <2>5. ProcFits'
    BY <2>1, <2>3, <2>4 DEF ProcFits, Publish
  <2> QED BY <1>2, <2>1, <2>3, <2>5, PublishKeeps
<1>7. CASE Prompt(o) \/ Sign(o)
  <2>1. PICK next \in {"sign", "refused", "publish", "idle"} : StepTo(next, o)
    BY <1>7 DEF Prompt, Sign
  <2>2. op[o] = "started"
    BY <1>1, <1>7 DEF IInv, ProcFits, Prompt, Sign, Running
  <2>3. CASE next = "idle"
    BY <2>1, <2>3, IdleKeeps
  <2>4. CASE next # "idle"
    <3>1. next \in Steps \ {"idle"}
      BY <2>4 DEF Steps
    <3>2. /\ UNCHANGED <<disk, expired, sent, chain>> /\ stops' \in 0 .. MaxStops
          /\ proc' \in Process /\ proc'.at = next /\ proc'.o = o
      BY <2>1, <3>1, StepGoes
    <3>3. ProcFits'
      BY <2>2, <2>4, <3>2 DEF ProcFits, disk
    <3> QED BY <3>2, <3>3, StepKeeps
  <2> QED BY <2>3, <2>4
<1>8. CASE PublishSigned(o)
  <2>1. proc.at = "publish" /\ Publish(o, "signed") /\ proc' = At("bind", o)
    BY <1>8 DEF PublishSigned, Running, Goto
  <2>2. "bind" \in Steps
    BY DEF Steps
  <2>3. proc' \in Process /\ proc'.at = "bind" /\ proc'.o = o
    BY <2>1, <2>2, Going
  <2>4. op[o] = "started"
    BY <1>1, <2>1 DEF IInv, ProcFits
  <2>5. "signed" \in journal'[o] /\ op' = op
    BY <2>1 DEF Publish, IInv, TypeOK
  <2>6. ProcFits'
    BY <2>3, <2>4, <2>5 DEF ProcFits
  <2> QED BY <1>2, <2>1, <2>3, <2>6, PublishKeeps
<1>9. CASE Bind(o)
  <2>1. proc.at = "bind" /\ Transition(o, "signed_not_submitted", "submit")
    BY <1>9 DEF Bind, Running
  <2>2. op[o] = "started" /\ "signed" \in journal[o]
    BY <1>1, <2>1 DEF IInv, ProcFits
  <2>3. "submit" \in Steps
    BY DEF Steps
  <2>4. proc' \in Process /\ proc'.at = "submit" /\ proc'.o = o
    BY <2>1, <2>3, TransitionGoes
  <2>5. op'[o] = "signed_not_submitted"
    BY <2>1 DEF Transition, IInv, TypeOK
  <2>6. ProcFits'
    BY <2>4, <2>5 DEF ProcFits
  <2>7. RowFits("signed_not_submitted", row[o])
    BY <1>3, <2>2 DEF RowFits, Dispatched
  <2> QED BY <1>3, <2>1, <2>2, <2>4, <2>6, <2>7, Names, TransitionKeeps
<1> QED BY <1>4, <1>5, <1>6, <1>7, <1>8, <1>9

LEMMA SendingKeeps ==
  ASSUME IInv, NEW o \in Ops, Submit(o) \/ Dispatch(o) \/ Accepted(o) \/ Ambiguous(o)
  PROVE  IInv'
<1>1. proc.o = o /\ proc # Idle
  BY DEF Submit, Dispatch, Accepted, Ambiguous, Running, Idle
<1>2. CASE Submit(o)
  <2>1. PICK next \in {"inspect", "dispatch"} :
          /\ proc.at = "submit" /\ proc' = At(next, o) /\ fence' = fence \cup {o}
          /\ UNCHANGED <<op, nonce, journal, row, expired, stops, sent, chain>>
    BY <1>2 DEF Submit, Running, Goto
  <2>2. op[o] = "signed_not_submitted" /\ next \in Steps
    BY <1>1, <2>1 DEF IInv, ProcFits, Steps
  <2>3. proc' \in Process /\ proc'.at = next /\ proc'.o = o
    BY <2>1, <2>2, Going
  <2>4. TypeOK'
    BY <2>1, <2>3 DEF IInv, TypeOK, chain, Process
  <2>5. ProcFits'
    BY <2>1, <2>2, <2>3 DEF ProcFits, Sendable
  <2>6. RowFits(op'[o], row'[o]) /\ BytesFit(o)'
    BY <2>1 DEF IInv, BytesFit
  <2> QED BY <2>1, <2>4, <2>5, <2>6, CommandKeeps DEF chain
<1>3. CASE Dispatch(o)
  <2>1. /\ proc.at \in {"dispatch", "redispatch"}
        /\ sent' \in {sent, sent \cup {o}}
        /\ UNCHANGED <<disk, expired, stops, chain>>
        /\ \E answer \in {"accepted", "ambiguous"}, then \in {"inspect", "idle"} :
             proc' = [at |-> answer, o |-> o, then |-> then]
    BY <1>3 DEF Dispatch, Running
  <2>2. Sendable(o)
    BY <1>1, <2>1 DEF IInv, ProcFits, Sendable
  <2>3. /\ proc' \in Process /\ proc'.at \in {"accepted", "ambiguous"} /\ proc'.o = o
        /\ proc'.then \in {"inspect", "idle"}
    <3>1. {"accepted", "ambiguous", "inspect", "idle"} \subseteq Steps
      BY DEF Steps
    <3> QED BY <2>1, <3>1 DEF Process
  <2>4. TypeOK'
    BY <2>1, <2>3 DEF IInv, TypeOK, disk, chain, Process
  <2>5. ProcFits'
    BY <2>1, <2>2, <2>3 DEF ProcFits, Sendable, disk
  <2>6. RowFits(op'[o], row'[o]) /\ BytesFit(o)'
    BY <2>1, <2>2 DEF IInv, BytesFit, Sendable, Unsigned, Dispatched, disk
  <2> QED BY <2>1, <2>4, <2>5, <2>6, CommandKeeps DEF disk, chain
<1>4. CASE Accepted(o) \/ Ambiguous(o)
  <2>1. /\ proc.at \in {"accepted", "ambiguous"}
        /\ \/ StepTo("idle", o)
           \/ \E s \in Dispatched, then \in {"inspect", "idle"} : Transition(o, s, then)
    <3>1. proc.at \in {"accepted", "ambiguous"}
      BY <1>4 DEF Accepted, Ambiguous, Running
    <3>2. proc.then \in {"inspect", "idle"}
      BY <1>1, <3>1 DEF IInv, ProcFits
    <3> QED BY <1>4, <3>1, <3>2 DEF Accepted, Ambiguous, Dispatched
  <2>2. CASE StepTo("idle", o)
    BY <2>2, IdleKeeps
  <2>3. ASSUME NEW s \in Dispatched, NEW then \in {"inspect", "idle"}, Transition(o, s, then)
        PROVE  IInv'
    <3>1. Sendable(o)
      BY <1>1, <2>1 DEF IInv, ProcFits
    <3>2. "signed" \in journal[o] /\ RowFits(s, row[o])
      BY <2>3, <3>1 DEF Sendable, IInv, BytesFit, RowFits, Unsigned, Dispatched, Pending
    <3>3. s \notin Unsigned \cup {"abandoned_undispatched"} /\ then \in Follows
      BY <2>3 DEF Dispatched, Unsigned, Follows
    <3> QED BY <2>3, <3>2, <3>3, Closes
  <2> QED BY <2>1, <2>2, <2>3
<1> QED BY <1>2, <1>3, <1>4

(* What an observation of the chain writes, wherever it was asked from.     *)
LEMMA ObservingKeeps ==
  ASSUME IInv, NEW o \in Ops,
         \/ ObserveNothing(o) \/ ObserveUnproven(o) \/ ObserveProven(o)
         \/ SettleUnlanded(o) \/ ResumeUndispatched(o) \/ ResumeDispatched(o)
  PROVE  IInv'
<1>1. /\ proc.o = o
      /\ proc.at \in {"inspect", "observe", "observe_only", "abandon_observe", "settle",
                     "settle_only", "resume"}
  BY DEF ObserveNothing, ObserveUnproven, ObserveProven, SettleUnlanded,
     ResumeUndispatched, ResumeDispatched, Running, Observing, AfterRead
<1>2. /\ proc.at = "abandon_observe" => Sendable(o)
      /\ proc.at \in {"observe", "observe_only", "settle", "settle_only"} =>
           op[o] \in Dispatched
      /\ op[o] \in Dispatched \cup {"signed_not_submitted"}
      /\ proc.at # "resume" => Sendable(o)
  BY <1>1 DEF IInv, ProcFits, Sendable, Idle
<1>3. ASSUME NEW s \in Dispatched \cup {"completed", "failed_confirmed_revert",
                                       "failed_proven_superseded"},
             NEW then \in Follows, then # "idle" => s \in Dispatched, Transition(o, s, then)
      PROVE  IInv'
  <2>1. "signed" \in journal[o] /\ RowFits(s, row[o])
    BY <1>2, <1>3 DEF IInv, BytesFit, RowFits, Unsigned, Dispatched, Pending
  <2>2. s \in Dispatched \cup Terminal /\ s \notin Unsigned \cup {"abandoned_undispatched"}
    BY <1>3 DEF Terminal, Dispatched, Unsigned
  <2> QED BY <1>3, <2>1, <2>2, Closes
<1>4. ASSUME NEW step \in {"settle", "settle_only", "redispatch", "observe", "abandon_ack",
                          "submit"},
             StepTo(step, o),
             step = "abandon_ack" => Sendable(o),
             step = "submit" => op[o] = "signed_not_submitted",
             step \notin {"abandon_ack", "submit"} => op[o] \in Dispatched
      PROVE  IInv'
  <2>1. step \in Steps \ {"idle"}
    BY DEF Steps
  <2>2. /\ UNCHANGED <<disk, expired, sent, chain>> /\ stops' \in 0 .. MaxStops
        /\ proc' \in Process /\ proc'.at = step /\ proc'.o = o
    BY <1>4, <2>1, StepGoes
  <2>3. ProcFits'
    BY <1>4, <2>2 DEF ProcFits, Sendable, disk
  <2> QED BY <2>2, <2>3, StepKeeps
<1>5. CASE ObserveNothing(o)
  <2>1. /\ proc.at \in {"inspect", "observe", "observe_only", "abandon_observe"}
        /\ \/ StepTo("idle", o)
           \/ proc.at = "observe" /\ StepTo("settle", o)
           \/ proc.at = "observe_only" /\ StepTo("settle_only", o)
           \/ proc.at = "abandon_observe" /\ StepTo("abandon_ack", o)
    BY <1>5 DEF ObserveNothing, Observing, AfterAbsent, AfterRead
  <2> QED BY <1>2, <1>4, <2>1, IdleKeeps
<1>6. CASE ObserveUnproven(o)
  <2>1. PICK then \in {"idle", "abandon_ack"} : Transition(o, "unknown_finality", then)
    BY <1>6 DEF ObserveUnproven, Observing, AfterRead
  <2> QED BY <1>3, <2>1 DEF Follows, Dispatched
<1>7. CASE ObserveProven(o)
  <2>1. PICK s \in {"completed", "failed_confirmed_revert"} : Transition(o, s, "idle")
    BY <1>7 DEF ObserveProven
  <2> QED BY <1>3, <2>1 DEF Follows
<1>8. CASE SettleUnlanded(o)
  <2>1. /\ op[o] \in Dispatched
        /\ \/ StepTo("idle", o) \/ StepTo("redispatch", o)
           \/ Transition(o, "failed_proven_superseded", "idle")
    BY <1>2, <1>8 DEF SettleUnlanded, Running
  <2> QED BY <1>3, <1>4, <2>1, IdleKeeps DEF Follows
<1>9. CASE ResumeUndispatched(o)
  BY <1>4, <1>9 DEF ResumeUndispatched
<1>10. CASE ResumeDispatched(o)
  <2>1. \/ Transition(o, "unknown_finality", "observe")
        \/ op[o] \in Dispatched /\ StepTo("observe", o)
    BY <1>2, <1>10 DEF ResumeDispatched
  <2> QED BY <1>3, <1>4, <2>1 DEF Follows, Dispatched
<1> QED BY <1>5, <1>6, <1>7, <1>8, <1>9, <1>10

(* The row a follow writes is one the operation's state allows.             *)
LEMMA FollowedFits ==
  ASSUME NEW s \in States, NEW r \in RowStates, RowFits(s, r), UsageTarget(s) # "reserved",
         CanFollow(r, UsageTarget(s))
  PROVE  /\ Followed(r, UsageTarget(s)) \in RowStates
         /\ RowFits(s, Followed(r, UsageTarget(s)))
<1>1. s \in Dispatched \cup Terminal
  BY DEF States, UsageTarget
<1>2. CASE s \in Dispatched \cup {"abandoned_sent"}
  BY <1>2 DEF Dispatched, UsageTarget, Followed, RowFits, RowStates, Pending
<1>3. CASE s \in {"completed", "failed_confirmed_revert", "failed_proven_superseded"}
  BY <1>3 DEF Dispatched, UsageTarget, Followed, RowFits, RowStates, Pending
<1>4. CASE s \in {"failed_before_effect", "abandoned_undispatched"}
  BY <1>4 DEF Dispatched, UsageTarget, Followed, RowFits, RowStates, Pending
<1> QED BY <1>1, <1>2, <1>3, <1>4 DEF Terminal

LEMMA FollowKeeps ==
  ASSUME IInv, NEW o \in Ops, FollowUsage(o)
  PROVE  IInv'
<1> DEFINE r == Followed(row[o], UsageTarget(op[o]))
<1>1. /\ proc.at = "follow" /\ proc.o = o /\ CanFollow(row[o], UsageTarget(op[o]))
      /\ row' = [row EXCEPT ![o] = r]
      /\ proc' = proc \/ proc' = At(proc.then, o)
      /\ UNCHANGED <<op, nonce, journal, fence, expired, stops, sent, chain>>
  BY DEF FollowUsage, Running, Goto
<1>2. /\ UsageTarget(op[o]) # "reserved" /\ proc.then \in Follows
      /\ proc.then # "idle" => op[o] \in Dispatched
  BY <1>1 DEF IInv, ProcFits, Idle, Follows
<1>3. r \in RowStates /\ RowFits(op[o], r)
  BY <1>1, <1>2, FollowedFits DEF IInv, TypeOK
<1> HIDE DEF r
<1>4. /\ row' \in [Ops -> RowStates] /\ row'[o] = r
      /\ \A p \in Ops \ {o} : row'[p] = row[p]
  BY <1>1, <1>3 DEF IInv, TypeOK
<1>5. proc' \in Process /\ ProcFits'
  <2>1. CASE proc' = proc
    <3>1. ProcFits /\ proc \in Process /\ proc # Idle
      BY <1>1 DEF IInv, TypeOK, Process, Idle
    <3> QED BY <1>1, <2>1, <3>1 DEF ProcFits
  <2>2. CASE proc' = At(proc.then, o) /\ proc.then = "idle"
    BY <2>2, Going, Names DEF ProcFits
  <2>3. CASE proc' = At(proc.then, o) /\ proc.then # "idle"
    <3>1. proc.then \in Steps
      BY <1>2 DEF Follows, Steps
    <3>2. proc' \in Process /\ proc'.at = proc.then /\ proc'.o = o
      BY <2>3, <3>1, Going
    <3> QED BY <1>1, <1>2, <2>3, <3>2 DEF ProcFits, Follows, Sendable
  <2> QED BY <1>1, <2>1, <2>2, <2>3
<1>6. TypeOK'
  BY <1>1, <1>4, <1>5 DEF IInv, TypeOK, chain, Process
<1>7. RowFits(op'[o], row'[o]) /\ BytesFit(o)'
  BY <1>1, <1>3, <1>4 DEF IInv, BytesFit
<1> QED BY <1>1, <1>4, <1>5, <1>6, <1>7, CommandKeeps DEF chain

(* The network, the clock and a stop touch nothing a command has written.   *)
LEMMA WorldKeeps ==
  ASSUME IInv, [Network \/ Stop \/ \E o \in Ops : Expire(o)]_vars
  PROVE  IInv'
<1>1. UNCHANGED <<disk, sent, rule>> /\ (UNCHANGED proc \/ proc' = Idle)
  BY DEF Network, Stop, Expire, Mine, MineOther, Consume, Finalize, Reorg, chain, vars
<1>2. /\ \A o \in Ops : RowFits(op'[o], row'[o]) /\ BytesFit(o)'
      /\ ProcFits'
  <2>1. \A o \in Ops : RowFits(op'[o], row'[o]) /\ BytesFit(o)'
    BY <1>1 DEF IInv, BytesFit, disk
  <2>2. ProcFits'
    BY <1>1 DEF IInv, ProcFits, Sendable, disk
  <2> QED BY <2>1, <2>2
<1>3. proc' \in Process
  BY <1>1, Names DEF IInv, TypeOK, Process, Idle
<1>4. /\ head \in 0 .. MaxNonce /\ final \in 0 .. head /\ MaxNonce \in Nat
      /\ taker \in [Nonces -> Ops \cup {Nobody, Other}]
  BY NonceAssumption DEF IInv, TypeOK
<1>5. ASSUME NEW by \in Ops \cup {Other}, Consume(by), reverted' \in SUBSET Ops,
             by \in Ops => by \in sent /\ nonce[by] = head
      PROVE  IInv'
  <2>1. /\ head \in Nonces /\ taker' = [taker EXCEPT ![head] = by] /\ head' = head + 1
        /\ UNCHANGED <<disk, expired, proc, stops, sent, rule, final>>
    BY <1>4, <1>5 DEF Consume, Nonces
  <2>2. /\ taker' \in [Nonces -> Ops \cup {Nobody, Other}] /\ taker'[head] = by
        /\ \A n \in Nonces \ {head} : taker'[n] = taker[n]
    BY <1>4, <2>1
  <2>3. head' \in 0 .. MaxNonce /\ final' \in 0 .. head'
    BY <1>4, <2>1 DEF Nonces
  <2>4. TypeOK'
    BY <1>5, <2>1, <2>2, <2>3 DEF IInv, TypeOK, disk
  <2>5. TakersFit'
    <3>1. ASSUME NEW n \in Nonces, taker'[n] \in Ops
          PROVE  taker'[n] \in sent /\ nonce[taker'[n]] = n /\ n < head'
      <4>1. n \in Nat /\ head \in Nat
        BY <1>4, NonceAssumption DEF Nonces
      <4>2. CASE n = head
        BY <1>5, <2>1, <2>2, <3>1, <4>1, <4>2
      <4>3. CASE n # head
        <5>1. taker'[n] = taker[n]
          BY <2>2, <4>3
        <5>2. taker[n] \in sent /\ nonce[taker[n]] = n /\ n < head
          BY <3>1, <5>1 DEF IInv, TakersFit
        <5> QED BY <2>1, <4>1, <5>1, <5>2
      <4> QED BY <4>2, <4>3
    <3> QED BY <2>1, <3>1 DEF TakersFit, disk
  <2> QED BY <1>2, <2>4, <2>5 DEF IInv
<1>6. CASE \E o \in Ops : Mine(o)
  <2>1. PICK o \in Ops : Mine(o)
    BY <1>6
  <2>2. reverted' \in SUBSET Ops
    BY <2>1 DEF Mine, IInv, TypeOK
  <2> QED BY <1>5, <2>1, <2>2 DEF Mine
<1>7. CASE MineOther
  BY <1>5, <1>7, OpsAssumption DEF MineOther, IInv, TypeOK
<1>8. CASE Finalize
  <2>1. /\ final' \in 0 .. head
        /\ UNCHANGED <<disk, expired, proc, stops, sent, rule, taker, head, reverted>>
    BY <1>4, <1>8 DEF Finalize
  <2>2. TypeOK' /\ TakersFit'
    BY <2>1 DEF IInv, TypeOK, TakersFit, disk
  <2> QED BY <1>2, <2>2 DEF IInv
<1>9. CASE Reorg
  <2>1. /\ final < head /\ head' = head - 1 /\ taker' = [taker EXCEPT ![head - 1] = Nobody]
        /\ UNCHANGED <<disk, expired, proc, stops, sent, rule, final, reverted>>
    BY <1>9 DEF Reorg
  <2>2. head - 1 \in Nonces /\ head' \in 0 .. MaxNonce /\ final' \in 0 .. head'
    BY <1>4, <2>1 DEF Nonces
  <2>3. /\ taker' \in [Nonces -> Ops \cup {Nobody, Other}] /\ taker'[head - 1] = Nobody
        /\ \A n \in Nonces \ {head - 1} : taker'[n] = taker[n]
    BY <1>4, <2>1, <2>2
  <2>4. TypeOK'
    BY <2>1, <2>2, <2>3 DEF IInv, TypeOK, disk
  <2>5. TakersFit'
    <3>1. ASSUME NEW n \in Nonces, taker'[n] \in Ops
          PROVE  taker'[n] \in sent /\ nonce[taker'[n]] = n /\ n < head'
      <4>1. n # head - 1 /\ taker'[n] = taker[n]
        BY <2>3, <3>1, OpsAssumption
      <4>2. taker[n] \in sent /\ nonce[taker[n]] = n /\ n < head
        BY <3>1, <4>1 DEF IInv, TakersFit
      <4>3. n \in Nat /\ head \in Nat
        BY <1>4, NonceAssumption DEF Nonces
      <4> QED BY <2>1, <4>1, <4>2, <4>3
    <3> QED BY <2>1, <3>1 DEF TakersFit, disk
  <2> QED BY <1>2, <2>4, <2>5 DEF IInv
<1>10. CASE Stop \/ (\E o \in Ops : Expire(o)) \/ UNCHANGED vars
  <2>1. /\ UNCHANGED <<disk, sent, chain>> /\ stops' \in 0 .. MaxStops
        /\ expired' \in SUBSET Ops
    BY <1>10, StopsAssumption DEF Stop, Expire, vars, IInv, TypeOK
  <2>2. TypeOK' /\ TakersFit'
    BY <1>3, <2>1 DEF IInv, TypeOK, TakersFit, Process, disk, chain
  <2> QED BY <1>2, <2>2 DEF IInv
<1> QED BY <1>6, <1>7, <1>8, <1>9, <1>10 DEF Network

LEMMA InitFits == Init => IInv
<1> SUFFICES ASSUME Init PROVE IInv
  OBVIOUS
<1>1. 0 \in Nonces /\ 0 \in 0 .. MaxNonce /\ 0 \in 0 .. MaxStops
  BY NonceAssumption, StopsAssumption DEF Nonces
<1>2. TypeOK
  BY <1>1, Names DEF Init, TypeOK, RowStates, Idle
<1>3. ProcFits /\ TakersFit
  BY OpsAssumption DEF Init, ProcFits, TakersFit
<1>4. \A o \in Ops : RowFits(op[o], row[o]) /\ BytesFit(o)
  BY DEF Init, RowFits, BytesFit, Unsigned, Dispatched
<1> QED BY <1>2, <1>3, <1>4 DEF IInv

LEMMA NextKeeps == IInv /\ [Next]_vars => IInv'
<1> SUFFICES ASSUME IInv, [Next]_vars PROVE IInv'
  OBVIOUS
<1>1. ASSUME NEW o \in Ops, Command(o) PROVE IInv'
  BY <1>1, PrepareKeeps, FailKeeps, ReserveKeeps, ResumeKeeps, AbandonKeeps DEF Command
<1>2. ASSUME NEW o \in Ops, Continue(o) PROVE IInv'
  BY <1>2, FollowKeeps, SigningKeeps, SendingKeeps, ObservingKeeps, AbandonKeeps DEF Continue
<1>3. CASE [Network \/ Stop \/ \E o \in Ops : Expire(o)]_vars
  BY <1>3, WorldKeeps
<1> QED BY <1>1, <1>2, <1>3 DEF Next

(* Whatever stops, lost answers, foreign transactions and reorganisations   *)
(* fall between the steps of the commands: the bytes of a transfer are on   *)
(* the network only while its amount is held or was decided in the ledger,  *)
(* under a public signature, and the record never says that nothing was     *)
(* sent (submitAndInspect, settleUnlanded, abandonLocal).                   *)
THEOREM BytesAreHeld == Spec => []SentIsHeld
<1>1. IInv => SentIsHeld
  BY DEF IInv, TypeOK, BytesFit, RowFits, SentIsHeld, Unsigned, States, Terminal, Dispatched,
     Pending
<1> QED BY <1>1, InitFits, NextKeeps, PTL DEF Spec

-----------------------------------------------------------------------------
(* What a step of a command on o may record, and send.                      *)
Proven == {"completed", "failed_confirmed_revert", "failed_proven_superseded"}
Records(o) ==
  /\ UNCHANGED chain
  /\ \A p \in Ops \ {o} : op'[p] = op[p] /\ nonce'[p] = nonce[p] /\ (p \in sent' => p \in sent)
  /\ op[o] \in Terminal \cup {"none"} => (o \in sent' => o \in sent)
  /\ op[o] # "none" => nonce'[o] = nonce[o]
  /\ \/ op'[o] = op[o] /\ nonce'[o] = nonce[o]
     \/ op[o] \notin Terminal /\ op'[o] \notin Proven
     \/ /\ op[o] \notin Terminal /\ nonce'[o] = nonce[o]
        /\ \/ Provable(o) /\ op'[o] = "completed" /\ o \notin reverted
           \/ Provable(o) /\ op'[o] = "failed_confirmed_revert" /\ o \in reverted
           \/ op'[o] = "failed_proven_superseded" /\ nonce[o] < final /\ ~Mined(o)

LEMMA TransitionRecords ==
  ASSUME IInv, NEW o \in Ops, NEW s, NEW then, Transition(o, s, then),
         op[o] \notin Terminal,
         \/ s \notin Proven
         \/ Provable(o) /\ s = "completed" /\ o \notin reverted
         \/ Provable(o) /\ s = "failed_confirmed_revert" /\ o \in reverted
         \/ s = "failed_proven_superseded" /\ nonce[o] < final /\ ~Mined(o)
  PROVE  Records(o)
<1>1. op' = [op EXCEPT ![o] = s] /\ op \in [Ops -> States] /\ UNCHANGED <<nonce, sent, chain>>
  BY DEF Transition, IInv, TypeOK
<1> QED BY <1>1 DEF Records

LEMMA NothingRecorded ==
  ASSUME NEW o \in Ops, UNCHANGED <<op, nonce, sent, chain>>
  PROVE  Records(o)
BY DEF Records

LEMMA StatesApart ==
  /\ Terminal \cap (Dispatched \cup {"none", "awaiting_approval", "started",
                                   "signed_not_submitted"}) = {}
  /\ Proven \cap (Dispatched \cup {"none", "awaiting_approval", "started",
                   "signed_not_submitted", "failed_before_effect",
                   "abandoned_undispatched", "abandoned_sent"}) = {}
  /\ Dispatched = {"submitted_pending", "unknown_finality"}
BY DEF Terminal, Proven, Dispatched

LEMMA CommandsRecord ==
  ASSUME IInv, NEW o \in Ops, Command(o)
  PROVE  Records(o)
<1>1. CASE Prepare(o)
  <2>1. /\ op[o] = "none" /\ op' = [op EXCEPT ![o] = "awaiting_approval"]
        /\ \E n \in Nonces : nonce' = [nonce EXCEPT ![o] = n]
        /\ UNCHANGED <<sent, chain>>
    BY <1>1 DEF Prepare, PendingNonces
  <2> QED BY <2>1, StatesApart DEF Records, IInv, TypeOK
<1>2. CASE RetireExpired(o) \/ ApproveFails(o) \/ ResumeNoPrivateEntry(o)
  <2>1. /\ op[o] \in {"awaiting_approval", "started"}
        /\ Transition(o, "failed_before_effect", "idle")
    BY <1>2 DEF RetireExpired, ApproveFails, ResumeNoPrivateEntry, Unstarted,
       NoPrivateEntry, NoPrivateContext
  <2> QED BY <2>1, StatesApart, TransitionRecords
<1>3. CASE ApproveReserves(o) \/ ResumeTerminal(o) \/ SettleDispatched(o) \/ AbandonDispatched(o)
  BY <1>3, NothingRecorded DEF ApproveReserves, ResumeTerminal, SettleDispatched,
     AbandonDispatched, StepTo, disk
<1>4. CASE ResumeSigned(o) \/ ResumeObserveOnly(o) \/ AbandonUndispatched(o)
  <2>1. \/ UNCHANGED <<op, nonce, sent, chain>>
        \/ /\ op[o] \in {"started", "signed_not_submitted"}
           /\ \/ Transition(o, "signed_not_submitted", "resume")
              \/ Transition(o, "signed_not_submitted", "abandon_close")
              \/ Transition(o, "unknown_finality", "observe_only")
              \/ Transition(o, "abandoned_undispatched", "idle")
    BY <1>4 DEF ResumeSigned, ResumeObserveOnly, AbandonUndispatched, StepTo, disk
  <2> QED BY <2>1, StatesApart, NothingRecorded, TransitionRecords
<1> QED BY <1>1, <1>2, <1>3, <1>4 DEF Command

LEMMA StepsRecord ==
  ASSUME IInv, NEW o \in Ops, Continue(o)
  PROVE  Records(o)
<1>1. CASE \/ FollowUsage(o) \/ JournalPrepare(o) \/ BeginSigning(o) \/ Prompt(o)
           \/ RecordNoPrivateEntry(o) \/ Sign(o) \/ PublishSigned(o) \/ Submit(o)
           \/ ObserveNothing(o) \/ ResumeUndispatched(o)
  BY <1>1, NothingRecorded DEF FollowUsage, JournalPrepare, BeginSigning, Prompt,
     RecordNoPrivateEntry, Sign, PublishSigned, Submit, ObserveNothing,
     ResumeUndispatched, Publish, StepTo, disk
<1>2. CASE Dispatch(o)
  <2>1. proc.at \in {"dispatch", "redispatch"} /\ proc.o = o
    BY <1>2 DEF Dispatch, Running
  <2>2. op[o] \notin Terminal \cup {"none"}
    BY <2>1, StatesApart DEF IInv, ProcFits, Sendable, Idle
  <2> QED BY <1>2, <2>2 DEF Dispatch, Records, disk
<1>3. CASE Start(o) \/ Bind(o) \/ AbandonClose(o)
  <2>1. /\ \/ Transition(o, "started", "begin_signing")
           \/ Transition(o, "signed_not_submitted", "submit")
           \/ Transition(o, "abandoned_undispatched", "idle")
        /\ proc.at \in {"start", "bind", "abandon_close"} /\ proc.o = o
    BY <1>3 DEF Start, Bind, AbandonClose, Running
  <2>2. op[o] \notin Terminal
    BY <2>1, StatesApart DEF IInv, ProcFits, Idle
  <2> QED BY <2>1, <2>2, StatesApart, TransitionRecords
<1>4. CASE \/ Accepted(o) \/ Ambiguous(o) \/ ObserveUnproven(o) \/ ResumeDispatched(o)
           \/ AbandonAck(o)
  <2>1. /\ \/ UNCHANGED <<op, nonce, sent, chain>>
           \/ \E s \in Dispatched \cup {"abandoned_sent"} : \E then : Transition(o, s, then)
        /\ proc.at \in {"accepted", "ambiguous", "inspect", "observe", "observe_only",
                       "abandon_observe", "resume", "abandon_ack"}
        /\ proc.o = o
    BY <1>4, StatesApart DEF Accepted, Ambiguous, ObserveUnproven, ResumeDispatched,
       AbandonAck, Running, Observing, AfterRead, StepTo, disk
  <2>2. op[o] \notin Terminal
    BY <2>1, StatesApart DEF IInv, ProcFits, Sendable, Idle
  <2> QED BY <2>1, <2>2, StatesApart, NothingRecorded, TransitionRecords
<1>5. CASE ObserveProven(o)
  <2>1. /\ proc.at \in {"inspect", "observe", "observe_only", "abandon_observe"} /\ proc.o = o
        /\ Provable(o)
        /\ Transition(o, IF o \in reverted THEN "failed_confirmed_revert"
                         ELSE "completed", "idle")
    BY <1>5 DEF ObserveProven, Observing, AfterRead
  <2>2. op[o] \notin Terminal
    BY <2>1, StatesApart DEF IInv, ProcFits, Sendable, Idle
  <2> QED BY <2>1, <2>2, TransitionRecords
<1>6. CASE SettleUnlanded(o)
  <2>1. proc.at \in {"settle", "settle_only"} /\ proc.o = o
    BY <1>6 DEF SettleUnlanded, Running
  <2>2. op[o] \notin Terminal
    BY <2>1, StatesApart DEF IInv, ProcFits, Idle
  <2>3. CASE UNCHANGED <<op, nonce, sent, chain>>
    BY <2>3, NothingRecorded
  <2>4. ASSUME NEW a \in Answers(o), NeverLands(a, nonce[o]),
               Transition(o, "failed_proven_superseded", "idle")
        PROVE  Records(o)
    <3>1. nonce[o] \in Nat /\ final \in Nat
      BY NonceAssumption DEF IInv, TypeOK, Nonces
    <3>2. a.nonce \in 0 .. final /\ a.nonce > nonce[o] /\ ~Mined(o)
      BY <2>4 DEF Answers, NeverLands
    <3> QED BY <2>2, <2>4, <3>1, <3>2, TransitionRecords
  <2> QED BY <1>6, <2>3, <2>4 DEF SettleUnlanded, StepTo, disk
<1> QED BY <1>1, <1>2, <1>3, <1>4, <1>5, <1>6 DEF Continue

(* A closed transfer stays closed, and bytes that had not left are never    *)
(* sent for it again, by whatever command runs on it or is interrupted      *)
(* (abandonLocal, resume of a terminal operation).                          *)
THEOREM ClosedForGood == Spec => ClosedStaysClosed
<1>1. IInv /\ [Next]_vars =>
        [\A o \in Ops : op[o] \in Terminal =>
           /\ op'[o] = op[o]
           /\ o \in sent' => o \in sent]_vars
  <2> SUFFICES ASSUME IInv, [Next]_vars, NEW p \in Ops, op[p] \in Terminal
               PROVE  op'[p] = op[p] /\ (p \in sent' => p \in sent)
    OBVIOUS
  <2>1. ASSUME NEW o \in Ops, Command(o) \/ Continue(o)
        PROVE  op'[p] = op[p] /\ (p \in sent' => p \in sent)
    BY <2>1, CommandsRecord, StepsRecord DEF Records
  <2>2. CASE Network \/ Stop \/ (\E o \in Ops : Expire(o)) \/ UNCHANGED vars
    BY <2>2 DEF Network, Stop, Expire, Mine, MineOther, Consume, Finalize, Reorg, disk, vars
  <2> QED BY <2>1, <2>2 DEF Next
<1> QED BY <1>1, InitFits, NextKeeps, PTL DEF Spec, ClosedStaysClosed

-----------------------------------------------------------------------------
(* From here on the assumption OutcomeIsProven needs: where inclusion is    *)
(* the rule, what is included stays.                                        *)

(* Below the finalized block, and below the head where inclusion is the     *)
(* rule, no nonce changes hands.                                            *)
LEMMA TakersStand ==
  ASSUME IInv, "inclusion" \notin Reorgs, [Network]_<<chain, disk>>,
         NEW n \in Nonces, n < head, n < final \/ rule = "inclusion"
  PROVE  /\ taker'[n] = taker[n] /\ UNCHANGED <<rule, disk>>
         /\ n < final => n < final'
         /\ \A o \in Ops : nonce[o] = n => (o \in reverted' <=> o \in reverted)
<1>1. /\ head \in 0 .. MaxNonce /\ final \in 0 .. head /\ MaxNonce \in Nat /\ n \in Nat
      /\ taker \in [Nonces -> Ops \cup {Nobody, Other}]
  BY NonceAssumption DEF IInv, TypeOK, Nonces
<1>2. CASE \E o \in Ops : Mine(o)
  <2>1. PICK o \in Ops : Mine(o)
    BY <1>2
  <2>2. n # head
    BY <1>1
  <2>3. taker'[n] = taker[n] /\ UNCHANGED <<rule, disk, final>>
    BY <1>1, <2>1, <2>2 DEF Mine, Consume
  <2>4. \A p \in Ops \ {o} : p \in reverted' <=> p \in reverted
    BY <2>1 DEF Mine
  <2> QED BY <2>1, <2>2, <2>3, <2>4 DEF Mine
<1>3. CASE MineOther
  <2>1. n # head
    BY <1>1
  <2> QED BY <1>1, <1>3, <2>1 DEF MineOther, Consume
<1>4. CASE Finalize
  BY <1>1, <1>4 DEF Finalize
<1>5. CASE Reorg
  <2>1. rule = "safe"
    BY <1>5, NetworkAssumption DEF Reorg
  <2>2. n # head - 1
    BY <1>1, <1>5, <2>1 DEF Reorg
  <2> QED BY <1>1, <1>5, <2>2 DEF Reorg
<1>6. CASE UNCHANGED <<chain, disk>>
  BY <1>6 DEF chain
<1> QED BY <1>2, <1>3, <1>4, <1>5, <1>6 DEF Network

LEMMA OutcomeKeeps ==
  ASSUME IInv, OutcomeFits, "inclusion" \notin Reorgs, [Next]_vars
  PROVE  OutcomeFits'
<1>1. /\ \A o \in Ops : nonce[o] \in Nonces /\ nonce[o] \in Nat
      /\ head \in Nat /\ final \in 0 .. head /\ rule \in {"safe", "inclusion"}
  BY NonceAssumption, NetworkAssumption DEF IInv, TypeOK, Nonces
<1>2. ASSUME NEW o \in Ops, Records(o)
      PROVE  OutcomeFits'
  <2>1. \A p \in Ops : Mined(p)' <=> taker[nonce'[p]] = p
    BY <1>2 DEF Mined, Records, chain
  <2>2. /\ UNCHANGED <<rule, final, reverted>>
        /\ \A p \in Ops \ {o} : op'[p] = op[p] /\ nonce'[p] = nonce[p]
    BY <1>2 DEF Records, chain
  <2>3. \A p \in Ops \ {o} :
          /\ op'[p] \in {"completed", "failed_confirmed_revert"} =>
               Provable(p)' /\ (op'[p] = "completed" <=> p \notin reverted')
          /\ op'[p] = "failed_proven_superseded" => nonce'[p] < final' /\ ~Mined(p)'
    BY <2>1, <2>2 DEF OutcomeFits, Provable, Mined
  <2>4. /\ op'[o] \in {"completed", "failed_confirmed_revert"} =>
             Provable(o)' /\ (op'[o] = "completed" <=> o \notin reverted')
        /\ op'[o] = "failed_proven_superseded" => nonce'[o] < final' /\ ~Mined(o)'
    <3>1. CASE op'[o] = op[o] /\ nonce'[o] = nonce[o]
      BY <2>1, <2>2, <3>1 DEF OutcomeFits, Provable, Mined
    <3>2. CASE op'[o] \notin Proven
      BY <3>2 DEF Proven
    <3>3. CASE /\ nonce'[o] = nonce[o]
               /\ \/ Provable(o) /\ op'[o] = "completed" /\ o \notin reverted
                  \/ Provable(o) /\ op'[o] = "failed_confirmed_revert" /\ o \in reverted
                  \/ op'[o] = "failed_proven_superseded" /\ nonce[o] < final /\ ~Mined(o)
      BY <2>1, <2>2, <3>3 DEF Provable, Mined
    <3> QED BY <1>2, <3>1, <3>2, <3>3 DEF Records
  <2> QED BY <2>3, <2>4 DEF OutcomeFits
<1>3. CASE [Network]_<<chain, disk>>
  <2> SUFFICES ASSUME NEW p \in Ops, op'[p] \in Proven
               PROVE  /\ op'[p] \in {"completed", "failed_confirmed_revert"} =>
                           Provable(p)' /\ (op'[p] = "completed" <=> p \notin reverted')
                      /\ op'[p] = "failed_proven_superseded" =>
                           nonce'[p] < final' /\ ~Mined(p)'
    BY DEF OutcomeFits, Proven
  <2>1. UNCHANGED <<op, nonce>>
    BY <1>3 DEF Network, Mine, MineOther, Consume, Finalize, Reorg, disk
  <2>2. /\ op[p] \in {"completed", "failed_confirmed_revert"} =>
             Provable(p) /\ (op[p] = "completed" <=> p \notin reverted)
        /\ op[p] = "failed_proven_superseded" => nonce[p] < final /\ ~Mined(p)
    BY DEF OutcomeFits
  <2>3. nonce[p] < head /\ (nonce[p] < final \/ rule = "inclusion")
    <3>1. Mined(p) => nonce[p] < head
      BY <1>1 DEF IInv, TakersFit, Mined
    <3> QED BY <1>1, <2>1, <2>2, <3>1 DEF Provable, Proven
  <2>4. /\ taker'[nonce[p]] = taker[nonce[p]] /\ rule' = rule
        /\ nonce[p] < final => nonce[p] < final'
        /\ p \in reverted' <=> p \in reverted
    BY <1>1, <1>3, <2>3, TakersStand
  <2> QED BY <2>1, <2>2, <2>4 DEF Provable, Mined
<1>4. CASE Stop \/ (\E o \in Ops : Expire(o)) \/ UNCHANGED vars
  BY <1>3, <1>4 DEF Stop, Expire, vars
<1> QED BY <1>2, <1>3, <1>4, CommandsRecord, StepsRecord DEF Next

(* On a network that keeps what it included wherever inclusion is its rule: *)
(* a transfer is recorded as completed, reverted or superseded only when    *)
(* the account's nonce shows it, and no later reorganisation, foreign       *)
(* transaction or command makes that record wrong (classifyReceipt,         *)
(* checkNeverLands).                                                        *)
THEOREM OutcomesAreProven ==
  ASSUME "inclusion" \notin Reorgs
  PROVE  Spec => []OutcomeIsProven
<1>1. Init => OutcomeFits
  BY DEF Init, OutcomeFits
<1>2. IInv /\ OutcomeFits /\ [Next]_vars => OutcomeFits'
  BY OutcomeKeeps
<1>3. OutcomeFits => OutcomeIsProven
  BY DEF OutcomeFits, OutcomeIsProven, Provable, Paid
<1> QED BY <1>1, <1>2, <1>3, InitFits, NextKeeps, PTL DEF Spec

-----------------------------------------------------------------------------
(* The transfer implements HeldPayment.                                     *)
HoldOf(r) == CASE r = "none" -> "none"
               [] r = "finalized" -> "charged"
               [] r \in Released -> "given_back"
               [] OTHER -> "held"
holding == [o \in Ops |-> HoldOf(row[o])]
paying == {o \in Ops : Paid(o)}

LEMMA HoldNames ==
  /\ HoldOf("none") = "none" /\ HoldOf("finalized") = "charged"
  /\ \A r \in Pending : HoldOf(r) = "held"
  /\ \A r \in Released : HoldOf(r) = "given_back"
BY DEF HoldOf, Pending, Released

LEMMA HeldSteps ==
  /\ Held!Init <=> holding = [o \in Ops |-> "none"] /\ paying = {}
  /\ Held!vars = <<holding, paying>>
  /\ \A o \in Ops :
       /\ Held!Take(o) <=>
            /\ holding[o] = "none" /\ holding' = [holding EXCEPT ![o] = "held"]
            /\ UNCHANGED paying
       /\ Held!Charge(o) <=>
            /\ o \in paying /\ holding[o] = "held"
            /\ holding' = [holding EXCEPT ![o] = "charged"] /\ UNCHANGED paying
       /\ Held!GiveBack(o) <=>
            /\ o \notin paying /\ holding[o] = "held"
            /\ holding' = [holding EXCEPT ![o] = "given_back"] /\ UNCHANGED paying
       /\ Held!Pay(o) <=>
            /\ holding[o] = "held" /\ paying' \in {paying \cup {o}, paying \ {o}}
            /\ UNCHANGED holding
BY DEF Held!Init, Held!vars, Held!Take, Held!Charge, Held!GiveBack, Held!Pay, Held!Decide,
   holding, paying, HoldOf

LEMMA HeldStutters ==
  ASSUME UNCHANGED <<holding, paying>>
  PROVE  UNCHANGED Held!vars
BY DEF Held!vars, holding, paying, HoldOf

(* A command moves no payment.                                              *)
LEMMA PayingStays ==
  ASSUME IInv, IInv', NEW o \in Ops, Records(o)
  PROVE  UNCHANGED paying
<1>1. UNCHANGED <<taker, reverted>>
  BY DEF Records, chain
<1>2. \A p \in Ops : p # o \/ op[o] # "none" => (Paid(p)' <=> Paid(p))
  BY <1>1 DEF Records, Paid, Mined
<1>3. op[o] = "none" => ~Mined(o) /\ ~Mined(o)'
  <2>1. op[o] = "none" => o \notin sent /\ o \notin sent'
    BY DEF IInv, BytesFit, Unsigned, Records
  <2>2. nonce[o] \in Nonces /\ nonce'[o] \in Nonces
    BY DEF IInv, TypeOK
  <2>3. (Mined(o) => o \in sent) /\ (Mined(o)' => o \in sent')
    BY <2>2 DEF IInv, TakersFit, Mined
  <2> QED BY <2>1, <2>3
<1> QED BY <1>2, <1>3 DEF paying, Paid

LEMMA RowsMove ==
  ASSUME NEW o \in Ops, Command(o) \/ Continue(o)
  PROVE  row' = row \/ ApproveReserves(o) \/ FollowUsage(o)
<1>1. \A s, then : Transition(o, s, then) => row' = row
  BY DEF Transition
<1>2. \A step : StepTo(step, o) => row' = row
  BY DEF StepTo, disk
<1>3. Command(o) => row' = row \/ ApproveReserves(o)
  BY <1>1, <1>2 DEF Command, Prepare, RetireExpired, ApproveFails, ResumeTerminal,
     ResumeNoPrivateEntry, ResumeSigned, ResumeObserveOnly, SettleDispatched,
     AbandonUndispatched, AbandonDispatched, disk
<1>4. Continue(o) => row' = row \/ FollowUsage(o)
  BY <1>1, <1>2 DEF Continue, JournalPrepare, Start, BeginSigning, Prompt,
     RecordNoPrivateEntry, Sign, PublishSigned, Bind, Submit, Dispatch, Accepted, Ambiguous,
     ObserveNothing, ObserveUnproven, ObserveProven, SettleUnlanded, ResumeUndispatched,
     ResumeDispatched, AbandonClose, AbandonAck, Publish, disk
<1> QED BY <1>3, <1>4

LEMMA HoldMoves ==
  ASSUME IInv, NEW o \in Ops, NEW r \in RowStates, row' = [row EXCEPT ![o] = r]
  PROVE  holding' = [holding EXCEPT ![o] = HoldOf(r)] /\ holding[o] = HoldOf(row[o])
<1>1. row'[o] = r /\ \A p \in Ops \ {o} : row'[p] = row[p]
  BY DEF IInv, TypeOK
<1>2. \A p \in Ops : HoldOf(row[p])' = HoldOf(row'[p])
  BY DEF HoldOf
<1>3. holding' = [p \in Ops |-> HoldOf(row'[p])]
  BY DEF holding, HoldOf
<1>4. holding = [p \in Ops |-> HoldOf(row[p])]
  BY DEF holding
<1> HIDE DEF holding
<1>5. \A p \in Ops : holding'[p] = [holding EXCEPT ![o] = HoldOf(r)][p]
  BY <1>1, <1>3, <1>4
<1> QED BY <1>3, <1>4, <1>5

(* What the ledger records is a step, or no step, of HeldPayment.           *)
LEMMA LedgerHolds ==
  ASSUME IInv, OutcomeFits, NEW o \in Ops, UNCHANGED paying,
         row' = row \/ ApproveReserves(o) \/ FollowUsage(o)
  PROVE  [Held!Next]_(Held!vars)
<1>1. CASE row' = row
  <2>1. holding' = holding
    BY <1>1 DEF holding, HoldOf
  <2> QED BY <2>1, HeldStutters
<1>2. CASE ApproveReserves(o)
  <2>1. row[o] \in {"none", "reserved"} /\ row' = [row EXCEPT ![o] = "reserved"]
    BY <1>2 DEF ApproveReserves
  <2>2. "reserved" \in RowStates /\ "reserved" \in Pending
    BY DEF RowStates, Pending
  <2>3. holding' = [holding EXCEPT ![o] = "held"] /\ holding[o] = HoldOf(row[o])
    BY <2>1, <2>2, HoldMoves, HoldNames
  <2>4. CASE row[o] = "none"
    <3>1. Held!Take(o)
      BY <2>3, <2>4, HoldNames, HeldSteps
    <3> QED BY <3>1 DEF Held!Next
  <2>5. CASE row[o] = "reserved"
    <3>1. holding' = holding
      BY <2>2, <2>3, <2>5, HoldNames DEF holding
    <3> QED BY <3>1, HeldStutters
  <2> QED BY <2>1, <2>4, <2>5
<1>3. CASE FollowUsage(o)
  <2> DEFINE to == UsageTarget(op[o])
             r == Followed(row[o], to)
  <2>1. /\ CanFollow(row[o], to) /\ row' = [row EXCEPT ![o] = r]
        /\ proc.at = "follow" /\ proc.o = o
    BY <1>3 DEF FollowUsage, Running
  <2>2. to # "reserved" /\ RowFits(op[o], row[o]) /\ op[o] \in States /\ row[o] \in RowStates
    BY <2>1 DEF IInv, TypeOK, ProcFits, Idle
  <2>3. r \in RowStates /\ RowFits(op[o], r)
    BY <2>1, <2>2, FollowedFits
  <2>4. holding' = [holding EXCEPT ![o] = HoldOf(r)] /\ holding[o] = HoldOf(row[o])
    BY <2>1, <2>3, HoldMoves
  <2>5. \/ r = row[o]
        \/ row[o] \in Pending /\ r \in Pending
        \/ row[o] \in Pending /\ r = "finalized" /\ op[o] = "completed"
        \/ /\ row[o] \in Pending /\ r = "failed_before_effect"
           /\ op[o] \in {"failed_before_effect", "abandoned_undispatched"}
        \/ /\ row[o] \in Pending /\ r = "failed_confirmed_revert"
           /\ op[o] \in {"failed_confirmed_revert", "failed_proven_superseded"}
    <3>1. op[o] \in Dispatched \cup Terminal
      BY <2>2 DEF States, UsageTarget
    <3>2. CASE op[o] \in Dispatched \cup {"abandoned_sent"}
      BY <2>2, <3>2 DEF Dispatched, UsageTarget, Followed, RowFits, Pending
    <3>3. CASE op[o] \in {"completed", "failed_confirmed_revert", "failed_proven_superseded"}
      BY <2>1, <2>2, <3>3 DEF Dispatched, UsageTarget, Followed, RowFits, Pending
    <3>4. CASE op[o] \in {"failed_before_effect", "abandoned_undispatched"}
      BY <2>1, <2>2, <3>4 DEF Dispatched, UsageTarget, Followed, RowFits, Pending
    <3> QED BY <3>1, <3>2, <3>3, <3>4 DEF Terminal
  <2> HIDE DEF r, to
  <2>6. CASE r = row[o] \/ (row[o] \in Pending /\ r \in Pending)
    <3>1. holding' = holding
      BY <2>4, <2>6, HoldNames DEF holding
    <3> QED BY <3>1, HeldStutters
  <2>7. CASE row[o] \in Pending /\ r = "finalized" /\ op[o] = "completed"
    <3>1. o \in paying
      BY <2>7 DEF OutcomeFits, Provable, Paid, paying
    <3>2. Held!Charge(o)
      BY <2>4, <2>7, <3>1, HoldNames, HeldSteps
    <3> QED BY <3>2 DEF Held!Next
  <2>8. ASSUME row[o] \in Pending, r \in Released, o \notin paying
        PROVE  [Held!Next]_(Held!vars)
    <3>1. Held!GiveBack(o)
      BY <2>4, <2>8, HoldNames, HeldSteps
    <3> QED BY <3>1 DEF Held!Next
  <2>9. CASE op[o] \in {"failed_before_effect", "abandoned_undispatched"} /\ r = "failed_before_effect"
    <3>1. o \notin sent /\ nonce[o] \in Nonces
      BY <2>9 DEF IInv, TypeOK, BytesFit, Unsigned
    <3>2. o \notin paying
      BY <3>1 DEF IInv, TakersFit, paying, Paid, Mined
    <3> QED BY <2>5, <2>6, <2>8, <2>9, <3>2 DEF Released
  <2>10. CASE /\ op[o] \in {"failed_confirmed_revert", "failed_proven_superseded"}
              /\ r = "failed_confirmed_revert"
    <3>1. o \notin paying
      BY <2>10 DEF OutcomeFits, paying, Paid
    <3> QED BY <2>5, <2>6, <2>8, <2>10, <3>1 DEF Released
  <2> QED BY <2>5, <2>6, <2>7, <2>9, <2>10
<1> QED BY <1>1, <1>2, <1>3

(* What was sent and may still be mined, or reorganised away, is held.      *)
LEMMA SentHolds ==
  ASSUME IInv, OutcomeFits, NEW o \in Ops, o \in sent,
         ~(nonce[o] < head /\ (nonce[o] < final \/ rule = "inclusion"))
  PROVE  holding[o] = "held"
<1>1. op[o] \in States \ (Unsigned \cup {"abandoned_undispatched"}) /\ RowFits(op[o], row[o])
  BY DEF IInv, TypeOK, BytesFit
<1>2. op[o] \notin Proven
  <2>1. /\ nonce[o] \in Nonces /\ nonce[o] \in Nat /\ head \in Nat /\ final \in 0 .. head
        /\ rule \in {"safe", "inclusion"}
    BY NonceAssumption, NetworkAssumption DEF IInv, TypeOK, Nonces
  <2>2. Mined(o) => nonce[o] < head
    BY <2>1 DEF IInv, TakersFit, Mined
  <2> QED BY <2>1, <2>2 DEF OutcomeFits, Provable, Proven
<1>3. row[o] \in Pending
  BY <1>1, <1>2 DEF States, Terminal, Dispatched, Unsigned, Proven, RowFits, Pending
<1> QED BY <1>3, HoldNames DEF holding

LEMMA NetworkPays ==
  ASSUME IInv, OutcomeFits, "inclusion" \notin Reorgs, Network
  PROVE  [Held!Next]_(Held!vars)
<1>1. UNCHANGED <<disk, rule>> /\ holding' = holding
  BY DEF Network, Mine, MineOther, Consume, Finalize, Reorg, disk, holding, HoldOf
<1>2. /\ head \in Nat /\ final \in 0 .. head
      /\ taker \in [Nonces -> Ops \cup {Nobody, Other}]
      /\ \A p \in Ops : nonce[p] \in Nonces /\ nonce[p] \in Nat
  BY NonceAssumption DEF IInv, TypeOK, Nonces
<1>3. \A p \in Ops : Mined(p) => p \in sent /\ nonce[p] < head
  BY <1>2 DEF IInv, TakersFit, Mined
<1>4. \A p \in Ops : Mined(p)' <=> taker'[nonce[p]] = p
  BY <1>1 DEF Mined, disk
<1>5. ASSUME NEW o \in Ops, o \in sent, holding[o] = "held",
             \A p \in Ops \ {o} : Paid(p)' <=> Paid(p)
      PROVE  [Held!Next]_(Held!vars)
  <2>1. paying' \in {paying \cup {o}, paying \ {o}}
    <3>1. CASE Paid(o)'
      <4>1. paying' = paying \cup {o}
        BY <1>5, <3>1 DEF paying
      <4> QED BY <4>1
    <3>2. CASE ~Paid(o)'
      <4>1. paying' = paying \ {o}
        BY <1>5, <3>2 DEF paying
      <4> QED BY <4>1
    <3> QED BY <3>1, <3>2
  <2>2. Held!Pay(o)
    BY <1>1, <1>5, <2>1, HeldSteps
  <2> QED BY <2>2 DEF Held!Next
<1>6. ASSUME \A p \in Ops : Paid(p)' <=> Paid(p)
      PROVE  [Held!Next]_(Held!vars)
  <2>1. paying' = paying
    BY <1>6 DEF paying
  <2> QED BY <1>1, <2>1, HeldStutters
<1>7. ASSUME NEW by \in Ops \cup {Other}, Consume(by)
      PROVE  \A p \in Ops \ {by} : Mined(p)' <=> Mined(p)
  <2>1. head \in Nonces /\ taker' = [taker EXCEPT ![head] = by]
    BY <1>2, <1>7, NonceAssumption DEF Consume, Nonces
  <2>2. \A n \in Nonces : taker'[n] = IF n = head THEN by ELSE taker[n]
    BY <1>2, <2>1
  <2> QED BY <1>2, <1>3, <1>4, <2>2 DEF Mined
<1>8. CASE \E o \in Ops : Mine(o)
  <2>1. PICK o \in Ops : Mine(o)
    BY <1>8
  <2>2. o \in sent /\ nonce[o] = head /\ Consume(o)
        /\ \A p \in Ops \ {o} : p \in reverted' <=> p \in reverted
    BY <2>1 DEF Mine
  <2>3. holding[o] = "held"
    BY <1>2, <2>2, SentHolds
  <2>4. \A p \in Ops \ {o} : Paid(p)' <=> Paid(p)
    BY <1>7, <2>2 DEF Paid
  <2> QED BY <1>5, <2>2, <2>3, <2>4
<1>9. CASE MineOther
  <2>1. \A p \in Ops : Paid(p)' <=> Paid(p)
    BY <1>7, <1>9, OpsAssumption DEF MineOther, Paid
  <2> QED BY <1>6, <2>1
<1>10. CASE Finalize
  <2>1. \A p \in Ops : Paid(p)' <=> Paid(p)
    BY <1>4, <1>10 DEF Finalize, Paid, Mined
  <2> QED BY <1>6, <2>1
<1>11. CASE Reorg
  <2>1. /\ rule = "safe" /\ final < head /\ reverted' = reverted
        /\ taker' = [taker EXCEPT ![head - 1] = Nobody]
    BY <1>11, NetworkAssumption DEF Reorg
  <2>2. head - 1 \in Nonces
    BY <1>2, <2>1, NonceAssumption DEF IInv, TypeOK, Nonces
  <2>3. \A n \in Nonces : taker'[n] = IF n = head - 1 THEN Nobody ELSE taker[n]
    BY <1>2, <2>1, <2>2
  <2>4. \A p \in Ops : p # taker[head - 1] => (Paid(p)' <=> Paid(p))
    BY <1>2, <1>4, <2>1, <2>3, OpsAssumption DEF Paid, Mined
  <2>5. CASE taker[head - 1] \in Ops
    <3> DEFINE o == taker[head - 1]
    <3>1. o \in Ops /\ o \in sent /\ nonce[o] = head - 1
      BY <2>2, <2>5 DEF IInv, TakersFit
    <3>2. holding[o] = "held"
      BY <1>2, <2>1, <3>1, SentHolds
    <3> QED BY <1>5, <2>4, <3>1, <3>2
  <2>6. CASE taker[head - 1] \notin Ops
    BY <1>6, <2>4, <2>6
  <2> QED BY <2>5, <2>6
<1> QED BY <1>8, <1>9, <1>10, <1>11 DEF Network

(* On such a network a direct transfer does what HeldPayment promises: its  *)
(* amount is held before its payment can reach the chain, charged when it   *)
(* is there for good, given back when it never happens, and stays held for  *)
(* as long as neither is known.                                             *)
THEOREM TransferHoldsBeforePaying ==
  ASSUME "inclusion" \notin Reorgs
  PROVE  Spec => HoldsBeforePaying
<1>1. Init => OutcomeFits
  BY DEF Init, OutcomeFits
<1>2. IInv /\ OutcomeFits /\ [Next]_vars => OutcomeFits'
  BY OutcomeKeeps
<1>3. Init => Held!Init
  <2> SUFFICES ASSUME Init PROVE Held!Init
    OBVIOUS
  <2>1. \A o \in Ops : nonce[o] = 0 /\ 0 \in Nonces /\ taker[0] = Nobody /\ row[o] = "none"
    <3>1. 0 \in Nonces
      BY NonceAssumption DEF Nonces
    <3> QED BY <3>1 DEF Init
  <2>2. paying = {} /\ holding = [o \in Ops |-> "none"]
    BY <2>1, OpsAssumption, HoldNames DEF paying, Paid, Mined, holding
  <2> QED BY <2>2, HeldSteps
<1>4. IInv /\ IInv' /\ OutcomeFits /\ [Next]_vars => [Held!Next]_(Held!vars)
  <2> SUFFICES ASSUME IInv, IInv', OutcomeFits, [Next]_vars
               PROVE  [Held!Next]_(Held!vars)
    OBVIOUS
  <2>1. ASSUME NEW o \in Ops, Command(o) \/ Continue(o)
        PROVE  [Held!Next]_(Held!vars)
    <3>1. UNCHANGED paying
      BY <2>1, CommandsRecord, StepsRecord, PayingStays
    <3> QED BY <2>1, <3>1, RowsMove, LedgerHolds
  <2>2. CASE Stop \/ (\E o \in Ops : Expire(o)) \/ UNCHANGED vars
    <3>1. UNCHANGED <<disk, chain>>
      BY <2>2 DEF Stop, Expire, vars
    <3>2. UNCHANGED <<holding, paying>>
      BY <3>1 DEF holding, HoldOf, paying, Paid, Mined, disk, chain
    <3> QED BY <3>2, HeldStutters
  <2>3. CASE Network
    BY <2>3, NetworkPays
  <2> QED BY <2>1, <2>2, <2>3 DEF Next
<1> QED BY <1>1, <1>2, <1>3, <1>4, InitFits, NextKeeps, PTL DEF Spec, HoldsBeforePaying, Held!Spec

-----------------------------------------------------------------------------
(* The transfer and the ledger's table.                                     *)
LEMMA FollowedLegally ==
  ASSUME NEW s \in States, NEW r \in RowStates, RowFits(s, r), UsageTarget(s) # "reserved",
         CanFollow(r, UsageTarget(s))
  PROVE  \/ Followed(r, UsageTarget(s)) = r
         \/ Ledger!Takes(r, Followed(r, UsageTarget(s)))
<1>1. s \in Dispatched \cup Terminal
  BY DEF States, UsageTarget
<1>2. CASE s \in Dispatched \cup {"abandoned_sent"}
  BY <1>2 DEF Dispatched, UsageTarget, Followed, RowFits, Pending, Ledger!Takes
<1>3. CASE s \in {"completed", "failed_confirmed_revert", "failed_proven_superseded"}
  BY <1>3 DEF Dispatched, UsageTarget, Followed, RowFits, Pending, Ledger!Takes
<1>4. CASE s \in {"failed_before_effect", "abandoned_undispatched"}
  BY <1>4 DEF Dispatched, UsageTarget, Followed, RowFits, Pending, Ledger!Takes
<1> QED BY <1>1, <1>2, <1>3, <1>4 DEF Terminal

(* The ledger takes every write of a transfer's reservation.  A follow that *)
(* stops half way, and is run again from the operation's record, still asks *)
(* for a transition of assertTransition's table.                            *)
THEOREM LedgerTakesTransfers == Spec => LedgerTakesEveryWrite
<1>1. Init => Ledger!Init
  BY DEF Init, Ledger!Init
<1>2. IInv /\ [Next]_vars => [Ledger!Next]_row
  <2> SUFFICES ASSUME IInv, [Next]_vars, row' # row PROVE Ledger!Next
    OBVIOUS
  <2>1. PICK o \in Ops : ApproveReserves(o) \/ FollowUsage(o)
    <3>1. \E o \in Ops : Command(o) \/ Continue(o)
      BY DEF Next, Network, Mine, MineOther, Consume, Finalize, Reorg, Expire, Stop, vars, disk
    <3> QED BY <3>1, RowsMove
  <2>2. /\ op[o] \in States /\ row[o] \in RowStates /\ RowFits(op[o], row[o])
        /\ \A r : row' = [row EXCEPT ![o] = r] => r # row[o]
    BY DEF IInv, TypeOK
  <2>3. ASSUME NEW r \in RowStates, row' = [row EXCEPT ![o] = r], Ledger!Takes(row[o], r)
        PROVE  Ledger!Next
    <3>1. r \in Ledger!States
      BY DEF RowStates, Ledger!States
    <3> QED BY <2>3, <3>1 DEF Ledger!Next, Ledger!Write
  <2>4. CASE ApproveReserves(o)
    <3>1. row[o] = "none" /\ row' = [row EXCEPT ![o] = "reserved"]
      BY <2>2, <2>4 DEF ApproveReserves
    <3>2. "reserved" \in RowStates /\ Ledger!Takes(row[o], "reserved")
      BY <3>1 DEF RowStates, Ledger!Takes
    <3> QED BY <2>3, <3>1, <3>2
  <2>5. CASE FollowUsage(o)
    <3> DEFINE r == Followed(row[o], UsageTarget(op[o]))
    <3>1. /\ proc.at = "follow" /\ proc.o = o /\ CanFollow(row[o], UsageTarget(op[o]))
          /\ row' = [row EXCEPT ![o] = r]
      BY <2>5 DEF FollowUsage, Running
    <3>2. UsageTarget(op[o]) # "reserved"
      BY <3>1 DEF IInv, ProcFits, Idle
    <3>3. r \in RowStates /\ r # row[o]
      BY <2>2, <3>1, <3>2, FollowedFits
    <3>4. Ledger!Takes(row[o], r)
      BY <2>2, <3>1, <3>2, <3>3, FollowedLegally
    <3> QED BY <2>3, <3>1, <3>3, <3>4
  <2> QED BY <2>1, <2>4, <2>5
<1> QED BY <1>1, <1>2, InitFits, NextKeeps, PTL DEF Spec, LedgerTakesEveryWrite, Ledger!Spec

(* No follow of a transfer is refused as corrupt state: whatever the last   *)
(* stop left in the ledger, the next command can bring it to the outcome.   *)
THEOREM FollowsAreNeverRefused == Spec => []FollowIsNeverRefused
<1>1. IInv => FollowIsNeverRefused
  <2> SUFFICES ASSUME IInv, NEW o \in Ops, op[o] # "none", UsageTarget(op[o]) # "reserved"
               PROVE  CanFollow(row[o], UsageTarget(op[o]))
    BY DEF FollowIsNeverRefused
  <2>1. op[o] \in Dispatched \cup Terminal /\ RowFits(op[o], row[o])
    BY DEF IInv, TypeOK, States, UsageTarget
  <2>2. CASE op[o] \in Dispatched \cup {"abandoned_sent"}
    BY <2>1, <2>2 DEF Dispatched, UsageTarget, CanFollow, RowFits, Pending
  <2>3. CASE op[o] \in {"completed", "failed_confirmed_revert", "failed_proven_superseded"}
    BY <2>1, <2>3 DEF Dispatched, UsageTarget, CanFollow, RowFits, Pending
  <2>4. CASE op[o] \in {"failed_before_effect", "abandoned_undispatched"}
    BY <2>1, <2>4 DEF Dispatched, UsageTarget, CanFollow, RowFits, Pending
  <2> QED BY <2>1, <2>2, <2>3, <2>4 DEF Terminal
<1> QED BY <1>1, InitFits, NextKeeps, PTL DEF Spec

=============================================================================
