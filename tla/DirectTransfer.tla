--------------------------- MODULE DirectTransfer ---------------------------
(***************************************************************************)
(* The local EVM direct transfer (prepare-asset, approve, resume, blocker  *)
(* settle, abandon): transfer-service.ts, transfer-service-observe.ts,     *)
(* direct-public-effect.ts, evm-direct-submission.ts, the native signer's  *)
(* approveAndSign, and the usage-ledger follow of direct-allowlist-gate.ts.*)
(*                                                                         *)
(* Ops are the transfers of one profile from one account on one network.   *)
(* Every command holds the profile lock from its first read to its last    *)
(* write, so at most one command runs (`proc`); it advances one durable    *)
(* write, network call or owner decision at a time, and it may stop        *)
(* between any two of them: the process dies, or the call throws.          *)
(* The network and the clock move underneath it.                           *)
(***************************************************************************)
EXTENDS Integers

CONSTANTS
  Ops,        \* transfer operations
  MaxNonce,   \* bound: nonces of the account the chain can consume
  MaxStops,   \* bound: commands that stop half way
  Rules,      \* finality rules the network may have: "safe", "inclusion"
  Reorgs      \* the rules under which a block that is not final may go

ASSUME NonceAssumption == MaxNonce \in Nat \ {0}
ASSUME StopsAssumption == MaxStops \in Nat
ASSUME NetworkAssumption ==
  Rules \subseteq {"safe", "inclusion"} /\ Reorgs \subseteq Rules

Nobody == "nobody"   \* no operation; a nonce no transaction has consumed
Other == "other"     \* a transaction of this account APN did not send
ASSUME OpsAssumption == Nobody \notin Ops /\ Other \notin Ops

VARIABLES
  op,       \* op[o]: state of the operation record
  nonce,    \* nonce[o]: the nonce frozen at prepare
  journal,  \* journal[o]: files of the public effect journal
  fence,    \* operations with a dispatch fence on disk
  row,      \* row[o]: state of its reservation in the usage ledger
  expired,  \* operations whose approval window is over
  proc,     \* the running command: its next step
  stops,    \* commands that stopped half way
  rule,     \* the network's finality rule; never changes
  sent,     \* operations whose signed bytes reached the network
  taker,    \* taker[n]: the transaction that consumed nonce n
  head,     \* the account's nonce at the head block
  final,    \* the account's nonce at the finalized (and safe) block
  reverted  \* operations included with a reverted receipt

disk == <<op, nonce, journal, fence, row>>
chain == <<rule, taker, head, final, reverted>>
vars == <<disk, expired, proc, stops, sent, chain>>

Nonces == 0 .. MaxNonce - 1

Terminal == {"completed", "failed_before_effect", "failed_confirmed_revert",
             "failed_proven_superseded", "abandoned_undispatched",
             "abandoned_sent"}
Dispatched == {"submitted_pending", "unknown_finality"}
(* abandoned_unknown with either of its two reasons; "none" is no record.  *)
States == {"none", "awaiting_approval", "started", "signed_not_submitted"}
            \cup Dispatched \cup Terminal

RowStates == {"none", "reserved", "submitted", "unknown_finality",
              "finalized", "failed_before_effect", "failed_confirmed_revert"}
Released == {"failed_before_effect", "failed_confirmed_revert"}

Phases == {"prepared", "signing", "no_private_entry", "signed"}

Steps == {"idle", "journal_prepare", "start", "begin_signing", "prompt",
          "refused", "sign", "publish", "bind", "submit", "dispatch",
          "redispatch", "accepted", "ambiguous", "inspect", "resume",
          "observe", "observe_only", "settle", "settle_only",
          "abandon_close", "abandon_observe", "abandon_ack",
          "follow"}

Open(o) == op[o] \notin Terminal \cup {"none"}

-----------------------------------------------------------------------------
(* The running command.                                                    *)

Idle == [at |-> "idle", o |-> Nobody, then |-> "idle"]
At(step, o) == IF step = "idle" THEN Idle
               ELSE [at |-> step, o |-> o, then |-> "idle"]
Running(step, o) == proc.at = step /\ proc.o = o
Goto(step, o) == proc' = At(step, o)

(* evmUsageTarget: where the operation says its reservation must be.       *)
UsageTarget(s) ==
  CASE s = "submitted_pending" -> "submitted"
    [] s \in {"unknown_finality", "abandoned_sent"} -> "unknown_finality"
    [] s = "completed" -> "finalized"
    [] s \in {"failed_before_effect", "abandoned_undispatched"} ->
         "failed_before_effect"
    [] s \in {"failed_confirmed_revert", "failed_proven_superseded"} ->
         "failed_confirmed_revert"
    [] OTHER -> "reserved"

(* The follow of target "reserved" returns at once.                        *)
Follow(s, o, then) ==
  proc' = IF UsageTarget(s) = "reserved" THEN At(then, o)
          ELSE [at |-> "follow", o |-> o, then |-> then]

(* transition(): the record is written, then the ledger follows it.        *)
Transition(o, s, then) ==
  /\ op' = [op EXCEPT ![o] = s]
  /\ Follow(s, o, then)
  /\ UNCHANGED <<nonce, journal, fence, row, expired, stops, sent, chain>>

StepTo(step, o) ==
  /\ Goto(step, o)
  /\ UNCHANGED <<disk, expired, stops, sent, chain>>

(* The two refusals of follow (as corrupt state), negated: the ledger can  *)
(* still go where the operation already is.                                *)
CanFollow(from, to) ==
  \/ from = to
  \/ from = "none" /\ to = "failed_before_effect"
  \/ from \in {"reserved", "submitted", "unknown_finality"}
       /\ to \in {"submitted", "unknown_finality", "finalized",
                  "failed_confirmed_revert"}
  \/ from = "reserved" /\ to = "failed_before_effect"

(* One ledger transition of follow; a revert of a row that is still        *)
(* reserved is written as submitted first.                                 *)
Followed(from, to) ==
  IF from = "none" \/ (to = "submitted" /\ from # "reserved") THEN from
  ELSE IF to = "failed_confirmed_revert" /\ from = "reserved" THEN "submitted"
  ELSE to

FollowUsage(o) ==
  LET to == UsageTarget(op[o])
      next == Followed(row[o], to)
      again == to = "failed_confirmed_revert" /\ next = "submitted"
  IN /\ Running("follow", o)
     /\ CanFollow(row[o], to)
     /\ row' = [row EXCEPT ![o] = next]
     /\ IF again THEN UNCHANGED proc ELSE Goto(proc.then, o)
     /\ UNCHANGED <<op, nonce, journal, fence, expired, stops, sent, chain>>

(* The process dies, or the next call throws out of the command.           *)
Stop ==
  /\ proc # Idle
  /\ stops < MaxStops
  /\ proc' = Idle
  /\ stops' = stops + 1
  /\ UNCHANGED <<disk, expired, sent, chain>>

-----------------------------------------------------------------------------
(* Prepare.                                                                *)

(* eth_getTransactionCount "pending" of one node: it may be behind the     *)
(* head, and it may know any of the pooled transactions.                   *)
PendingNonces ==
  {n \in Nonces : \E h \in final .. head : /\ h <= n
     /\ \A k \in h .. n - 1 :
          taker[k] # Nobody \/ \E o \in sent : nonce[o] = k}

(* The admission (OperationIndex.admit) refuses while another transfer of  *)
(* the account is open.                                                    *)
Prepare(o) ==
  /\ proc = Idle
  /\ op[o] = "none"
  /\ \A p \in Ops : ~Open(p)
  /\ op' = [op EXCEPT ![o] = "awaiting_approval"]
  /\ \E n \in PendingNonces : nonce' = [nonce EXCEPT ![o] = n]
  /\ Goto("journal_prepare", o)
  /\ UNCHANGED <<journal, fence, row, expired, stops, sent, chain>>

Publish(o, phase) ==
  /\ journal' = [journal EXCEPT ![o] = @ \cup {phase}]
  /\ UNCHANGED <<op, nonce, fence, row, expired, stops, sent, chain>>

JournalPrepare(o) ==
  /\ Running("journal_prepare", o)
  /\ Publish(o, "prepared")
  /\ Goto("idle", o)

(* assertUnstarted: throws unless the prepared claim is there and nothing  *)
(* of a signature is.                                                      *)
Unstarted(o) ==
  /\ op[o] = "awaiting_approval"
  /\ "prepared" \in journal[o]
  /\ journal[o] \cap {"signing", "signed"} = {}

(* retireExpiredDirectTransfers, in the prepare of any transfer of the     *)
(* same account, before its admission.                                     *)
RetireExpired(o) ==
  /\ proc = Idle
  /\ o \in expired
  /\ row[o] = "none"
  /\ Unstarted(o)
  /\ Transition(o, "failed_before_effect", "idle")

-----------------------------------------------------------------------------
(* Approve.                                                                *)

(* failBeforeEffect: the window is over, the custody, nonce, funding or    *)
(* fee check fails, or the gate refuses the reservation.                   *)
ApproveFails(o) ==
  /\ proc = Idle
  /\ Unstarted(o)
  /\ Transition(o, "failed_before_effect", "idle")

(* Mutant of ApproveReserves: the transfer starts without a hold.          *)
ApproveReserves_NoHold(o) ==
  /\ proc = Idle
  /\ Unstarted(o)
  /\ o \notin expired
  /\ nonce[o] \in PendingNonces
  /\ Goto("start", o)
  /\ UNCHANGED <<disk, expired, stops, sent, chain>>

(* reserve: a reservation an interrupted approval left is replayed.        *)
ApproveReserves(o) ==
  /\ proc = Idle
  /\ Unstarted(o)
  /\ o \notin expired
  /\ nonce[o] \in PendingNonces
  /\ row[o] \in {"none", "reserved"}
  /\ row' = [row EXCEPT ![o] = "reserved"]
  /\ Goto("start", o)
  /\ UNCHANGED <<op, nonce, journal, fence, expired, stops, sent, chain>>

Start(o) ==
  /\ Running("start", o)
  /\ Transition(o, "started", "begin_signing")

BeginSigning(o) ==
  /\ Running("begin_signing", o)
  /\ {"signing", "signed"} \cap journal[o] = {}
  /\ Publish(o, "signing")
  /\ Goto("prompt", o)

(* The owner approves, or the prompt ends any other way.                   *)
Prompt(o) ==
  /\ Running("prompt", o)
  /\ \E answer \in {"sign", "refused"} : StepTo(answer, o)

(* checkNoPrivateContext: an untouched started attempt.                    *)
NoPrivateContext(o) ==
  /\ op[o] = "started"
  /\ {"prepared", "signing"} \subseteq journal[o]
  /\ "signed" \notin journal[o]
  /\ o \notin fence

RecordNoPrivateEntry(o) ==
  /\ Running("refused", o)
  /\ NoPrivateContext(o)
  /\ Publish(o, "no_private_entry")
  /\ Goto("idle", o)

(* Inside the wallet: a last check refuses, or the transaction is signed   *)
(* and saved in encrypted custody.  The operation stays started either way.*)
Sign(o) ==
  /\ Running("sign", o)
  /\ \E next \in {"publish", "idle"} : StepTo(next, o)

PublishSigned(o) ==
  /\ Running("publish", o)
  /\ "no_private_entry" \notin journal[o]
  /\ Publish(o, "signed")
  /\ Goto("bind", o)

Bind(o) ==
  /\ Running("bind", o)
  /\ Transition(o, "signed_not_submitted", "submit")

-----------------------------------------------------------------------------
(* Submission.                                                             *)

(* submitAndInspect: with a fence it only inspects.                        *)
Submit(o) ==
  /\ Running("submit", o)
  /\ fence' = fence \cup {o}
  /\ Goto(IF o \in fence THEN "inspect" ELSE "dispatch", o)
  /\ UNCHANGED <<op, nonce, journal, row, expired, stops, sent, chain>>

(* submitRawTransaction: the bytes may arrive whatever the answer says.    *)
Dispatch(o) ==
  /\ Running("dispatch", o) \/ Running("redispatch", o)
  /\ sent' \in {sent, sent \cup {o}}
  /\ \E answer \in {"accepted", "ambiguous"} :
       proc' = [at |-> answer, o |-> o,
                then |-> IF proc.at = "dispatch" THEN "inspect" ELSE "idle"]
  /\ UNCHANGED <<disk, expired, stops, chain>>

Accepted(o) ==
  /\ Running("accepted", o)
  /\ Transition(o, "submitted_pending", proc.then)

(* An error or another hash.  A re-send that is already unknown, or gets   *)
(* another hash, writes nothing.                                           *)
Ambiguous(o) ==
  /\ Running("ambiguous", o)
  /\ \/ Transition(o, "unknown_finality", "idle")
     \/ proc.then = "idle" /\ StepTo("idle", o)

-----------------------------------------------------------------------------
(* Observation.                                                            *)

Mined(o) == taker[nonce[o]] = o

(* Mutant of Provable: included is enough on every network.                *)
Provable_Included(o) == Mined(o)

(* What the network's finality rule asks of an included transaction.       *)
Provable(o) == Mined(o) /\ (rule = "safe" => nonce[o] < final)

(* Where a command goes on after its receipt read.                         *)
AfterAbsent == [inspect |-> "idle", observe |-> "settle",
                observe_only |-> "settle_only", abandon_observe |-> "abandon_ack"]
AfterRead == [inspect |-> "idle", observe |-> "idle",
              observe_only |-> "idle", abandon_observe |-> "abandon_ack"]
Observing == DOMAIN AfterRead

(* observeReceipt: no answer; or a node that has no receipt, because there *)
(* is none, it is behind, or its index is pruned.                          *)
ObserveNothing(o) ==
  /\ proc.o = o /\ proc.at \in Observing
  /\ \E next \in {AfterAbsent[proc.at], AfterRead[proc.at]} : StepTo(next, o)

(* A receipt whose evidence does not prove the transfer.                   *)
ObserveUnproven(o) ==
  /\ proc.o = o /\ proc.at \in Observing
  /\ Mined(o)
  /\ Transition(o, "unknown_finality", AfterRead[proc.at])

(* classifyReceipt with its evidence.                                      *)
ObserveProven(o) ==
  /\ proc.o = o /\ proc.at \in Observing
  /\ Provable(o)
  /\ Transition(o, IF o \in reverted THEN "failed_confirmed_revert"
                   ELSE "completed", "idle")

(* One node's answers in one batch: its finalized nonce, whether it knows  *)
(* the transaction (pooled or included), whether its index provably        *)
(* reaches back to the block read at prepare.                              *)
Answers(o) ==
  {a \in [nonce : 0 .. final, knows : BOOLEAN, indexed : BOOLEAN] :
     /\ a.knows => o \in sent
     /\ a.indexed /\ Mined(o) /\ nonce[o] < a.nonce => a.knows}

(* checkNeverLands.                                                        *)
NeverLands(a, n) == a.nonce > n /\ ~a.knows /\ a.indexed

(* Mutant of SettleUnlanded: a lost broadcast is only observed.            *)
SettleUnlanded_NeverResends(o) ==
  /\ Running("settle", o) \/ Running("settle_only", o)
  /\ \/ StepTo("idle", o)
     \/ \E a \in Answers(o) :
          /\ NeverLands(a, nonce[o])
          /\ Transition(o, "failed_proven_superseded", "idle")

(* settleUnlanded: superseded; or wait; or re-send the same signed bytes.  *)
SettleUnlanded(o) ==
  /\ Running("settle", o) \/ Running("settle_only", o)
  /\ \/ StepTo("idle", o)
     \/ \E a \in Answers(o) :
          \/ /\ NeverLands(a, nonce[o])
             /\ Transition(o, "failed_proven_superseded", "idle")
          \/ /\ ~a.knows /\ a.nonce <= nonce[o] /\ proc.at = "settle"
             /\ StepTo("redispatch", o)

-----------------------------------------------------------------------------
(* Resume.                                                                 *)

(* noPrivateEntry and its context hold: nothing was ever signed.           *)
NoPrivateEntry(o) == "no_private_entry" \in journal[o] /\ NoPrivateContext(o)

(* DirectPublicEffectJournal.effect: throws without the signed record.     *)
Effect(o) == /\ {"prepared", "signed"} \subseteq journal[o]
             /\ "no_private_entry" \notin journal[o]

(* A terminal operation only repairs a ledger that lags.                   *)
ResumeTerminal(o) ==
  /\ proc = Idle
  /\ op[o] \in Terminal
  /\ row[o] # UsageTarget(op[o])
  /\ proc' = [at |-> "follow", o |-> o, then |-> "idle"]
  /\ UNCHANGED <<disk, expired, stops, sent, chain>>

(* releaseDirectReservedAfter: the outcome is written, then the row is     *)
(* released under the same bucket lock.                                    *)
ResumeNoPrivateEntry(o) ==
  /\ proc = Idle
  /\ NoPrivateEntry(o)
  /\ row[o] = "reserved"
  /\ Transition(o, "failed_before_effect", "idle")

(* Mutant of ResumeSigned: an operation that is already closed, too.       *)
ResumeSigned_Closed(o) ==
  /\ proc = Idle
  /\ op[o] \notin {"none", "awaiting_approval"}
  /\ Effect(o)
  /\ IF op[o] = "started" THEN Transition(o, "signed_not_submitted", "resume")
     ELSE StepTo("resume", o)

ResumeSigned(o) ==
  /\ proc = Idle
  /\ Open(o) /\ op[o] # "awaiting_approval"
  /\ Effect(o)
  /\ IF op[o] = "started" THEN Transition(o, "signed_not_submitted", "resume")
     ELSE StepTo("resume", o)

(* A signature APN never dispatched is sent; any other is observed.        *)
ResumeUndispatched(o) ==
  /\ Running("resume", o)
  /\ op[o] = "signed_not_submitted" /\ o \notin fence
  /\ StepTo("submit", o)

ResumeDispatched(o) ==
  /\ Running("resume", o)
  /\ IF op[o] = "signed_not_submitted"
     THEN o \in fence /\ Transition(o, "unknown_finality", "observe")
     ELSE StepTo("observe", o)

(* --observe-only: never sends.                                            *)
ResumeObserveOnly(o) ==
  /\ proc = Idle
  /\ op[o] \in Dispatched \cup {"signed_not_submitted"}
  /\ Effect(o)
  /\ IF op[o] = "signed_not_submitted"
     THEN Transition(o, "unknown_finality", "observe_only")
     ELSE StepTo("observe_only", o)

(* settleDispatchedDirect: a refused prepare observes its blocker.         *)
SettleDispatched(o) ==
  /\ proc = Idle
  /\ op[o] \in Dispatched
  /\ StepTo("observe_only", o)

-----------------------------------------------------------------------------
(* Abandon (after the owner's foreground acknowledgement).                 *)

(* Mutant of AbandonUndispatched: the dispatch fence is not looked at.     *)
AbandonUndispatched_IgnoresFence(o) ==
  /\ proc = Idle
  /\ op[o] \in {"started", "signed_not_submitted"}
  /\ Effect(o)
  /\ IF op[o] = "started"
     THEN Transition(o, "signed_not_submitted", "abandon_close")
     ELSE Transition(o, "abandoned_undispatched", "idle")

AbandonUndispatched(o) ==
  /\ proc = Idle
  /\ op[o] \in {"started", "signed_not_submitted"}
  /\ o \notin fence
  /\ Effect(o)
  /\ IF op[o] = "started"
     THEN Transition(o, "signed_not_submitted", "abandon_close")
     ELSE Transition(o, "abandoned_undispatched", "idle")

AbandonClose(o) ==
  /\ Running("abandon_close", o)
  /\ Transition(o, "abandoned_undispatched", "idle")

(* One last receipt read, or none without an RPC.                          *)
AbandonDispatched(o) ==
  /\ proc = Idle
  /\ op[o] \in Dispatched \/ (op[o] = "signed_not_submitted" /\ o \in fence)
  /\ o \in expired
  /\ \E next \in {"abandon_observe", "abandon_ack"} : StepTo(next, o)

AbandonAck(o) ==
  /\ Running("abandon_ack", o)
  /\ \/ Transition(o, "abandoned_sent", "idle")
     \/ StepTo("idle", o)

-----------------------------------------------------------------------------
(* The network and the clock.                                              *)

Consume(by) ==
  /\ head < MaxNonce
  /\ taker' = [taker EXCEPT ![head] = by]
  /\ head' = head + 1
  /\ UNCHANGED <<disk, expired, proc, stops, sent, rule, final>>

Mine(o) ==
  /\ o \in sent
  /\ nonce[o] = head
  /\ \E ok \in BOOLEAN :
       reverted' = IF ok THEN reverted \ {o} ELSE reverted \cup {o}
  /\ Consume(o)

MineOther == Consume(Other) /\ UNCHANGED reverted

Finalize ==
  /\ final < head
  /\ \E f \in final + 1 .. head : final' = f
  /\ UNCHANGED <<disk, expired, proc, stops, sent, rule, taker, head, reverted>>

Reorg ==
  /\ rule \in Reorgs
  /\ final < head
  /\ head' = head - 1
  /\ taker' = [taker EXCEPT ![head - 1] = Nobody]
  /\ UNCHANGED <<disk, expired, proc, stops, sent, rule, final, reverted>>

Expire(o) ==
  /\ op[o] # "none" /\ o \notin expired
  /\ expired' = expired \cup {o}
  /\ UNCHANGED <<disk, proc, stops, sent, chain>>

-----------------------------------------------------------------------------
Init ==
  /\ op = [o \in Ops |-> "none"]
  /\ nonce = [o \in Ops |-> 0]
  /\ journal = [o \in Ops |-> {}]
  /\ fence = {}
  /\ row = [o \in Ops |-> "none"]
  /\ expired = {}
  /\ proc = Idle
  /\ stops = 0
  /\ rule \in Rules
  /\ sent = {}
  /\ taker = [n \in Nonces |-> Nobody]
  /\ head = 0
  /\ final = 0
  /\ reverted = {}

(* A new command; a step of the running command.                           *)
Command(o) ==
  \/ Prepare(o) \/ RetireExpired(o)
  \/ ApproveFails(o) \/ ApproveReserves(o)
  \/ ResumeTerminal(o) \/ ResumeNoPrivateEntry(o) \/ ResumeSigned(o)
  \/ ResumeObserveOnly(o) \/ SettleDispatched(o)
  \/ AbandonUndispatched(o) \/ AbandonDispatched(o)

Continue(o) ==
  \/ FollowUsage(o) \/ JournalPrepare(o) \/ Start(o) \/ BeginSigning(o)
  \/ Prompt(o) \/ RecordNoPrivateEntry(o) \/ Sign(o) \/ PublishSigned(o)
  \/ Bind(o) \/ Submit(o) \/ Dispatch(o) \/ Accepted(o) \/ Ambiguous(o)
  \/ ObserveNothing(o) \/ ObserveUnproven(o) \/ ObserveProven(o)
  \/ SettleUnlanded(o) \/ ResumeUndispatched(o) \/ ResumeDispatched(o)
  \/ AbandonClose(o) \/ AbandonAck(o)

Network == (\E o \in Ops : Mine(o)) \/ MineOther \/ Finalize \/ Reorg

Next ==
  \/ \E o \in Ops :
       \/ Command(o)
       \/ Continue(o)
       \/ Expire(o)
  \/ Network
  \/ Stop

Spec == Init /\ [][Next]_vars

(* What the scheduling and the network give a transfer that is not left    *)
(* alone: a command that runs goes on, the owner keeps running resume (and *)
(* prepares the next transfer), and the RPC does not for ever withhold a   *)
(* receipt, its absence, the nonce proof, or the delivery of a re-send.    *)
FindsAbsent(o) == ObserveNothing(o) /\ proc'.at = "settle"
FindsSuperseded(o) == SettleUnlanded(o) /\ op'[o] = "failed_proven_superseded"
Resends(o) == SettleUnlanded(o) /\ proc'.at = "redispatch"
Arrives(o) == Dispatch(o) /\ o \in sent'

Fairness ==
  /\ WF_vars(Finalize)
  /\ \A o \in Ops :
       /\ WF_vars(Continue(o)) /\ WF_vars(Mine(o))
       /\ SF_vars(ResumeSigned(o)) /\ SF_vars(ResumeNoPrivateEntry(o))
       /\ SF_vars(RetireExpired(o))
       /\ SF_vars(ObserveProven(o)) /\ SF_vars(FindsAbsent(o))
       /\ SF_vars(FindsSuperseded(o)) /\ SF_vars(Resends(o))
       /\ SF_vars(Arrives(o))

FairSpec == Spec /\ Fairness

-----------------------------------------------------------------------------
(* Properties.                                                             *)

(* Every variable keeps its type.                                          *)
TypeOK ==
  /\ op \in [Ops -> States]
  /\ nonce \in [Ops -> Nonces]
  /\ journal \in [Ops -> SUBSET Phases]
  /\ fence \in SUBSET Ops
  /\ row \in [Ops -> RowStates]
  /\ expired \in SUBSET Ops
  /\ proc \in [at : Steps, o : Ops \cup {Nobody}, then : Steps]
  /\ stops \in 0 .. MaxStops
  /\ rule \in Rules
  /\ sent \in SUBSET Ops
  /\ taker \in [Nonces -> Ops \cup {Nobody, Other}]
  /\ head \in 0 .. MaxNonce
  /\ final \in 0 .. head
  /\ reverted \in SUBSET Ops

Paid(o) == Mined(o) /\ o \notin reverted

(* The transfer implements HeldPayment: its reservation is what is held,   *)
(* and a payment is an included transfer that did not revert.              *)
Held == INSTANCE HeldPayment WITH
  hold <- [o \in Ops |->
             CASE row[o] = "none" -> "none"
               [] row[o] = "finalized" -> "charged"
               [] row[o] \in Released -> "given_back"
               [] OTHER -> "held"],
  paid <- {o \in Ops : Paid(o)}
HoldsBeforePaying == Held!Spec

(* The ledger takes every write of a transfer's reservation: it is held    *)
(* once, and each follow asks for a transition of assertTransition's table *)
(* (DirectAllowlistGate.follow).                                           *)
Ledger == INSTANCE LedgerRows
LedgerTakesEveryWrite == Ledger!Spec

(* Wherever a stop left the ledger behind, the operation's next follow is  *)
(* not refused as corrupt state (directUsageFollow): no hold is stranded   *)
(* by a ledger that went another way than its operation.                   *)
FollowIsNeverRefused ==
  \A o \in Ops : op[o] # "none" =>
    UsageTarget(op[o]) = "reserved" \/ CanFollow(row[o], UsageTarget(op[o]))

(* Bytes are on the network only while the amount is held in the ledger or *)
(* was decided there, the signature is public, and the operation does not  *)
(* claim that nothing was sent (submitAndInspect, settleUnlanded,          *)
(* abandonLocal).                                                          *)
SentIsHeld ==
  \A o \in sent :
    /\ "signed" \in journal[o]
    /\ row[o] \notin {"none", "failed_before_effect"}
    /\ op[o] \notin {"none", "awaiting_approval", "started",
                     "failed_before_effect", "abandoned_undispatched"}

(* An outcome recorded as proven is what the account's nonce shows         *)
(* (classifyReceipt, checkNeverLands).                                     *)
OutcomeIsProven ==
  \A o \in Ops :
    /\ op[o] = "completed" => Paid(o)
    /\ op[o] = "failed_confirmed_revert" => Mined(o) /\ o \in reverted
    /\ op[o] = "failed_proven_superseded" => nonce[o] < final /\ ~Mined(o)

(* A closed transfer stays closed, and bytes that had not left are never   *)
(* sent for it again (abandonLocal, resume of a terminal operation).       *)
ClosedStaysClosed ==
  [][\A o \in Ops : op[o] \in Terminal =>
       /\ op'[o] = op[o]
       /\ o \in sent' => o \in sent]_vars

(* A sent transfer is decided or abandoned in the end: no stop, lost     *)
(* answer or lost broadcast leaves it open for ever (resume).              *)
DispatchSettles ==
  \A o \in Ops : (o \in fence \/ op[o] \in Dispatched) ~> op[o] \in Terminal

=============================================================================
