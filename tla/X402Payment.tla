----------------------------- MODULE X402Payment -----------------------------
(***************************************************************************)
(* A purchase paid over x402 with an EIP-3009 authorization (fetch         *)
(* prepare, approve, resume with and without a wait, owner abandon):       *)
(* x402-service.ts, x402-lifecycle.ts, x402-paid-request.ts, its           *)
(* reconciler and expiry proof, x402-abandon.ts and the hold of            *)
(* x402-usage.ts in the shared daily ledger.                               *)
(*                                                                         *)
(* A command holds the profile and operation locks from its first read to  *)
(* its last write, so one command runs at a time (`proc`), one durable     *)
(* write, signature, HTTP call or chain read per step.  It may stop before *)
(* any of them.  The merchant, the chain and the clock move underneath it. *)
(***************************************************************************)
EXTENDS Sequences, Integers, FiniteSets

CONSTANTS
  Ops,        \* purchases
  Signers,    \* who signs: the "local" wallet or a "provider"
  MaxStops    \* bound: commands that stop half way

ASSUME SignersAssumption == Signers \subseteq {"local", "provider"}
ASSUME StopsAssumption == MaxStops \in Nat

VARIABLES
  op,        \* op[o]: state of the durable operation record
  asked,     \* asked[o]: times authorization_material_pending was written, while
             \* that is the state
  attempts,  \* attempts[o]: paid HTTP attempts, each written before it is sent
  hint,      \* hint[o]: the transaction the merchant named, if it answered
  proof,     \* proof[o]: evidence read from the chain
  result,    \* result[o]: the paid body: not kept, in its file, or linked
  receipt,   \* receipt[o]: terminal state of the receipt file
  row,       \* row[o]: state of the hold in the usage ledger
  buyer,     \* buyer[o]: the frozen signer and payment identifier
  proc,      \* the running command: its next step
  stops,     \* commands that stopped half way
  exposed,   \* purchases whose signed header reached the merchant
  leaked,    \* purchases whose header reached the chain some other way
  settled,   \* settled[o]: the authorization is unused, used, used for good
  late,      \* purchases whose validBefore a finalized block has passed
  expired    \* purchases whose validBefore the local clock has passed

evidence == <<attempts, hint, proof, result>>
disk == <<op, asked, evidence, receipt, row>>
world == <<exposed, leaked, settled, late, expired>>
vars == <<disk, buyer, proc, stops, world>>

Terminal == {"completed", "failed_before_effect", "failed_expired_unused",
             "failed_settled_without_result", "abandoned_unknown"}
(* seller_result_recovery_pending is "recovering".                         *)
Pending == {"awaiting_approval", "authorization_material_pending",
            "authorized_not_sent", "paid_request_pending",
            "settlement_pending", "effect_unknown", "recovering"}
Attempts == [purpose : {"payment", "result_recovery"},
             phase : {"pending", "observed", "ambiguous"}]
(* The merchant's answer: no usable one, one without a PAYMENT-RESPONSE,   *)
(* or one whose PAYMENT-RESPONSE names the settling transaction or not;    *)
(* with the purchased body or without.                                     *)
NoAnswer == [names |-> "nothing", body |-> FALSE]
Answers == [names : {"no_header", "true", "false"}, body : BOOLEAN]
                                                         \cup {NoAnswer}
Steps == {"idle", "pend", "create", "get", "orphan", "finish", "read",
          "finish_read", "finish_unused", "act", "act_unused", "send",
          "http", "answered", "keep", "link", "finish_end", "receipt",
          "close", "follow"}
Modes == {"approve", "resume", "wait", "abandon"}

-----------------------------------------------------------------------------
(* The running command.  `arg` carries a purpose or a terminal state, and  *)
(* `answer` what the merchant said, to the step that needs it.             *)

Idle == [at |-> "idle", o |-> "none", mode |-> "resume", arg |-> "none",
         answer |-> NoAnswer]
Running(step, o) == proc.at = step /\ proc.o = o
Begin(o, mode, step, arg) ==
  /\ proc = Idle
  /\ proc' = [at |-> step, o |-> o, mode |-> mode, arg |-> arg,
               answer |-> NoAnswer]
GotoWith(step, arg) ==
  proc' = [proc EXCEPT !.at = step, !.arg = arg, !.answer = NoAnswer]
Goto(step) == GotoWith(step, "none")

(* LEGAL_NEXT: the seal of every record checks its last transition.        *)
LegalNext ==
  [awaiting_approval |-> {"authorization_material_pending",
     "failed_before_effect", "abandoned_unknown"},
   authorization_material_pending |-> {"authorization_material_pending",
     "authorized_not_sent", "failed_before_effect", "failed_expired_unused",
     "abandoned_unknown"},
   authorized_not_sent |-> {"authorized_not_sent", "paid_request_pending",
     "effect_unknown", "failed_before_effect", "failed_expired_unused",
     "abandoned_unknown"},
   paid_request_pending |-> {"settlement_pending", "effect_unknown",
     "recovering", "completed"},
   settlement_pending |-> {"settlement_pending", "effect_unknown",
     "recovering", "completed", "failed_expired_unused",
     "failed_settled_without_result", "abandoned_unknown"},
   effect_unknown |-> {"effect_unknown", "settlement_pending",
     "paid_request_pending", "recovering", "completed",
     "failed_expired_unused", "failed_settled_without_result",
     "abandoned_unknown"},
   recovering |-> {"recovering", "effect_unknown", "completed",
     "failed_settled_without_result", "abandoned_unknown"}]
Legal(from, to) == from \in DOMAIN LegalNext /\ to \in LegalNext[from]

Record(o, s) == Legal(op[o], s) /\ op' = [op EXCEPT ![o] = s]

(* Mutant of Target: an abandoned purchase gives its amount back.          *)
Target_AbandonReleases(s) ==
  CASE s = "paid_request_pending" -> "submitted"
    [] s \in {"settlement_pending", "effect_unknown"} -> "unknown_finality"
    [] s \in {"recovering", "completed", "failed_settled_without_result"} ->
         "finalized"
    [] s = "failed_before_effect" -> "failed_before_effect"
    [] s \in {"failed_expired_unused", "abandoned_unknown"} ->
         "released_unsubmitted"
    [] OTHER -> "none"

(* TARGET: where each state leaves the hold; "none" leaves it alone.       *)
Target(s) ==
  CASE s = "paid_request_pending" -> "submitted"
    [] s \in {"settlement_pending", "effect_unknown"} -> "unknown_finality"
    [] s \in {"recovering", "completed", "failed_settled_without_result",
              "abandoned_unknown"} -> "finalized"
    [] s = "failed_before_effect" -> "failed_before_effect"
    [] s = "failed_expired_unused" -> "released_unsubmitted"
    [] OTHER -> "none"

Rank(r) == CASE r = "reserved" -> 0 [] r = "submitted" -> 1
             [] r = "unknown_finality" -> 2 [] OTHER -> 3

(* A hold only moves forward; without a hold there is nothing to move.     *)
Lags(o) == /\ row[o] # "none" /\ Target(op[o]) # "none"
           /\ Rank(row[o]) < Rank(Target(op[o]))

(* The ledger takes released_unsubmitted only from reserved or             *)
(* unknown_finality: a submitted hold is brought there in two transitions. *)
TransitionTo(from, to) ==
  IF from = "submitted" /\ to = "released_unsubmitted"
    THEN "unknown_finality" ELSE to

(* X402Usage.follow, one transition of the ledger a step.                  *)
Follow(o) ==
  LET next == TransitionTo(row[o], Target(op[o]))
  IN /\ Running("follow", o)
     /\ row' = [row EXCEPT ![o] = IF Lags(o) THEN next ELSE @]
     /\ IF Lags(o) /\ next # Target(op[o]) THEN UNCHANGED proc
                                           ELSE proc' = Idle
     /\ UNCHANGED <<op, asked, evidence, receipt, buyer, stops, world>>

(* The process dies, or the next call throws out of the command.           *)
Stop ==
  /\ proc # Idle /\ stops < MaxStops
  /\ proc' = Idle /\ stops' = stops + 1
  /\ UNCHANGED <<disk, buyer, world>>

Step(o, step) == Goto(step) /\ UNCHANGED <<disk, buyer, stops, world>>
Terminate(o, s) ==
  GotoWith("receipt", s) /\ UNCHANGED <<disk, buyer, stops, world>>

-----------------------------------------------------------------------------
(* Terminal commit: the receipt file, then the operation, then the hold.   *)

(* commitTerminal: an orphan receipt that says otherwise is corrupt.       *)
WriteReceipt(o) ==
  /\ Running("receipt", o)
  /\ IF receipt[o] \in {"none", proc.arg}
     THEN receipt' = [receipt EXCEPT ![o] = proc.arg] /\ Goto("close")
     ELSE proc' = Idle /\ UNCHANGED receipt
  /\ UNCHANGED <<op, asked, evidence, row, buyer, stops, world>>

(* commitTerminalOperation.  Only resume, approve and an abandonment that  *)
(* the owner acknowledged go on to the hold.                               *)
Close(o) ==
  /\ Running("close", o)
  /\ Record(o, receipt[o])
  /\ IF proc.mode = "abandon" /\ receipt[o] # "abandoned_unknown"
     THEN proc' = Idle ELSE Goto("follow")
  /\ UNCHANGED <<asked, evidence, receipt, row, buyer, stops, world>>

-----------------------------------------------------------------------------
(* Prepare and approve.                                                    *)

Prepare(o) ==
  /\ op[o] = "none"
  /\ op' = [op EXCEPT ![o] = "awaiting_approval"]
  /\ UNCHANGED <<asked, evidence, receipt, row, buyer, proc, stops, world>>

(* Nothing was signed before approval.                                     *)
ApproveExpired(o) ==
  /\ op[o] = "awaiting_approval" /\ o \in expired
  /\ Begin(o, "approve", "receipt", "failed_before_effect")
  /\ UNCHANGED <<disk, buyer, stops, world>>

(* Mutant of ApproveReserves: the approval does not hold the amount.       *)
ApproveReserves_NoHold(o) ==
  /\ op[o] = "awaiting_approval" /\ o \notin expired
  /\ Begin(o, "approve", "pend", "none")
  /\ UNCHANGED <<disk, buyer, stops, world>>

(* reserve: the ledger sees the amount before anything is signed; a hold   *)
(* an interrupted approval left is replayed.                               *)
ApproveReserves(o) ==
  /\ op[o] = "awaiting_approval" /\ o \notin expired
  /\ Begin(o, "approve", "pend", "none")
  /\ row' = [row EXCEPT ![o] = "reserved"]
  /\ UNCHANGED <<op, asked, evidence, receipt, buyer, stops, world>>

Pend(o) ==
  /\ Running("pend", o)
  /\ Record(o, "authorization_material_pending")
  /\ asked' = [asked EXCEPT ![o] = 1]
  /\ Goto("create")
  /\ UNCHANGED <<evidence, receipt, row, buyer, stops, world>>

-----------------------------------------------------------------------------
(* completeAuthorization, from approve and from resume.                    *)

Authorizing(o) == proc.o = o /\ proc.at \in {"create", "get"}

(* The signer answers with verified material.                              *)
Authorized(o) ==
  /\ Authorizing(o) /\ o \notin expired
  /\ Record(o, "authorized_not_sent")
  /\ asked' = [asked EXCEPT ![o] = 0]
  /\ Goto("follow")
  /\ UNCHANGED <<evidence, receipt, row, buyer, stops, world>>

(* The wallet is locked or busy, or the provider has not decided.          *)
AuthorizeLater(o) ==
  Authorizing(o) /\ o \notin expired /\ Step(o, "follow")

(* The wallet never saw the first request: the next resume may create.     *)
AuthorizeNotFound(o) ==
  /\ Running("get", o) /\ o \notin expired /\ buyer[o].signer = "local"
  /\ Record(o, "authorization_material_pending")
  /\ asked' = [asked EXCEPT ![o] = 2]
  /\ Goto("follow")
  /\ UNCHANGED <<evidence, receipt, row, buyer, stops, world>>

(* A provider rejects, answers something else, or the window is over.      *)
AuthorizeRefused(o) ==
  /\ Authorizing(o) /\ buyer[o].signer = "provider"
  /\ Terminate(o, "failed_before_effect")

(* Mutant of ProvablyUnused: the local clock is past validBefore.          *)
ProvablyUnused_Clock(o) == o \in expired /\ settled[o] = "no"

(* readX402UnusedExpiryEvidence: a finalized block at or after validBefore *)
(* still reads the authorization as unused.                                *)
ProvablyUnused(o) == o \in late /\ settled[o] = "no"

(* Mutant of AuthorizeExpired: an expired signature only waits.            *)
AuthorizeExpired_Waits(o) ==
  /\ Authorizing(o) /\ o \in expired /\ buyer[o].signer = "local"
  /\ Step(o, "follow")

(* closeExpiredUnexposed of a local signature that may exist in custody.   *)
AuthorizeExpired(o) ==
  /\ Authorizing(o) /\ o \in expired /\ buyer[o].signer = "local"
  /\ \/ Step(o, IF proof[o] = "none" THEN "follow" ELSE "finish_end")
     \/ /\ proof[o] = "none" /\ ProvablyUnused(o)
        /\ Record(o, op[o])
        /\ proof' = [proof EXCEPT ![o] = "unused"]
        /\ Goto("finish_end")
        /\ UNCHANGED <<asked, attempts, hint, result, receipt, row, buyer,
                       stops, world>>

-----------------------------------------------------------------------------
(* Resume, and the read-only wait.                                         *)

Last(o) == attempts[o][Len(attempts[o])]
Marked(o) == attempts[o] # <<>> /\ Last(o).phase = "pending"
Tries(o, purpose) ==
  {k \in DOMAIN attempts[o] : attempts[o][k].purpose = purpose}
Tried(o, purpose) == Tries(o, purpose) # {}

(* finishPaidAttempt: the pending marker gets its outcome.                 *)
Outcome(o, phase) ==
  attempts' = [attempts EXCEPT ![o][Len(attempts[o])].phase = phase]

(* recoverOrphanReceipt: a receipt without its terminal record decides.    *)
ResumeReceipt(o) ==
  /\ op[o] \in Pending /\ receipt[o] # "none"
  /\ \E mode \in {"resume", "abandon"} : Begin(o, mode, "close", "none")
  /\ UNCHANGED <<disk, buyer, stops, world>>

ResumeAuthorization(o) ==
  /\ op[o] = "authorization_material_pending" /\ receipt[o] = "none"
  /\ Begin(o, "resume", IF asked[o] = 1 THEN "get" ELSE "create", "none")
  /\ UNCHANGED <<disk, buyer, stops, world>>

AfterApproval(o) == op[o] \in Pending \ {"awaiting_approval",
                                         "authorization_material_pending"}

(* markInterruptedPaidAttempt: the attempt may have been served.           *)
ResumeMarked(o) ==
  /\ AfterApproval(o) /\ receipt[o] = "none" /\ Marked(o)
  /\ Begin(o, "resume", "orphan", "none")
  /\ Record(o, IF op[o] = "recovering" THEN op[o] ELSE "effect_unknown")
  /\ Outcome(o, "ambiguous")
  /\ UNCHANGED <<asked, hint, proof, result, receipt, row, buyer, stops,
                 world>>

(* Mutant of ResumeRead: an orphan receipt is not looked for.              *)
ResumeRead_Blind(o) ==
  /\ AfterApproval(o) /\ ~Marked(o)
  /\ Begin(o, "resume", "orphan", "none")
  /\ UNCHANGED <<disk, buyer, stops, world>>

ResumeRead(o) ==
  /\ AfterApproval(o) /\ receipt[o] = "none" /\ ~Marked(o)
  /\ Begin(o, "resume", "orphan", "none")
  /\ UNCHANGED <<disk, buyer, stops, world>>

(* reconcileOnly of a wait: another command may have left a marker since   *)
(* the wait's own resume.                                                  *)
Wait(o) ==
  /\ AfterApproval(o) /\ Tried(o, "payment")
  /\ Begin(o, "wait", IF receipt[o] = "none" THEN "orphan" ELSE "close", "none")
  /\ UNCHANGED <<disk, buyer, stops, world>>

(* recoverOrphanResult: a body without its link is linked.                 *)
RecoverOrphan(o) ==
  /\ Running("orphan", o)
  /\ IF result[o] = "file"
     THEN /\ Record(o, op[o])
          /\ result' = [result EXCEPT ![o] = "linked"]
     ELSE UNCHANGED <<op, result>>
  /\ Goto("finish")
  /\ UNCHANGED <<asked, attempts, hint, proof, receipt, row, buyer, stops,
                 world>>

(* finishReconciledEvidence: where its evidence takes an operation.        *)
Finished(o) ==
  IF proof[o] = "none" THEN op[o]
  ELSE IF proof[o] = "unused" THEN "failed_expired_unused"
  ELSE IF result[o] = "linked" THEN "completed"
  ELSE IF buyer[o].identifier /\ ~Tried(o, "result_recovery") THEN "recovering"
  ELSE IF buyer[o].identifier /\ Marked(o) THEN op[o]
  ELSE "failed_settled_without_result"

AfterFinish == [finish |-> "read", finish_read |-> "act",
                finish_unused |-> "act_unused", finish_end |-> "follow"]

Finish(o) ==
  /\ proc.o = o /\ proc.at \in DOMAIN AfterFinish
  /\ IF Finished(o) \in Terminal
     THEN GotoWith("receipt", Finished(o)) /\ UNCHANGED op
     ELSE /\ IF Finished(o) = op[o] THEN UNCHANGED op
             ELSE Record(o, Finished(o))
          /\ Goto(AfterFinish[proc.at])
  /\ UNCHANGED <<asked, evidence, receipt, row, buyer, stops, world>>

(* The nonce state at the proof block, persisted as evidence.  A record    *)
(* that may not take it (a wait over a pending marker) throws.             *)
Prove(o, s, p, next) ==
  /\ IF Legal(op[o], s)
     THEN /\ op' = [op EXCEPT ![o] = s]
          /\ proof' = [proof EXCEPT ![o] = p]
          /\ Goto(next)
     ELSE proc' = Idle /\ UNCHANGED <<op, proof>>
  /\ UNCHANGED <<asked, attempts, hint, result, receipt, row, buyer, stops,
                 world>>

(* Used.  A transaction is attached only if the merchant named it and a    *)
(* node has its receipt; without an attempt the outcome turns unknown.     *)
ReadUsed(o) ==
  /\ Running("read", o) /\ proof[o] = "none"
  /\ settled[o] = "final"
  /\ \E p \in {"state"} \cup {q \in {"matched"} : hint[o] = "true"} :
       Prove(o, IF op[o] = "authorized_not_sent" THEN "effect_unknown"
                ELSE op[o], p, "finish_read")

(* Unused for good.                                                        *)
ReadNeverUsed(o) ==
  /\ Running("read", o) /\ proof[o] = "none"
  /\ ProvablyUnused(o)
  /\ Prove(o, op[o], "unused", "finish_unused")

(* Unused at the safe head of this node, which may be behind; or the head  *)
(* is older than the operation, or there is evidence already; or the RPC   *)
(* fails and the command ends.                                             *)
ReadNothing(o) ==
  /\ Running("read", o)
  /\ IF proof[o] = "none"
     THEN \E next \in {"finish_unused", "finish_read", "follow"} : Step(o, next)
     ELSE Step(o, "finish_read")

-----------------------------------------------------------------------------
(* The paid requests.                                                      *)

(* One resend of the same header after an ambiguous attempt.               *)
MayResend(o) ==
  /\ op[o] = "effect_unknown" /\ proc.at = "act_unused"
  /\ Len(attempts[o]) = 1
  /\ hint[o] = "none" /\ proof[o] = "none" /\ result[o] # "linked"

(* The purpose the state asks for; the payment only while this command     *)
(* read the authorization as unused.                                       *)
Due(o) ==
  IF op[o] = "authorized_not_sent" /\ proc.at = "act_unused" THEN "payment"
  ELSE IF op[o] = "recovering" /\ ~Tried(o, "result_recovery") THEN "result_recovery"
  ELSE IF MayResend(o) THEN "payment"
  ELSE "none"

(* The sealed material may not be readable now.                            *)
Act(o) ==
  /\ proc.o = o /\ proc.at \in {"act", "act_unused"}
  /\ IF op[o] = "recovering" /\ o \in expired /\ proc.mode = "resume"
     THEN Terminate(o, "failed_settled_without_result")
     ELSE \/ Step(o, "follow")
          \/ /\ proc.mode = "resume" /\ Due(o) # "none"
             /\ GotoWith("send", Due(o))
             /\ UNCHANGED <<disk, buyer, stops, world>>

(* Less than a second is left.                                             *)
SendTooLate(o) == Running("send", o) /\ o \in expired /\ Step(o, "follow")

(* Mutant of BeginAttempt: the request leaves before its marker.           *)
BeginAttempt_Unmarked(o) ==
  /\ Running("send", o) /\ o \notin expired
  /\ GotoWith("http", "none")
  /\ UNCHANGED <<disk, buyer, stops, world>>

(* beginPaidAttempt.                                                       *)
BeginAttempt(o) ==
  /\ Running("send", o) /\ o \notin expired
  /\ attempts' = [attempts EXCEPT ![o] =
       Append(@, [purpose |-> proc.arg, phase |-> "pending"])]
  /\ Record(o, IF proc.arg = "payment" THEN "paid_request_pending"
               ELSE "recovering")
  /\ GotoWith("http", "none")
  /\ UNCHANGED <<asked, hint, proof, result, receipt, row, buyer, stops, world>>

(* The request may arrive whatever comes back.                             *)
Http(o) ==
  /\ Running("http", o)
  /\ exposed' \in {exposed, exposed \cup {o}}
  /\ \E a \in IF o \in exposed' THEN Answers ELSE {NoAnswer} :
       proc' = [proc EXCEPT !.at = "answered", !.answer = a]
  /\ UNCHANGED <<disk, buyer, stops, leaked, settled, late, expired>>

Paying(o) == Last(o).purpose = "payment"
Answered(o, names) ==
  Running("answered", o) /\ Marked(o) /\ proc.answer.names \in names
AfterPaying(s, o) == IF Paying(o) THEN s ELSE "recovering"

(* The attempt's outcome, and what a recovery that brought nothing means:  *)
(* it runs only on a settled payment, so the purchase ends.                *)
Observed(o, phase, s) ==
  /\ Record(o, s)
  /\ Outcome(o, phase)
  /\ IF Paying(o) THEN Goto("follow")
     ELSE GotoWith("receipt", "failed_settled_without_result")
  /\ UNCHANGED <<asked, hint, proof, result, receipt, row, buyer, stops, world>>

AnsweredNothing(o) ==
  Answered(o, {"nothing"})
    /\ Observed(o, "ambiguous", AfterPaying("effect_unknown", o))

(* Without a PAYMENT-RESPONSE a body is still the purchase.                *)
AnsweredNoHeader(o) ==
  /\ Answered(o, {"no_header"})
  /\ IF proc.answer.body /\ hint[o] = "none"
     THEN /\ Record(o, AfterPaying("effect_unknown", o))
          /\ Outcome(o, "observed")
          /\ Goto("keep")
          /\ UNCHANGED <<asked, hint, proof, result, receipt, row, buyer,
                         stops, world>>
     ELSE Observed(o, "observed", AfterPaying("effect_unknown", o))

(* Another transaction than the one named, or proved, before.              *)
Conflicts(o) ==
  \/ hint[o] # "none" /\ hint[o] # proc.answer.names
  \/ ~Paying(o) /\ proof[o] = "matched" /\ proc.answer.names # "true"

AnsweredConflict(o) ==
  /\ Answered(o, {"true", "false"}) /\ Conflicts(o)
  /\ Record(o, "effect_unknown")
  /\ Outcome(o, "observed")
  /\ Goto("follow")
  /\ UNCHANGED <<asked, hint, proof, result, receipt, row, buyer, stops, world>>

(* validateX402AppendOnly: an answer is frozen once written; a recovery    *)
(* may replace it only when the chain evidence names the transaction.      *)
Replaceable(o) == hint[o] = "none" \/ proof[o] = "matched"

AnsweredHeader(o) ==
  /\ Answered(o, {"true", "false"}) /\ ~Conflicts(o)
  /\ IF Replaceable(o)
     THEN /\ Record(o, AfterPaying("settlement_pending", o))
          /\ Outcome(o, "observed")
          /\ hint' = [hint EXCEPT ![o] = proc.answer.names]
          /\ CASE proc.answer.body -> Goto("keep")
               [] ~proc.answer.body /\ Paying(o) -> Goto("follow")
               [] OTHER -> GotoWith("receipt", "failed_settled_without_result")
     ELSE proc' = Idle /\ UNCHANGED <<op, attempts, hint>>
  /\ UNCHANGED <<asked, proof, result, receipt, row, buyer, stops, world>>

(* persistAndLinkResult: the file, then the link.                          *)
KeepResult(o) ==
  /\ Running("keep", o)
  /\ result' = [result EXCEPT ![o] = "file"]
  /\ Goto("link")
  /\ UNCHANGED <<op, asked, attempts, hint, proof, receipt, row, buyer, stops,
                 world>>

LinkResult(o) ==
  /\ Running("link", o)
  /\ Record(o, op[o])
  /\ result' = [result EXCEPT ![o] = "linked"]
  /\ Goto("finish_end")
  /\ UNCHANGED <<asked, attempts, hint, proof, receipt, row, buyer, stops,
                 world>>

-----------------------------------------------------------------------------
(* Abandon: only past validBefore, and never over a proof.                 *)

Abandonable(o) == /\ op[o] \in Pending /\ receipt[o] = "none"
                  /\ o \in expired

AbandonUnsigned(o) ==
  /\ Abandonable(o) /\ op[o] = "awaiting_approval"
  /\ Begin(o, "abandon", "receipt", "failed_before_effect")
  /\ UNCHANGED <<disk, buyer, stops, world>>

(* The owner acknowledges the unknown outcome.                             *)
Abandon(o) ==
  /\ Abandonable(o) /\ op[o] # "awaiting_approval" /\ proof[o] = "none"
  /\ Begin(o, "abandon", "receipt", "abandoned_unknown")
  /\ IF op[o] = "paid_request_pending"
     THEN Record(o, "effect_unknown") /\ Outcome(o, "ambiguous")
     ELSE UNCHANGED <<op, attempts>>
  /\ UNCHANGED <<asked, hint, proof, result, receipt, row, buyer, stops, world>>

AbandonAgain(o) ==
  /\ op[o] = "abandoned_unknown" /\ Lags(o)
  /\ Begin(o, "abandon", "follow", "none")
  /\ UNCHANGED <<disk, buyer, stops, world>>

-----------------------------------------------------------------------------
(* The merchant's facilitator, the chain and the clock.                    *)

(* The header is known outside APN although APN never sent it.             *)
Leak(o) ==
  /\ op[o] = "authorized_not_sent"
  /\ leaked' = leaked \cup {o}
  /\ UNCHANGED <<disk, buyer, proc, stops, exposed, settled, late, expired>>

Settlement(o, from, to) ==
  /\ settled[o] = from
  /\ settled' = [settled EXCEPT ![o] = to]
  /\ UNCHANGED <<disk, buyer, proc, stops, exposed, leaked, late, expired>>

(* transferWithAuthorization executes in a block before validBefore; until *)
(* the proof tag covers that block another may replace it.                 *)
Settle(o) == /\ o \in (exposed \cup leaked) \ late
             /\ Settlement(o, "no", "head")
Reorganise(o) == Settlement(o, "head", "no")
Finalize(o) == Settlement(o, "head", "final")

(* A block at or after validBefore is final, and all that is below it.     *)
Pass(o) ==
  /\ settled[o] # "head"
  /\ late' = late \cup {o}
  /\ UNCHANGED <<disk, buyer, proc, stops, exposed, leaked, settled, expired>>

Expire(o) ==
  /\ op[o] # "none"
  /\ expired' = expired \cup {o}
  /\ UNCHANGED <<disk, buyer, proc, stops, exposed, leaked, settled, late>>

-----------------------------------------------------------------------------
Init ==
  /\ op = [o \in Ops |-> "none"]
  /\ asked = [o \in Ops |-> 0]
  /\ attempts = [o \in Ops |-> <<>>]
  /\ hint = [o \in Ops |-> "none"]
  /\ proof = [o \in Ops |-> "none"]
  /\ result = [o \in Ops |-> "none"]
  /\ receipt = [o \in Ops |-> "none"]
  /\ row = [o \in Ops |-> "none"]
  /\ buyer \in [Ops -> [signer : Signers, identifier : BOOLEAN]]
  /\ proc = Idle
  /\ stops = 0
  /\ exposed = {} /\ leaked = {} /\ late = {} /\ expired = {}
  /\ settled = [o \in Ops |-> "no"]

Resume(o) == ResumeReceipt(o) \/ ResumeAuthorization(o) \/ ResumeMarked(o)
             \/ ResumeRead(o)
Command(o) ==
  \/ ApproveExpired(o) \/ ApproveReserves(o)
  \/ Resume(o) \/ Wait(o)
  \/ AbandonUnsigned(o) \/ Abandon(o) \/ AbandonAgain(o)
Authorization(o) ==
  \/ Pend(o) \/ Authorized(o) \/ AuthorizeLater(o) \/ AuthorizeNotFound(o)
  \/ AuthorizeRefused(o) \/ AuthorizeExpired(o)
Reconciliation(o) ==
  \/ RecoverOrphan(o) \/ Finish(o)
  \/ ReadUsed(o) \/ ReadNeverUsed(o) \/ ReadNothing(o)
Request(o) ==
  \/ Act(o) \/ SendTooLate(o) \/ BeginAttempt(o) \/ Http(o)
  \/ AnsweredNothing(o) \/ AnsweredNoHeader(o) \/ AnsweredConflict(o)
  \/ AnsweredHeader(o) \/ KeepResult(o) \/ LinkResult(o)
Ending(o) == WriteReceipt(o) \/ Close(o) \/ Follow(o)
Advance(o) == \/ Authorization(o) \/ Reconciliation(o) \/ Request(o)
              \/ Ending(o)
Chain(o) == \/ Leak(o) \/ Settle(o) \/ Reorganise(o) \/ Finalize(o)
            \/ Pass(o) \/ Expire(o)

Next == \/ \E o \in Ops : Prepare(o) \/ Command(o) \/ Advance(o) \/ Chain(o)
        \/ Stop

Spec == Init /\ [][Next]_vars

(* A read that learns what the chain has settled.                          *)
Learn(o) == \/ ReadUsed(o) \/ ReadNeverUsed(o)
            \/ AuthorizeExpired(o) /\ proof'[o] = "unused"

(* A started command goes on, resume is called again and again, a node     *)
(* now and then answers with what its proof block says, and the chain and  *)
(* the clock pass validBefore and finalize.                                *)
Fairness ==
  /\ \A o \in Ops :
       /\ WF_vars(Advance(o))
       /\ SF_vars(Resume(o))
       /\ SF_vars(Learn(o))
       /\ WF_vars(Expire(o)) /\ WF_vars(Pass(o) \/ Finalize(o))
FairSpec == Spec /\ Fairness

-----------------------------------------------------------------------------
TypeOK ==
  /\ op \in [Ops -> Pending \cup Terminal \cup {"none"}]
  /\ asked \in [Ops -> 0 .. 2]
  /\ attempts \in [Ops -> Seq(Attempts)]
  /\ hint \in [Ops -> {"none", "true", "false"}]
  /\ proof \in [Ops -> {"none", "state", "matched", "unused"}]
  /\ result \in [Ops -> {"none", "file", "linked"}]
  /\ receipt \in [Ops -> Terminal \cup {"none"}]
  /\ row \in [Ops -> {"none", "reserved", "submitted", "unknown_finality",
                     "finalized", "failed_before_effect",
                     "released_unsubmitted"}]
  /\ buyer \in [Ops -> [signer : Signers, identifier : BOOLEAN]]
  /\ proc \in [at : Steps, o : Ops \cup {"none"}, mode : Modes,
               arg : Terminal \cup {"none", "payment", "result_recovery"},
               answer : Answers]
  /\ stops \in 0 .. MaxStops
  /\ exposed \subseteq Ops /\ leaked \subseteq Ops /\ expired \subseteq Ops
  /\ settled \in [Ops -> {"no", "head", "final"}] /\ late \subseteq Ops

Paid == {o \in Ops : settled[o] # "no"}
Proven(o) == settled[o] = "final"

(* An outcome the purchase ends with is what the chain and the merchant    *)
(* did: completed means paid for good and the body kept, expired unused    *)
(* means it can never be paid, failed before effect that no header ever    *)
(* left, and an abandonment never replaces a proof (commitTerminal from    *)
(* every lane that reaches it).  A body the merchant delivered and APN     *)
(* wrote to disk is never dropped for an outcome that says there is none.  *)
OutcomeIsProven ==
  \A o \in Ops :
    /\ op[o] = "completed" => Proven(o) /\ result[o] = "linked"
    /\ op[o] = "failed_settled_without_result" => Proven(o) /\ result[o] = "none"
    /\ op[o] = "failed_expired_unused" => ProvablyUnused(o)
    /\ op[o] = "abandoned_unknown" => proof[o] = "none"
    /\ op[o] = "failed_before_effect" => o \notin exposed \cup leaked

(* No header is at the merchant without its marker in the record and its   *)
(* amount in the ledger, and no purchase is paid for more often than once  *)
(* and one resend (beginPaidAttempt before the request, reserve before the *)
(* signature).                                                             *)
SentIsMarkedAndHeld ==
  \A o \in exposed :
    /\ attempts[o] # <<>> /\ row[o] # "none"
    /\ Cardinality(Tries(o, "payment")) <= 2
    /\ Cardinality(Tries(o, "result_recovery")) <= 1

(* A receipt that was written is what the operation ends as: no command    *)
(* that finds it orphaned takes the operation elsewhere, or writes another *)
(* (recoverOrphanReceipt first in every lane; approve does not look).      *)
ReceiptStands ==
  [][\A o \in Ops : receipt[o] # "none" =>
       receipt'[o] = receipt[o] /\ op'[o] \in {op[o], receipt[o]}]_vars

(* Once approved, a purchase that is resumed again and again ends.         *)
PurchaseEnds ==
  \A o \in Ops : op[o] = "authorization_material_pending" ~> op[o] \in Terminal

(* What the shared ledger is promised.  An abandoned purchase is charged   *)
(* without a proof, on the owner's word: it counts as still held.          *)
Hold == [o \in Ops |->
  CASE row[o] = "none" -> "none"
    [] row[o] \in {"failed_before_effect", "released_unsubmitted"} -> "given_back"
    [] row[o] = "finalized" /\ op[o] # "abandoned_unknown" -> "charged"
    [] OTHER -> "held"]
Promise == INSTANCE HeldPayment WITH hold <- Hold, paid <- Paid
KeepsPromise == Promise!Spec

(* The ledger takes every write that follow makes of a hold, and the hold  *)
(* of a purchase that is over says its outcome or can still be brought     *)
(* there: no other end was written to it (X402Usage.follow, which gives up *)
(* in silence where it finds one).                                         *)
Ledger == INSTANCE LedgerRows
LedgerTakesEveryWrite == Ledger!Spec
HoldCanEndAsRecorded ==
  \A o \in Ops : op[o] \in Terminal =>
    \/ row[o] = Target(op[o]) \/ Lags(o)
    \/ row[o] = "none" /\ op[o] = "failed_before_effect"

(* A purchase that is over leaves a hold behind its record only where a     *)
(* command was cut short, or is about to move it: every way through        *)
(* approve, resume, wait and abandon ends with the hold where the record   *)
(* has it (commitTerminal and followUsage of the several lanes).           *)
OnlyStopsLeaveHolds ==
  \A o \in Ops : op[o] \in Terminal /\ Lags(o) => Running("follow", o) \/ stops > 0

=============================================================================
