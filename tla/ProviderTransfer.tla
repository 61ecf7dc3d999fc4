--------------------------- MODULE ProviderTransfer ---------------------------
(***************************************************************************)
(* USDC transfers that a wallet provider sends: prepare, approve, resume,  *)
(* recover-provider-request and abandon (provider-direct-transfer.ts,      *)
(* provider-direct-state.ts, provider-direct-request-recovery.ts), over    *)
(* three lanes.                                                            *)
(*   awal       the Coinbase CLI: one child process per send, no request   *)
(*              to ask about afterwards (awal-direct-adapter.ts)           *)
(*   guard      the MetaMask server wallet: a request that may wait for    *)
(*              its owner and can be watched (metamask-direct-adapter.ts)  *)
(*   delegated  the Smart Account session key: APN signs once, seals the   *)
(*              bytes and sends them itself (metamask-smart-account-       *)
(*              direct.ts and its effect store)                            *)
(*                                                                         *)
(* All transfers are of one profile and provider account, to one recipient *)
(* and for one amount, so that one transaction would satisfy any of them.  *)
(* A command holds the profile's lock: run[p] is the next step of the one  *)
(* command at work on p.  Between any two steps the process may stop, and  *)
(* the provider, the chain and the owner act on their own.                 *)
(***************************************************************************)
EXTENDS Integers, FiniteSets

CONSTANTS
  Ops,        \* transfers; one's request and transaction bear its name
  LanesOf,    \* LanesOf[p]: lanes p may be prepared on
  MaxStops,   \* bound: commands that stop half way
  MaxReorgs,  \* bound: blocks replaced after a transaction was in them
  None        \* no transfer

Lanes == {"awal", "guard", "delegated"}
ASSUME LanesAssumption == LanesOf \in [Ops -> SUBSET Lanes]
ASSUME BoundsAssumption == MaxStops \in Nat /\ MaxReorgs \in Nat
ASSUME NoneAssumption == None \notin Ops

VARIABLES
  rec,      \* rec[p]: the durable operation record
  receipt,  \* receipt[p]: the receipt file, and the record it was made from
  effect,   \* effect[p]: the sealed Smart Account effect
  run,      \* run[p]: the command at work on p
  sends,    \* sends[p]: children, requests or transactions made for p
  sent,     \* sent[p]: what became of p's request or transaction
  late,     \* transfers whose approval window has passed
  stops, reorgs

disk == <<rec, receipt, effect>>
world == <<sent, late, reorgs>>
vars == <<disk, run, sends, world, stops>>

Terminal == {"completed", "failed_before_effect", "failed_provider_rejected",
             "failed_confirmed_revert", "abandoned_unknown"}
Open == {"awaiting_approval", "started", "provider_pending",
         "provider_acknowledged", "evidence_pending", "ambiguous_effect"}
(* hash and token: whose transaction and whose request the record names.   *)
(* lost: the reason is one of RECOVERABLE_REASONS.                         *)
Records == [state : {"none"} \cup Terminal \cup Open, lane : Lanes \cup {"none"},
            hash : Ops \cup {None}, token : Ops \cup {None}, lost : BOOLEAN]
Phases == {"none", "sealed", "submission_pending", "submission_ambiguous",
           "submitted"}
Steps == {"idle", "execute", "answer", "submit", "broadcast", "answered",
          "inspect", "consent", "record", "receipt", "close"}

Accounts == {"bound", "other"}
NotSent == [stage |-> "none", mined |-> "no", ever |-> {}, from |-> "bound"]

NoRecord == [state |-> "none", lane |-> "none", hash |-> None,
             token |-> None, lost |-> FALSE]

Idle == [at |-> "idle", then |-> "idle", by |-> "execute",
         answer |-> "none", to |-> NoRecord]
At(p, step) == run[p].at = step
Goto(p, step) == run' = [run EXCEPT ![p].at = step]
Begin(p, step, then, by) ==
  /\ run[p] = Idle
  /\ run' = [run EXCEPT ![p] = [Idle EXCEPT !.at = step, !.then = then,
                                           !.by = by]]

With(p, state) == [rec[p] EXCEPT !.state = state, !.lost = FALSE]

(* Mutant of TransitionTo: the record is written first in every case.      *)
TransitionTo_RecordFirst(p, next, then) ==
  run' = [run EXCEPT ![p] = [Idle EXCEPT !.at = "record", !.to = next,
                                         !.then = then]]

(* transition: a terminal record's receipt is written before the record,   *)
(* any other record before its receipt.                                    *)
TransitionTo(p, next, then) ==
  run' = [run EXCEPT ![p] = [Idle EXCEPT
            !.at = IF next.state \in Terminal THEN "receipt" ELSE "record",
            !.to = next, !.then = then]]
Transition(p, state, then) == TransitionTo(p, With(p, state), then)

(* The receipt file of a record that is not terminal says nothing more     *)
(* than the record.                                                        *)
NoReceipt == [of |-> NoRecord, over |-> NoRecord]

(* persist, its two orders of two writes.                                  *)
WriteReceipt(p) ==
  /\ At(p, "receipt")
  /\ IF run[p].to.state \in Terminal
     THEN /\ receipt' = [receipt EXCEPT ![p] = [of |-> run[p].to,
                                                 over |-> rec[p]]]
          /\ Goto(p, "close")
     ELSE /\ receipt' = [receipt EXCEPT ![p] = NoReceipt]
          /\ run' = [run EXCEPT ![p] = [Idle EXCEPT !.at = run[p].then]]
  /\ UNCHANGED <<rec, effect, sends, world, stops>>
WriteRecord(p) ==
  /\ run[p].at \in {"record", "close"}
  /\ rec' = [rec EXCEPT ![p] = run[p].to]
  /\ IF At(p, "close") THEN run' = [run EXCEPT ![p] = Idle]
     ELSE Goto(p, "receipt")
  /\ UNCHANGED <<receipt, effect, sends, world, stops>>

(* recoverProviderTerminalOperation: a terminal receipt without its record *)
(* becomes the record, if it was made from the record that is there; if    *)
(* not, every command that looks at it refuses the state as corrupt.       *)
Orphan(p) == receipt[p].of.state \in Terminal /\ receipt[p].of # rec[p]
Corrupt(p) == Orphan(p) /\ receipt[p].over # rec[p]
RecoverOrphanTerminal(p) ==
  /\ run[p] = Idle
  /\ Orphan(p) /\ ~Corrupt(p)
  /\ rec' = [rec EXCEPT ![p] = receipt[p].of]
  /\ UNCHANGED <<receipt, effect, run, sends, world, stops>>
(* A command finds the record as it is, with no orphan receipt over it.    *)
Found(p) == run[p] = Idle /\ ~Orphan(p)

-----------------------------------------------------------------------------
(* Prepare and approve.                                                    *)

(* Mutant of AccountAvailable: only a transfer that was just started counts. *)
AccountAvailable_Started(p) == \A q \in Ops \ {p} : rec[q].state # "started"

(* The account's claim admits a transfer when no other one is open.        *)
AccountAvailable(p) == \A q \in Ops \ {p} : rec[q].state \notin Open
Prepare(p, lane) ==
  /\ run[p] = Idle /\ rec[p].state = "none" /\ AccountAvailable(p)
  /\ \A q \in Ops \ {p} : run[q] = Idle
  /\ TransitionTo(p, [state |-> "awaiting_approval", lane |-> lane,
                      hash |-> None, token |-> None, lost |-> FALSE], "idle")
  /\ UNCHANGED <<disk, sends, world, stops>>

(* The window, the profile, the policy, the amount's encoding, the         *)
(* delegated preflight or the sender changed: nothing was started.  A      *)
(* request that was refused by the owner leaves the record as it is.       *)
ApproveRefused(p) ==
  /\ Found(p) /\ rec[p].state = "awaiting_approval"
  /\ Transition(p, "failed_before_effect", "idle")
  /\ UNCHANGED <<disk, sends, world, stops>>
Approve(p) ==
  /\ Found(p) /\ rec[p].state = "awaiting_approval"
  /\ p \notin late /\ AccountAvailable(p)
  /\ Transition(p, "started", "execute")
  /\ UNCHANGED <<disk, sends, world, stops>>

(* execute of the provider's lanes: no child and no request were made; or  *)
(* a child runs and the provider takes the send from whatever account its  *)
(* session has selected by now (reobserveProvider looked earlier); or a    *)
(* child ran and the provider never saw it.                                *)
Executing(p) == At(p, "execute") /\ rec[p].lane # "delegated"
ExecuteNotStarted(p) ==
  /\ Executing(p)
  /\ Transition(p, "failed_before_effect", "idle")
  /\ UNCHANGED <<disk, sends, world, stops>>
ExecuteSends(p, account) ==
  /\ Executing(p)
  /\ sends' = [sends EXCEPT ![p] = @ + 1]
  /\ sent' = [sent EXCEPT ![p] = [NotSent EXCEPT !.stage = "waiting",
                                                 !.from = account]]
  /\ Goto(p, "answer")
  /\ UNCHANGED <<disk, late, reorgs, stops>>
ExecuteLost(p) ==
  /\ Executing(p)
  /\ sends' = [sends EXCEPT ![p] = @ + 1]
  /\ Goto(p, "answer")
  /\ UNCHANGED <<disk, world, stops>>

(* applyExecutionResult and handleExecutionFailure: the child's answer.    *)
Acknowledge(p, q) == TransitionTo(p,
  [With(p, "provider_acknowledged") EXCEPT !.hash = q], "inspect")
AnswerHash(p) ==
  /\ At(p, "answer") /\ sent[p].stage = "out"
  /\ Acknowledge(p, p)
  /\ UNCHANGED <<disk, sends, world, stops>>
AnswerRejected(p) ==
  /\ At(p, "answer") /\ rec[p].lane = "guard" /\ sent[p].stage = "denied"
  /\ Transition(p, "failed_provider_rejected", "idle")
  /\ UNCHANGED <<disk, sends, world, stops>>
AnswerPending(p) ==
  /\ At(p, "answer") /\ rec[p].lane = "guard" /\ sent[p].stage = "waiting"
  /\ TransitionTo(p, [With(p, "provider_pending") EXCEPT !.token = p],
                  "idle")
  /\ UNCHANGED <<disk, sends, world, stops>>
AnswerAmbiguous(p, lost) ==
  /\ At(p, "answer")
  /\ TransitionTo(p, [With(p, "ambiguous_effect") EXCEPT !.lost = lost],
                  "idle")
  /\ UNCHANGED <<disk, sends, world, stops>>

-----------------------------------------------------------------------------
(* The delegated lane: one signed transaction, sealed, sent at most twice. *)

(* EffectStore.transition: at most two submissions are ever recorded, and  *)
(* a third is refused as a corrupt state.                                  *)
MaxSubmissions == 2
Phase(p, phase, attempts) ==
  effect' = [effect EXCEPT ![p] = [phase |-> phase, attempts |-> attempts]]

ExecutingDelegated(p) == At(p, "execute") /\ rec[p].lane = "delegated"
(* Before the effect is sealed: one of DELEGATED_PRE_EFFECT_CODES ends the *)
(* transfer, any other error leaves its outcome open.                      *)
ExecuteRefused(p) ==
  /\ ExecutingDelegated(p) /\ effect[p].phase = "none"
  /\ Transition(p, "failed_before_effect", "idle")
  /\ UNCHANGED <<disk, sends, world, stops>>
AmbiguousDelegated(p) ==
  TransitionTo(p, [With(p, "ambiguous_effect") EXCEPT !.token = p], "idle")
ExecuteThrows(p) ==
  /\ ExecutingDelegated(p) /\ effect[p].phase = "none"
  /\ TransitionTo(p, [With(p, "ambiguous_effect") EXCEPT !.token = p,
                                                         !.lost = TRUE], "idle")
  /\ UNCHANGED <<disk, sends, world, stops>>
Seal(p) ==
  /\ ExecutingDelegated(p) /\ effect[p].phase = "none"
  /\ sends' = [sends EXCEPT ![p] = @ + 1]
  /\ Phase(p, "sealed", 0)
  /\ Goto(p, "submit")
  /\ UNCHANGED <<rec, receipt, world, stops>>
(* resumeEffect: the sealed effect is sent again, never made again.        *)
ResumeEffect(p) ==
  /\ ExecutingDelegated(p)
  /\ \/ effect[p].phase = "submitted" /\ Acknowledge(p, p)
     \/ effect[p].phase \notin {"none", "submitted"} /\ Goto(p, "submit")
  /\ UNCHANGED <<disk, sends, world, stops>>

(* submit: marked, then broadcast; a node answers, or nothing is known.    *)
Submit(p) ==
  /\ At(p, "submit")
  /\ IF effect[p].attempts < MaxSubmissions
     THEN Phase(p, "submission_pending", effect[p].attempts + 1)
          /\ Goto(p, "broadcast")
     ELSE UNCHANGED effect /\ run' = [run EXCEPT ![p] = Idle]
  /\ UNCHANGED <<rec, receipt, sends, world, stops>>
Broadcasts(p) == sent' = [sent EXCEPT ![p].stage = "out"]
Broadcast(p, answer) ==
  /\ At(p, "broadcast")
  /\ Broadcasts(p) \/ (answer = "lost" /\ UNCHANGED sent)
  /\ run' = [run EXCEPT ![p] = [@ EXCEPT !.at = "answered", !.answer = answer]]
  /\ UNCHANGED <<disk, sends, late, reorgs, stops>>
(* The effect's file is written before the operation's record.  What a     *)
(* known, a wrong or no answer makes of the record depends on the caller:  *)
(* execute writes what it learned, observe only what is new.               *)
AnsweredTaken(p) ==
  /\ At(p, "answered") /\ run[p].answer = "taken"
  /\ Phase(p, "submitted", effect[p].attempts)
  /\ Acknowledge(p, p)
  /\ UNCHANGED <<rec, receipt, sends, world, stops>>
AnsweredOther(p) ==
  /\ At(p, "answered") /\ run[p].answer = "other"
  /\ Phase(p, "submission_ambiguous", effect[p].attempts)
  /\ IF rec[p].state = "ambiguous_effect" THEN run' = [run EXCEPT ![p] = Idle]
     ELSE AmbiguousDelegated(p)
  /\ UNCHANGED <<rec, receipt, sends, world, stops>>
AnsweredLost(p) ==
  /\ At(p, "answered") /\ run[p].answer = "lost"
  /\ Phase(p, "submission_ambiguous", effect[p].attempts)
  /\ IF run[p].by = "observe" THEN run' = [run EXCEPT ![p] = Idle]
     ELSE TransitionTo(p,
            [With(p, "provider_pending") EXCEPT !.token = p], "idle")
  /\ UNCHANGED <<rec, receipt, sends, world, stops>>

-----------------------------------------------------------------------------
(* Resume.                                                                 *)

(* Mutants of ResumeStarted: a start without an outcome is executed again, *)
(* or taken for one that sent nothing.                                     *)
ResumeStarted_Again(p) ==
  /\ Found(p) /\ rec[p].state = "started"
  /\ Begin(p, "execute", "idle", "execute")
  /\ UNCHANGED <<disk, sends, world, stops>>

(* A start without an outcome: the provider's lanes can never be asked     *)
(* again, the delegated one executes again over its sealed effect.         *)
ResumeStarted(p) ==
  /\ Found(p) /\ rec[p].state = "started"
  /\ IF rec[p].lane = "delegated" THEN Begin(p, "execute", "idle", "execute")
     ELSE TransitionTo(p, [With(p, "ambiguous_effect") EXCEPT !.lost = TRUE],
                       "idle")
  /\ UNCHANGED <<disk, sends, world, stops>>

(* observeProviderDirectRequest, when it says anything new.                *)
Observing(p, lane) ==
  /\ Found(p) /\ rec[p].lane = lane
  /\ rec[p].state \in {"provider_pending", "ambiguous_effect"}
  /\ rec[p].token # None /\ rec[p].hash = None
ObserveAmbiguous(p) ==
  /\ \/ Observing(p, "awal") \/ Observing(p, "guard")
     \/ Observing(p, "delegated") /\ effect[p].phase = "none"
  /\ rec[p].state = "provider_pending"
  /\ Transition(p, "ambiguous_effect", "idle")
  /\ UNCHANGED <<disk, sends, world, stops>>
ObserveRejected(p) ==
  /\ Observing(p, "guard") /\ sent[rec[p].token].stage = "denied"
  /\ Transition(p, "failed_provider_rejected", "idle")
  /\ UNCHANGED <<disk, sends, world, stops>>
ObserveHash(p) ==
  /\ Observing(p, "guard") /\ sent[rec[p].token].stage = "out"
  /\ Acknowledge(p, rec[p].token)
  /\ UNCHANGED <<disk, sends, world, stops>>

(* observe of the delegated lane: what the effect's file and the chain say *)
(* of the one signed transaction, and the next submission if neither does. *)
ObserveSubmitted(p) ==
  /\ Observing(p, "delegated") /\ effect[p].phase = "submitted"
  /\ Acknowledge(p, p)
  /\ UNCHANGED <<disk, sends, world, stops>>
Unsure(p) == effect[p].phase \in {"submission_pending",
                                  "submission_ambiguous"}
ObserveLanded(p) ==
  /\ Observing(p, "delegated") /\ Unsure(p) /\ sent[p].stage = "out"
  /\ Phase(p, "submitted", effect[p].attempts)
  /\ Acknowledge(p, p)
  /\ UNCHANGED <<rec, receipt, sends, world, stops>>
ObserveSubmits(p) ==
  /\ Observing(p, "delegated")
  /\ \/ effect[p].phase = "sealed"
     \/ Unsure(p) /\ effect[p].attempts < MaxSubmissions
  /\ Begin(p, "submit", "idle", "observe")
  /\ UNCHANGED <<disk, sends, world, stops>>
ObserveResends(p, taken) ==
  /\ Observing(p, "delegated") /\ Unsure(p)
  /\ effect[p].attempts >= MaxSubmissions
  /\ Broadcasts(p)
  /\ IF taken THEN run' = [run EXCEPT ![p] = [Idle EXCEPT !.at = "answered",
                             !.by = "observe", !.answer = "taken"]]
     ELSE UNCHANGED run
  /\ UNCHANGED <<disk, sends, late, reorgs, stops>>

(* inspectReceipt: the receipt of the transaction the record names; the    *)
(* mutant of HasExactTransfer does not compare the sender.                 *)
HasExactTransfer_AnySender(q) == sent[q].mined = "ok"
HasExactTransfer(q) == sent[q].from = "bound"
ResumeInspects(p) ==
  /\ Found(p) /\ rec[p].hash # None /\ rec[p].state \in Open
  /\ Begin(p, "inspect", "idle", "execute")
  /\ UNCHANGED <<disk, sends, world, stops>>
Continue(p) == run' = [run EXCEPT ![p] = [Idle EXCEPT !.at = run[p].then]]
InspectPending(p) ==
  /\ At(p, "inspect")
  /\ IF rec[p].state \in {"evidence_pending", "ambiguous_effect"}
     THEN Continue(p) ELSE Transition(p, "evidence_pending", run[p].then)
  /\ UNCHANGED <<disk, sends, world, stops>>
InspectAmbiguous(p) ==
  /\ At(p, "inspect")
  /\ IF rec[p].state = "ambiguous_effect" THEN Continue(p)
     ELSE Transition(p, "ambiguous_effect", run[p].then)
  /\ UNCHANGED <<disk, sends, world, stops>>
InspectReverted(p) ==
  /\ At(p, "inspect") /\ sent[rec[p].hash].mined = "reverted"
  /\ Transition(p, "failed_confirmed_revert", "idle")
  /\ UNCHANGED <<disk, sends, world, stops>>
InspectCompleted(p) ==
  /\ At(p, "inspect") /\ sent[rec[p].hash].mined = "ok"
  /\ HasExactTransfer(rec[p].hash)
  /\ Transition(p, "completed", "idle")
  /\ UNCHANGED <<disk, sends, world, stops>>

-----------------------------------------------------------------------------
(* The owner's two commands for an outcome nobody answered.                *)

(* recover-provider-request binds a request the owner knows.  It does not  *)
(* look for an orphan receipt.                                             *)
BoundElsewhere(p, q) == \E r \in Ops \ {p} : rec[r].token = q
Recover(p, q) ==
  /\ run[p] = Idle
  /\ rec[p].state = "ambiguous_effect" /\ rec[p].lost
  /\ rec[p].hash = None /\ rec[p].token = None
  /\ sent[q].stage # "none" /\ ~BoundElsewhere(p, q)
  /\ TransitionTo(p, [With(p, "provider_pending") EXCEPT !.token = q], "idle")
  /\ UNCHANGED <<disk, sends, world, stops>>

(* An outcome that has no identifier is released at once, any other one    *)
(* after its approval window and one more look at a known transaction.     *)
Identifierless(p) == /\ rec[p].state = "ambiguous_effect"
                     /\ rec[p].hash = None /\ rec[p].token = None
                     /\ rec[p].lane # "delegated"
(* Mutant of AbandonEligible: only what has an identifier can be released. *)
AbandonEligible_Identified(p) ==
  /\ rec[p].state \in Open \ {"awaiting_approval", "started"}
  /\ ~Identifierless(p) /\ p \in late

AbandonEligible(p) ==
  /\ rec[p].state \in Open \ {"awaiting_approval", "started"}
  /\ Identifierless(p) \/ p \in late
Abandon(p) ==
  /\ Found(p) /\ AbandonEligible(p)
  /\ Begin(p, IF rec[p].hash = None THEN "consent" ELSE "inspect",
           "consent", "execute")
  /\ UNCHANGED <<disk, sends, world, stops>>
AbandonConsented(p) ==
  /\ At(p, "consent")
  /\ Transition(p, "abandoned_unknown", "idle")
  /\ UNCHANGED <<disk, sends, world, stops>>

(* The process ends between two steps, or the owner refuses to consent.    *)
Stop(p) ==
  /\ run[p] # Idle /\ stops < MaxStops
  /\ stops' = stops + 1
  /\ run' = [run EXCEPT ![p] = Idle]
  /\ UNCHANGED <<disk, sends, world>>

-----------------------------------------------------------------------------
(* The provider, the chain and the clock.                                  *)

ProviderSigns(p) ==
  /\ sent[p].stage = "waiting"
  /\ sent' = [sent EXCEPT ![p].stage = "out"]
  /\ UNCHANGED <<disk, run, sends, late, reorgs, stops>>
ProviderDenies(p) ==
  /\ sent[p].stage = "waiting" /\ rec[p].lane = "guard"
  /\ sent' = [sent EXCEPT ![p].stage = "denied"]
  /\ UNCHANGED <<disk, run, sends, late, reorgs, stops>>
Lands(p, how) ==
  /\ sent[p].stage = "out" /\ sent[p].mined = "no"
  /\ sent' = [sent EXCEPT ![p] = [@ EXCEPT !.mined = how,
                                           !.ever = sent[p].ever \cup {how}]]
  /\ UNCHANGED <<disk, run, sends, late, reorgs, stops>>
Reorganise(p) ==
  /\ sent[p].mined # "no" /\ reorgs < MaxReorgs
  /\ sent' = [sent EXCEPT ![p].mined = "no"]
  /\ reorgs' = reorgs + 1
  /\ UNCHANGED <<disk, run, sends, late, stops>>
Expire(p) ==
  /\ rec[p].state \in Open /\ p \notin late
  /\ late' = late \cup {p}
  /\ UNCHANGED <<disk, run, sends, sent, reorgs, stops>>

-----------------------------------------------------------------------------
Init ==
  /\ rec = [p \in Ops |-> NoRecord]
  /\ receipt = [p \in Ops |-> NoReceipt]
  /\ effect = [p \in Ops |-> [phase |-> "none", attempts |-> 0]]
  /\ run = [p \in Ops |-> Idle]
  /\ sends = [p \in Ops |-> 0]
  /\ sent = [p \in Ops |-> NotSent]
  /\ late = {} /\ stops = 0 /\ reorgs = 0

(* The steps that a command at work takes next, whatever the world does.   *)
Work(p) ==
  \/ WriteReceipt(p) \/ WriteRecord(p)
  \/ ExecuteNotStarted(p) \/ ExecuteLost(p)
  \/ \E account \in Accounts : ExecuteSends(p, account)
  \/ AnswerHash(p) \/ AnswerRejected(p) \/ AnswerPending(p)
  \/ \E lost \in BOOLEAN : AnswerAmbiguous(p, lost)
  \/ ExecuteRefused(p) \/ ExecuteThrows(p) \/ Seal(p) \/ ResumeEffect(p)
  \/ Submit(p) \/ \E answer \in {"taken", "other", "lost"} :
                    Broadcast(p, answer)
  \/ AnsweredTaken(p) \/ AnsweredOther(p) \/ AnsweredLost(p)
  \/ InspectPending(p) \/ InspectAmbiguous(p)
  \/ InspectReverted(p) \/ InspectCompleted(p)
  \/ AbandonConsented(p)
Resume(p) ==
  \/ ResumeStarted(p) \/ ResumeInspects(p)
  \/ ObserveAmbiguous(p) \/ ObserveRejected(p) \/ ObserveHash(p)
  \/ ObserveSubmitted(p) \/ ObserveLanded(p) \/ ObserveSubmits(p)
  \/ \E taken \in BOOLEAN : ObserveResends(p, taken)
Command(p) ==
  \/ \E lane \in LanesOf[p] : Prepare(p, lane)
  \/ ApproveRefused(p) \/ Approve(p)
  \/ Resume(p) \/ RecoverOrphanTerminal(p)
  \/ \E q \in Ops : Recover(p, q)
  \/ Abandon(p)
World(p) ==
  \/ ProviderSigns(p) \/ ProviderDenies(p)
  \/ \E how \in {"ok", "reverted"} : Lands(p, how)
  \/ Reorganise(p) \/ Expire(p) \/ Stop(p)

Next == \E p \in Ops : Work(p) \/ Command(p) \/ World(p)

Spec == Init /\ [][Next]_vars

(* A command that is at work goes on, the window passes, and the owner     *)
(* keeps resuming and in the end abandons what stays unresolved.  The      *)
(* provider and the chain owe nothing.  An abandonment that a look at the  *)
(* transaction delays is tried again, hence SF.                            *)
FairSpec ==
  /\ Spec
  /\ \A p \in Ops : /\ WF_vars(Work(p)) /\ WF_vars(Expire(p))
                    /\ WF_vars(RecoverOrphanTerminal(p))
                    /\ SF_vars(ResumeStarted(p)) /\ SF_vars(Abandon(p))

-----------------------------------------------------------------------------
TypeOK ==
  /\ rec \in [Ops -> Records]
  /\ \A p \in Ops : receipt[p].of \in Records /\ receipt[p].over \in Records
  /\ effect \in [Ops -> [phase : Phases, attempts : 0 .. MaxSubmissions]]
  /\ \A p \in Ops : /\ run[p].at \in Steps /\ run[p].then \in Steps
                    /\ run[p].to \in Records
  /\ sends \in [Ops -> Nat]
  /\ \A p \in Ops : /\ sent[p].stage \in {"none", "waiting", "denied", "out"}
                    /\ sent[p].mined \in {"no", "ok", "reverted"}
  /\ late \subseteq Ops
  /\ stops \in 0 .. MaxStops /\ reorgs \in 0 .. MaxReorgs

(* One approval makes at most one child, request or signed transaction,    *)
(* whatever is stopped and resumed, and none before its start is on disk   *)
(* (the no-replay journal of provider-direct-transfer.ts).                 *)
SentOnce ==
  \A p \in Ops : /\ sends[p] <= 1
                 /\ sends[p] > 0 =>
                      rec[p].state \notin {"none", "awaiting_approval"}

(* An outcome told as proven was once in a block: the transaction moved    *)
(* exactly this amount from the bound account, or it reverted.  A receipt  *)
(* is taken without waiting for its block to be final, so a later          *)
(* replacement is not excluded.  A transfer that failed before its effect  *)
(* or was rejected has sent and will send nothing, unless the owner bound  *)
(* another transfer's request to it.                                       *)
OwnRequest(p) == rec[p].token \in {None, p}
OutcomeIsProven ==
  \A p \in Ops :
    /\ rec[p].state = "completed" =>
         /\ "ok" \in sent[rec[p].hash].ever
         /\ sent[rec[p].hash].from = "bound"
    /\ rec[p].state = "failed_confirmed_revert" =>
         "reverted" \in sent[rec[p].hash].ever
    /\ rec[p].state \in {"failed_before_effect", "failed_provider_rejected"}
       /\ OwnRequest(p) => sent[p].stage \in {"none", "denied"}

(* A terminal record always finds its own receipt, which receipt get       *)
(* demands, however the commands before it were stopped.                   *)
TerminalHasReceipt ==
  \A p \in Ops : rec[p].state \in Terminal => receipt[p].of = rec[p]

(* One provider account moves one transfer at a time: while an earlier     *)
(* one may still pay and was never in a block, only its owner's            *)
(* acknowledgement lets the next one start; and two transfers never wait   *)
(* on one provider request, be it found by recovery, which looks for a     *)
(* duplicate, or bound by execute, which does not.                         *)
MayStillPay(p) == sent[p].stage \in {"waiting", "out"} /\ sent[p].ever = {}
OneAtATime ==
  \A p, q \in Ops : p # q =>
    /\ rec[p].token # None => rec[p].token # rec[q].token
    /\ MayStillPay(p) /\ MayStillPay(q) =>
         \E r \in {p, q} : rec[r].state = "abandoned_unknown" \/ ~OwnRequest(r)
                           \/ (rec[r].hash \notin {None, r})

(* A started transfer of the provider's lanes ends, if its owner keeps     *)
(* looking and in the end acknowledges; the provider may never answer.     *)
(* A receipt that another command overtook is the exception.               *)
Started(p) == rec[p].state = "started"
Ended(p) == rec[p].state \in Terminal
ProviderTransferEnds ==
  \A p \in Ops : Started(p) /\ rec[p].lane # "delegated" ~>
                   Ended(p) \/ Corrupt(p)

=============================================================================
