--------------------------- MODULE GaslessTransfer ---------------------------
(***************************************************************************)
(* One gasless USDC transfer of a local wallet and the commands at work on *)
(* it: prepare, approve, resume, resume through another endpoint,          *)
(* approve-sealed, status and abandon (gasless/service.ts,                 *)
(* gasless/execution.ts, gasless/first-send-execution.ts,                  *)
(* gasless/observation.ts, gasless/asset-policy.ts,                        *)
(* operation-abandon-gasless.ts).                                          *)
(*                                                                         *)
(* Two effects are signed, sealed in custody and then leave APN: the       *)
(* bootstrap (the permit and the delegation), disclosed to the bundler for *)
(* an estimate, and the UserOperation, sent to it.  A command holds the    *)
(* profile's and the operation's lock from its first step to its last, so  *)
(* one command is at work at a time.  A save writes the record and then    *)
(* the ledger follows it; a stop may come between, and the next command    *)
(* begins by letting the ledger follow.                                    *)
(*                                                                         *)
(* The phase of an effect says its counters and hashes: it was attempted   *)
(* when it is not unsealed, it has its material when it is past            *)
(* signing_started.  Every check of a node, of the owner's policy or of    *)
(* the keychain may fail at any time.                                      *)
(***************************************************************************)
EXTENDS Naturals

CONSTANTS
  MaxStops,   \* bound: commands that stop half way
  MaxReorgs   \* bound: replacements of blocks that are not safe

ASSUME BoundsAssumption == MaxStops \in Nat /\ MaxReorgs \in Nat

VARIABLES
  rec,      \* the durable record
  custody,  \* effects whose signed material is sealed
  lease,    \* the reservation in the shared usage ledger
  proc,     \* the command at work
  clock,    \* open, closing (too little time left), closed (deadline over)
  out,      \* effects that have left APN
  tries,    \* how often each effect was signed and let out
  head,     \* the account at the latest block
  safe,     \* the account at the safe block
  stops, reorgs

disk == <<rec, custody, lease>>
chain == <<head, safe, reorgs>>
world == <<chain, clock, stops>>
vars == <<disk, proc, out, tries, world>>

Roles == {"bootstrap", "user_operation"}
Terminal == {"completed", "failed_before_effect", "failed_confirmed_revert",
             "failed_permissions_invalidated", "abandoned_unknown"}
Unresolved == {"unknown_finality", "submitted_pending"}
States == {"none", "awaiting_approval", "execution_pending", "bootstrap_pending",
           "user_operation_pending"} \cup Unresolved \cup Terminal
Disclosed == {"disclosure_started", "checked"}
BootstrapPhases == {"unsealed", "signing_started", "sealed"} \cup Disclosed
Proven == {"safe_success", "safe_revert"}
Submitted == {"submitting", "submitted_pending", "unknown_finality"} \cup Proven
UserPhases == {"unsealed", "signing_started", "sealed"} \cup Submitted
LeaseStates == {"none", "reserved", "submitted", "unknown_finality",
                "finalized", "failed_before_effect", "released_unsubmitted",
                "failed_confirmed_revert"}

(* observed: the record keeps a node's answer.                             *)
Record == [state : States, bootstrap : BootstrapPhases,
           user_operation : UserPhases, observed : BOOLEAN]

(* then: what follows once the ledger has; role: the effect in hand;       *)
(* fresh: it was signed by this command; late: under fresh consent.        *)
Idle == [at |-> "idle", then |-> "idle", role |-> "bootstrap",
         fresh |-> FALSE, late |-> FALSE]
Goto(step) == proc' = IF step = "idle" THEN Idle ELSE [proc EXCEPT !.at = step]
At(step) == proc.at = step

Expired == clock = "closed"
Over == rec.state \in Terminal
Undisclosed(r) == r.bootstrap \notin Disclosed /\ r.user_operation \notin Submitted

-----------------------------------------------------------------------------
(* Saving                                                                  *)

Edges == [s \in States |->
  CASE s = "awaiting_approval" -> {"execution_pending", "failed_before_effect"}
    [] s = "execution_pending" ->
         {"bootstrap_pending", "failed_before_effect", "unknown_finality"}
    [] s = "bootstrap_pending" ->
         {"user_operation_pending", "unknown_finality",
          "failed_permissions_invalidated", "failed_before_effect"}
    [] s = "user_operation_pending" ->
         {"submitted_pending", "unknown_finality", "completed",
          "failed_confirmed_revert", "failed_permissions_invalidated"}
    [] s = "submitted_pending" ->
         {"unknown_finality", "completed", "failed_confirmed_revert",
          "failed_permissions_invalidated", "abandoned_unknown"}
    [] s = "unknown_finality" ->
         {"bootstrap_pending", "user_operation_pending", "submitted_pending"}
           \cup Terminal
    [] OTHER -> {}]

PhaseEdges == [p \in BootstrapPhases \cup UserPhases |->
  CASE p = "unsealed" -> {"signing_started"}
    [] p = "signing_started" -> {"sealed"}
    [] p = "sealed" -> {"disclosure_started", "submitting"}
    [] p = "disclosure_started" -> {"checked"}
    [] p = "submitting" -> {"submitted_pending", "unknown_finality"} \cup Proven
    [] p = "submitted_pending" -> {"unknown_finality"} \cup Proven
    [] p = "unknown_finality" -> Proven
    [] OTHER -> {}]

Enters(next, role, phase) == rec[role] # phase /\ next[role] = phase

(* No marker may be dated after the deadline, but that of a first send     *)
(* under fresh consent (validateGaslessMutable).                           *)
Timely(next) == Expired =>
  /\ next.state = "execution_pending" => rec.state = "execution_pending"
  /\ \A role \in Roles : ~Enters(next, role, "signing_started")
  /\ ~Enters(next, "bootstrap", "disclosure_started")
  /\ Enters(next, "user_operation", "submitting") => proc.late

(* What validateTransition and validateGaslessMutable admit.               *)
Valid(next) ==
  /\ ~Over
  /\ next.state = rec.state \/ next.state \in Edges[rec.state]
  /\ \A role \in Roles :
       next[role] = rec[role] \/ next[role] \in PhaseEdges[rec[role]]
  /\ next.state = "failed_before_effect" => Undisclosed(next) /\ ~next.observed
  /\ next.state = "unknown_finality" => next.bootstrap # "unsealed"
  /\ next.state = "abandoned_unknown" => next.bootstrap \in Disclosed
  /\ Timely(next)

(* A save: the record now, the ledger next.  A save the validator refuses  *)
(* ends the command and changes nothing.                                   *)
Save(next, then) ==
  /\ IF Valid(next)
       THEN rec' = next /\ proc' = [proc EXCEPT !.at = "follow", !.then = then]
       ELSE rec' = rec /\ Goto("idle")
  /\ UNCHANGED <<custody, lease, out, tries, world>>
To(state) == [rec EXCEPT !.state = state]

(* unknown, halt                                                           *)
Unknown == To(IF Undisclosed(rec) THEN "failed_before_effect" ELSE "unknown_finality")
Halt == IF rec.bootstrap = "unsealed" THEN Save(To("failed_before_effect"), "idle")
                                      ELSE Save(Unknown, "idle")

-----------------------------------------------------------------------------
(* The ledger follows                                                      *)

(* Mutant of Target: an abandoned transfer gives its hold back.            *)
Target_AbandonReleases(r) ==
  IF r.state \in {"failed_before_effect", "failed_confirmed_revert"} THEN r.state
  ELSE IF \/ r.state = "abandoned_unknown"
          \/ /\ r.state = "failed_permissions_invalidated"
             /\ r.user_operation \notin Submitted
    THEN "released_unsubmitted"
  ELSE IF r.state = "completed" THEN "finalized"
  ELSE IF /\ r.state = "unknown_finality"
          /\ r.user_operation \in Submitted \/ r.bootstrap \in Disclosed
    THEN "unknown_finality"
  ELSE IF r.user_operation \in Submitted THEN "submitted"
  ELSE "none"

(* What the ledger should say of a record, "none" where it says enough.    *)
Target(r) ==
  IF r.state \in {"failed_before_effect", "failed_confirmed_revert"} THEN r.state
  ELSE IF /\ r.state = "failed_permissions_invalidated"
          /\ r.user_operation \notin Submitted
    THEN "released_unsubmitted"
  ELSE IF r.state = "completed" THEN "finalized"
  ELSE IF /\ r.state \in {"unknown_finality", "abandoned_unknown"}
          /\ r.user_operation \in Submitted \/ r.bootstrap \in Disclosed
    THEN "unknown_finality"
  ELSE IF r.user_operation \in Submitted THEN "submitted"
  ELSE "none"

(* assertTransition of the ledger (AssetUsageLedger).                      *)
CanMove(from, to) ==
  CASE from = "reserved" -> to # "failed_confirmed_revert"
    [] from = "submitted" ->
         to \in {"unknown_finality", "finalized", "failed_confirmed_revert"}
    [] from = "unknown_finality" ->
         to \in {"finalized", "failed_confirmed_revert", "released_unsubmitted"}
    [] OTHER -> FALSE

(* reconcile refuses a pair of record and reservation as corrupt.          *)
Released == {"failed_before_effect", "failed_confirmed_revert", "released_unsubmitted"}
Followable ==
  CASE lease = "none" -> \A role \in Roles : rec[role] = "unsealed"
    [] lease \in Released \cup {"finalized"} -> Target(rec) = lease
    [] OTHER ->
         /\ lease = "submitted" => rec.user_operation \in Submitted
         /\ lease = "unknown_finality" => ~Undisclosed(rec)
         /\ Target(rec) = "failed_before_effect" => lease = "reserved"
         /\ \/ Target(rec) \in {"none", lease}
            \/ Target(rec) = "submitted" /\ lease = "unknown_finality"
            \/ CanMove(lease, Target(rec))

Reconciled ==
  IF \/ lease = "none" \/ Target(rec) = "none"
     \/ Target(rec) = "submitted" /\ lease = "unknown_finality"
    THEN lease ELSE Target(rec)

(* save: the policy's reconcile after the write.                           *)
Follow ==
  /\ At("follow") /\ UNCHANGED <<rec, custody, out, tries, world>>
  /\ IF Followable THEN lease' = Reconciled /\ Goto(proc.then)
                   ELSE UNCHANGED lease /\ Goto("idle")

-----------------------------------------------------------------------------
(* Checks                                                                  *)

(* A disclosed transfer keeps its amount charged, and the sealed, unsent   *)
(* UserOperation may still go on that charge.                              *)
continuingSealed == /\ lease = "unknown_finality" /\ rec.state = "unknown_finality"
                    /\ rec.bootstrap = "checked" /\ rec.user_operation = "sealed"
LeaseServes == lease = "reserved" \/ continuingSealed

(* assertGaslessSnapshot: the account is as it was when prepared.          *)
Undrifted == head.nonce = "free" /\ head.permits = "live"

(* policy.assert around guardGaslessOperation, when no node fails.         *)
GuardPasses == /\ clock = "open" /\ Undrifted
               /\ rec.bootstrap # "unsealed" => LeaseServes

assertSealedFirstSend ==
  /\ rec.state = "unknown_finality"
  /\ rec.bootstrap = "checked" /\ rec.user_operation = "sealed"
LateGuardPasses == assertSealedFirstSend /\ continuingSealed /\ Undrifted

(* A check passes and the command goes on to a step.                       *)
PassTo(step) == Goto(step) /\ UNCHANGED <<disk, out, tries, world>>

-----------------------------------------------------------------------------
(* Commands                                                                *)

Prepare ==
  /\ At("idle") /\ rec.state = "none"
  /\ rec' = To("awaiting_approval")
  /\ UNCHANGED <<custody, lease, proc, out, tries, world>>

(* locked: every command begins by letting the ledger follow the record it *)
(* reads, and ends there when the two do not fit.                          *)
Kinds == {"status", "approve", "resume", "observe", "approve_sealed"}
FirstStep(kind) ==
  CASE kind = "approve" /\ rec.state = "awaiting_approval" -> "screen"
    [] kind = "resume" /\ ~Over /\ rec.state # "awaiting_approval" -> "advance"
    [] kind = "observe" /\ ~Over /\ rec.bootstrap # "unsealed" -> "observe"
    [] kind = "approve_sealed" /\ Expired /\ assertSealedFirstSend
       /\ custody = Roles -> "late_screen"
    [] OTHER -> "idle"
Begin(kind) ==
  /\ At("idle") /\ rec.state # "none" /\ Followable
  /\ lease' = Reconciled
  /\ IF FirstStep(kind) = "late_screen"
       THEN proc' = [Idle EXCEPT !.at = "late_screen", !.late = TRUE]
       ELSE Goto(FirstStep(kind))
  /\ UNCHANGED <<rec, custody, out, tries, world>>

(* approve: the checks and the mirror estimate, then the owner.            *)
Screen == At("screen") /\ (Halt \/ (GuardPasses /\ PassTo("ask")))
Answer ==
  /\ At("ask")
  /\ \/ Save(To("failed_before_effect"), "idle")
     \/ clock = "open" /\ Save(To("execution_pending"), "material")
     \/ clock # "open" /\ Halt

(* advance, for a record a stopped command left.                           *)
Advance ==
  /\ At("advance")
  /\ \/ rec.user_operation \in Submitted /\ PassTo("observe")
     \/ Undisclosed(rec) /\ Expired /\ Save(To("failed_before_effect"), "idle")
     \/ /\ rec.bootstrap = "disclosure_started" /\ Save(Unknown, "observe")
     \/ /\ rec.bootstrap = "checked" /\ Expired
        /\ \/ rec.user_operation = "unsealed" /\ Save(Unknown, "observe")
           \/ rec.user_operation = "sealed" /\ PassTo("observe")
           \/ rec.user_operation = "signing_started" /\ PassTo("material")
     \/ /\ rec.user_operation \notin Submitted /\ ~Expired
        /\ rec.bootstrap # "disclosure_started"
        /\ IF rec.bootstrap = "unsealed"
             THEN Halt \/ (GuardPasses /\ PassTo("material"))
             ELSE PassTo("material")

(* material: a first signature is checked, held and marked before the key  *)
(* is asked; a signature that may exist is only ever loaded.               *)
Role == proc.role
Material == At("material") /\ rec[Role] # "unsealed" /\ PassTo("load")
Reserve ==
  /\ At("material") /\ rec[Role] = "unsealed"
  /\ \/ Halt
     \/ /\ GuardPasses /\ lease \in {"none", "reserved"}
        /\ lease' = "reserved" /\ Goto("mark")
        /\ UNCHANGED <<rec, custody, out, tries, world>>
PendingState == IF Role = "bootstrap" THEN "bootstrap_pending"
                                      ELSE "user_operation_pending"
Marked(phase) == [To(PendingState) EXCEPT ![Role] = phase]
Mark ==
  /\ At("mark")
  /\ Halt \/ Save(Marked("signing_started"), "seal")

(* custody.seal: a signature that is not saved is lost with its process.   *)
Seal ==
  /\ At("seal") /\ proc' = [proc EXCEPT !.at = "load", !.fresh = TRUE]
  /\ \/ UNCHANGED <<custody, tries>>
     \/ /\ clock = "open" /\ Role \notin custody
        /\ custody' \in {custody, custody \cup {Role}}
        /\ tries' = [tries EXCEPT ![Role] = @ + 1]
  /\ UNCHANGED <<rec, lease, out, world>>

(* Mutant of Load: a seal that is not found is made again.                 *)
Load_SignsAgain ==
  /\ At("load")
  /\ \/ Role \notin custody /\ PassTo("seal")
     \/ /\ Role \in custody
        /\ IF rec[Role] = "signing_started"
             THEN Save(Marked("sealed"), Role) ELSE PassTo(Role)

Load ==
  /\ At("load")
  /\ \/ Save(Unknown, "idle")
     \/ /\ Role \in custody
        /\ IF rec[Role] = "signing_started"
             THEN Save(Marked("sealed"), Role) ELSE PassTo(Role)

(* The bootstrap is disclosed for its estimate, once.                      *)
Disclose ==
  /\ At("bootstrap") /\ rec.bootstrap = "sealed"
  /\ \/ ~proc.fresh /\ Halt
     \/ /\ proc.fresh \/ GuardPasses
        /\ Save([To("bootstrap_pending") EXCEPT !.bootstrap = "disclosure_started"],
                "disclose")
estimate ==
  /\ At("disclose")
  /\ \/ PassTo("unestimated")
     \/ /\ clock = "open"
        /\ out' = out \cup {"bootstrap"}
        /\ tries' = [tries EXCEPT !.disclosure = @ + 1]
        /\ \/ Goto("estimated") \/ Goto("unestimated")
        /\ UNCHANGED <<disk, world>>
Estimated ==
  \/ At("unestimated") /\ Save(Unknown, "idle")
  \/ At("estimated") /\ Save([rec EXCEPT !.bootstrap = "checked"], "bootstrap")
Checked ==
  /\ At("bootstrap") /\ rec.bootstrap = "checked"
  /\ proc' = [proc EXCEPT !.at = "material", !.role = "user_operation", !.fresh = FALSE]
  /\ UNCHANGED <<disk, out, tries, world>>

(* The UserOperation is sent, once.  Behind its own signature only the     *)
(* fees and the owner's side are checked again (feeCheck).                 *)
Submitting == [To("user_operation_pending") EXCEPT !.user_operation = "submitting"]

Submit ==
  /\ At("user_operation")
  /\ \/ Halt
     \/ /\ IF proc.fresh THEN clock = "open" /\ LeaseServes ELSE GuardPasses
        /\ Save(Submitting, "send")
send ==
  /\ At("send")
  /\ \/ PassTo("unanswered")
     \/ /\ clock = "open" \/ proc.late
        /\ out' = out \cup {"user_operation"}
        /\ tries' = [tries EXCEPT !.send = @ + 1]
        /\ \/ Goto("acknowledged") \/ Goto("unanswered")
        /\ UNCHANGED <<disk, world>>
Sent ==
  \E answer \in {<<"acknowledged", "submitted_pending">>, <<"unanswered", "unknown_finality">>} :
    /\ At(answer[1])
    /\ Save([To(answer[2]) EXCEPT !.user_operation = answer[2]], "idle")

(* approve-sealed: the deadline is over, and the owner consents anew to    *)
(* the first sending of the very bytes custody holds.                      *)
LateScreen ==
  /\ At("late_screen")
  /\ PassTo("idle") \/ (LateGuardPasses /\ PassTo("late_ask"))
LateAnswer == At("late_ask") /\ (PassTo("idle") \/ Save(rec, "late_recheck"))

LateRecheck ==
  /\ At("late_recheck")
  /\ \/ Save(To("unknown_finality"), "idle")
     \/ LateGuardPasses /\ (PassTo("idle") \/ Save(Submitting, "send"))

-----------------------------------------------------------------------------
(* Observing                                                               *)

Observed(state, phase) ==
  [rec EXCEPT !.state = state, !.user_operation = phase, !.observed = TRUE]
Known(role) == rec[role] \notin {"unsealed", "signing_started"}

VoidAt(account, nonces) == account.permits = "void" /\ account.nonce \in nonces

(* Mutant of Invalidated: void permits alone close a final seal.           *)
Invalidated_AnyNonce ==
  /\ Known("bootstrap") /\ rec.user_operation \notin Proven
  /\ VoidAt(safe, {"free", "other"}) /\ VoidAt(head, {"free", "other"})

(* The permits can not be used any more: seen at the safe and the latest   *)
(* block alike, of a bootstrap alone or of a sealed UserOperation whose    *)
(* nonce another one used.                                                 *)
Invalidated ==
  \/ /\ Known("bootstrap") /\ rec.user_operation = "unsealed"
     /\ VoidAt(safe, {"free"}) /\ VoidAt(head, {"free"})
  \/ /\ Known("user_operation") /\ rec.user_operation \notin Proven
     /\ VoidAt(safe, {"other"}) /\ VoidAt(head, {"other"})

observe ==
  /\ At("observe")
  /\ \/ Save(To("unknown_finality"), "idle")
     \/ Save(Observed("unknown_finality", rec.user_operation), "idle")
     \/ /\ rec.user_operation \in Submitted /\ "user_operation" \in out
        /\ Save(Observed("submitted_pending", rec.user_operation), "idle")
     \/ /\ rec.user_operation \in Submitted /\ safe.nonce = "own_ok"
        /\ Save(Observed("completed", "safe_success"), "idle")
     \/ /\ rec.user_operation \in Submitted /\ safe.nonce = "own_revert"
        /\ Save(Observed("failed_confirmed_revert", "safe_revert"), "idle")
     \/ /\ Invalidated
        /\ Save(Observed("failed_permissions_invalidated", rec.user_operation), "idle")

(* Mutant of AbandonReady: only what was sent can be let go.               *)
AbandonReady_SentOnly ==
  /\ At("idle") /\ Expired /\ rec.state \in Unresolved
  /\ rec.user_operation \in Submitted
  /\ Valid(To("abandoned_unknown"))

(* The owner lets an unresolved transfer go after its deadline; the ledger *)
(* follows with the next command.                                          *)
AbandonReady ==
  /\ At("idle") /\ Expired /\ rec.state \in Unresolved
  /\ Valid(To("abandoned_unknown"))
Abandon ==
  /\ AbandonReady /\ rec' = To("abandoned_unknown")
  /\ UNCHANGED <<custody, lease, proc, out, tries, world>>

-----------------------------------------------------------------------------
(* The world                                                               *)

Stop == /\ ~At("idle") /\ stops < MaxStops
        /\ stops' = stops + 1 /\ proc' = Idle
        /\ UNCHANGED <<disk, out, tries, chain, clock>>

Tick == /\ clock # "closed"
        /\ clock' = IF clock = "open" THEN "closing" ELSE "closed"
        /\ UNCHANGED <<disk, proc, out, tries, chain, stops>>

Rest == <<disk, proc, out, tries, safe, reorgs, clock, stops>>

(* A bundler may include a UserOperation that left, at any time after.     *)
Land ==
  /\ "user_operation" \in out /\ head.nonce = "free"
  /\ head' \in [nonce : {"own_ok", "own_revert"}, permits : {"void"}]
  /\ UNCHANGED Rest

(* The account's own other transactions; prepare reads what came before.   *)
Revoke == /\ rec.state # "none" /\ head.permits = "live"
          /\ head' = [head EXCEPT !.permits = "void"] /\ UNCHANGED Rest
UseNonce == /\ rec.state # "none" /\ head.nonce = "free"
            /\ head' = [head EXCEPT !.nonce = "other"] /\ UNCHANGED Rest

SafeAdvance == safe # head /\ safe' = head
               /\ UNCHANGED <<disk, proc, out, tries, head, reorgs, clock, stops>>
Reorg == /\ head # safe /\ reorgs < MaxReorgs
         /\ head' = safe /\ reorgs' = reorgs + 1
         /\ UNCHANGED <<disk, proc, out, tries, safe, clock, stops>>

-----------------------------------------------------------------------------
Step == Follow \/ Screen \/ Answer \/ Advance \/ Material \/ Reserve \/ Mark
        \/ Seal \/ Load \/ Disclose \/ estimate \/ Estimated \/ Checked
        \/ Submit \/ send \/ Sent \/ LateScreen \/ LateAnswer \/ LateRecheck
        \/ observe
World == Stop \/ Tick \/ Land \/ Revoke \/ UseNonce \/ SafeAdvance \/ Reorg
Next == Prepare \/ (\E kind \in Kinds : Begin(kind)) \/ Step \/ Abandon \/ World

Init ==
  /\ rec = [state |-> "none", bootstrap |-> "unsealed",
            user_operation |-> "unsealed", observed |-> FALSE]
  /\ custody = {} /\ lease = "none" /\ proc = Idle /\ clock = "open" /\ out = {}
  /\ tries = [what \in Roles \cup {"disclosure", "send"} |-> 0]
  /\ head = [nonce |-> "free", permits |-> "live"] /\ safe = head
  /\ stops = 0 /\ reorgs = 0

Spec == Init /\ [][Next]_vars

(* A command at work goes on, time passes, and an owner keeps resuming the *)
(* transfer and at last lets it go.                                        *)
FairSpec == Spec /\ WF_vars(Step) /\ WF_vars(Tick)
                 /\ SF_vars(Begin("resume")) /\ SF_vars(Abandon)

TypeOK ==
  /\ rec \in Record /\ custody \subseteq Roles /\ lease \in LeaseStates
  /\ proc.role \in Roles /\ out \subseteq Roles
  /\ clock \in {"open", "closing", "closed"}
  /\ {head, safe} \subseteq [nonce : {"free", "own_ok", "own_revert", "other"},
                             permits : {"live", "void"}]

-----------------------------------------------------------------------------
(* Properties                                                              *)

(* "A recorded signing, disclosure or send attempt is never repeated by    *)
(* approval replay, operation resume or any later command"                 *)
(* (docs/gasless.md): whatever stops, and under fresh consent too, each    *)
(* effect is signed once and leaves once at most, and the UserOperation    *)
(* never before the disclosed bootstrap.                                   *)
SentOnce ==
  /\ \A what \in DOMAIN tries : tries[what] <= 1
  /\ "user_operation" \in out => "bootstrap" \in out

(* A recorded outcome is final: of a safe block, of material that never    *)
(* left, or of permits that no block can use any more.                     *)
OutcomeIsProven ==
  /\ rec.state = "completed" => safe.nonce = "own_ok"
  /\ rec.state = "failed_confirmed_revert" => safe.nonce = "own_revert"
  /\ rec.state = "failed_before_effect" => out = {}
  /\ rec.state = "failed_permissions_invalidated" =>
       /\ safe.permits = "void"
       /\ "user_operation" \in out => safe.nonce = "other"

(* The transfer keeps the promise of a money rail to the daily ledger.     *)
HoldOf == CASE lease = "none" -> "none"
            [] lease = "finalized" -> "charged"
            [] lease \in Released -> "given_back"
            [] OTHER -> "held"
Held == INSTANCE HeldPayment WITH
  Ops <- {"transfer"},
  hold <- [o \in {"transfer"} |-> HoldOf],
  paid <- IF head.nonce = "own_ok" THEN {"transfer"} ELSE {}
HoldsPayment == Held!Spec

(* The ledger takes every write of the transfer's hold.                    *)
Ledger == INSTANCE LedgerRows WITH
  Ops <- {"transfer"}, row <- [o \in {"transfer"} |-> lease]
LedgerTakesEveryWrite == Ledger!Spec

(* No command finds a record and a hold that reconcile refuses as corrupt: *)
(* whatever stops between a save and the ledger, each repairs the other    *)
(* (asset-policy.ts), and the bytes leave only once the ledger has them as *)
(* submitted.                                                              *)
LedgerIsNeverCorrupt == rec.state # "none" => Followable

(* A transfer the owner approved ends, and the ledger then says what its   *)
(* record does; but for one that a node was asked about through another    *)
(* endpoint before anything was disclosed.                                 *)
Begun == rec.state \notin {"none", "awaiting_approval"}
Stranded == rec.observed /\ Undisclosed(rec)
GaslessEnds == Begun ~> (Stranded \/ (Over /\ lease = Reconciled))

=============================================================================
