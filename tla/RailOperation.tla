---------------------------- MODULE RailOperation ----------------------------
(***************************************************************************)
(* One direct transfer on Solana or TRON from a local wallet, and the      *)
(* commands at work on it: prepare, approve, resume and abandon            *)
(* (rail-operation-service.ts, rail-operation-lifecycle.ts,                *)
(* operation-abandon-service.ts, solana/local-adapter.ts,                  *)
(* tron/local-adapter.ts).                                                 *)
(*                                                                         *)
(* A TRON command holds the profile's and the operation's lock from its    *)
(* first step to its last.  A Solana command holds them only for short     *)
(* sections, and waits for the node and the owner without them: what it    *)
(* read before may be stale when it comes back.  In exchange it holds a    *)
(* narrower lock of its own for the whole command, and leaves a claim file *)
(* of what it started from.                                                *)
(*                                                                         *)
(* The record's state never comes back to one it left, so the state stands *)
(* for the record's integrity hash.  Two locks that a command takes one    *)
(* after the other at its start are one step.  Between any two steps a     *)
(* process may stop, the owner may activate another policy revision, and   *)
(* the chain moves.                                                        *)
(***************************************************************************)
EXTENDS Integers

CONSTANTS
  Commands,    \* processes of the program
  Rails,       \* rails the transfer may be prepared on
  Revisions,   \* revisions of the owner's policy
  MaxStops,    \* bound: processes that stop half way
  MaxChanges   \* bound: activations and revocations of a policy

ASSUME RailsAssumption == Rails \subseteq {"solana", "tron"}
ASSUME RevisionsAssumption == "none" \notin Revisions
ASSUME BoundsAssumption == MaxStops \in Nat /\ MaxChanges \in Nat

VARIABLES
  rec,      \* the durable record: its state, rail and frozen policy revision
  prepared, \* the prepare claim: the revision it was staged under, or "none"
  approval, \* whether there is an approval claim
  effect,   \* whether the signed bytes are sealed in custody
  usage,    \* the reservation in the shared usage ledger
  active,   \* the active policy revision, or "none"
  late,     \* whether the approval window has passed
  tx,       \* the signed transaction on the chain
  window,   \* whether a block may still take it, as finalized blocks say
  run,      \* run[c]: the command process c is at work on
  sends,    \* physical submissions
  gap,      \* whether a node's history missed the transaction
  stops, changes

disk == <<rec, prepared, approval, effect, usage>>
chain == <<tx, window>>
world == <<active, late, chain, gap, changes>>
vars == <<disk, world, run, sends, stops>>

Terminal == {"completed", "failed_before_effect", "failed_confirmed_revert",
             "abandoned_unknown"}
Unsent == {"signing_started", "signed_not_submitted"}
Sent == {"submitting", "submitted_pending", "unknown_finality"}
States == {"none", "awaiting_approval"} \cup Unsent \cup Sent \cup Terminal
Revision == Revisions \cup {"none"}
UsageStates == {"none", "reserved", "submitted", "unknown_finality",
                "finalized", "failed_before_effect", "failed_confirmed_revert"}

(* lock: the narrow lock it holds, if any; money: it holds the profile's   *)
(* and the operation's; seen: the state it read; then: what it does once   *)
(* the ledger has followed; fresh: it is the approval that may sign;       *)
(* terms: the revision it prepares under.                                  *)
Idle == [at |-> "idle", lock |-> "none", money |-> FALSE, seen |-> "none",
         then |-> "idle", fresh |-> FALSE, terms |-> "none"]

TypeOK ==
  /\ rec \in [state : States, rail : Rails \cup {"none"}, revision : Revision]
  /\ prepared \in Revision /\ approval \in BOOLEAN /\ effect \in BOOLEAN
  /\ usage \in UsageStates
  /\ active \in Revision /\ late \in BOOLEAN /\ gap \in BOOLEAN
  /\ tx \in {"none", "out", "success", "revert", "final_success",
             "final_revert"}
  /\ window \in {"open", "closed"}
  /\ run \in [Commands -> [
       at : {"idle", "read", "freeze", "write", "drop", "ask", "refuse", "commit",
             "start", "recover", "revalidate", "unsealed", "seal", "sealed",
             "recheck", "unsendable", "intend", "send", "bound", "lost",
             "claim", "phase", "inspect", "completed",
             "failed_confirmed_revert", "height", "status", "consent",
             "release", "follow"},
       lock : {"none", "prepare", "approval", "abandon"}, money : BOOLEAN,
       seen : States, then : STRING, fresh : BOOLEAN, terms : Revision]]
  /\ sends \in Nat /\ stops \in 0..MaxStops /\ changes \in 0..MaxChanges
  /\ rec.state \in Sent \cup {"signed_not_submitted", "completed",
                   "failed_confirmed_revert", "abandoned_unknown"} => effect

Tron == rec.rail = "tron"
At(c, step) == run[c].at = step
Done(c) == run' = [run EXCEPT ![c] = Idle]
(* The next step of c: without the money locks, unless the rail keeps them. *)
Goto(c, step) == run' = [run EXCEPT ![c] = [@ EXCEPT !.at = step, !.money = Tron]]
LockFree(lock) == \A c \in Commands : run[c].lock # lock
(* c holds the money locks, or may take them for a section.                *)
Section(c) == \A d \in Commands \ {c} : ~run[d].money
Begin(c, lock, step) ==
  /\ lock # "none" => LockFree(lock)
  /\ run' = [run EXCEPT ![c] = [Idle EXCEPT !.at = step, !.lock = lock,
                                 !.money = Tron, !.seen = rec.state]]

(* The part of assertCurrentRailPolicy that time undoes.                    *)
PolicyHolds == active = rec.revision
(* All of assertCurrentRailPolicy.                                         *)
InForce == PolicyHolds /\ ~late

-----------------------------------------------------------------------------
(* The ledger follows the record.                                          *)

(* railUsageTarget.                                                        *)
Target(state) ==
  CASE state \in {"submitting", "submitted_pending"} -> "submitted"
    [] state \in {"unknown_finality", "abandoned_unknown"} -> "unknown_finality"
    [] state = "completed" -> "finalized"
    [] state \in {"failed_before_effect", "failed_confirmed_revert"} -> state
    [] OTHER -> "reserved"

(* The refusals of follow, negated.                                        *)
CanFollow(from, to) ==
  \/ to = "reserved" \/ from = to
  \/ from = "none" /\ to = "failed_before_effect"
  \/ from = "reserved"
  \/ from \in {"submitted", "unknown_finality"} /\ to # "failed_before_effect"

Followed ==
  LET to == Target(rec.state)
  IN IF \/ to = "reserved" \/ usage = "none" \/ ~CanFollow(usage, to)
        \/ to = "submitted" /\ usage # "reserved"
     THEN usage ELSE to

(* move: the record is written, then the ledger follows, under the locks.  *)
Move(c, state, then) ==
  /\ rec' = [rec EXCEPT !.state = state]
  /\ run' = [run EXCEPT ![c] = [@ EXCEPT !.at = "follow", !.then = then,
                                         !.money = TRUE]]
(* Refused before anything was sent.                                       *)
Fail(c) == Move(c, "failed_before_effect", "idle")

(* The approval claim goes with the section that moved the operation on.   *)
Follow(c) ==
  /\ At(c, "follow")
  /\ usage' = Followed
  /\ approval' = FALSE
  /\ run' = [run EXCEPT ![c] =
       IF run[c].then = "idle" THEN Idle
       ELSE [run[c] EXCEPT !.at = run[c].then, !.then = "idle",
                           !.money = Tron, !.seen = rec.state]]
  /\ UNCHANGED <<rec, prepared, effect, world, sends, stops>>

-----------------------------------------------------------------------------
(* Prepare.                                                                *)

(* prepareLocalSolana, staging: a claim left by a stopped prepare is taken *)
(* up again under the same revision only.                                  *)
Stage(c) ==
  /\ run[c] = Idle /\ Section(c) /\ LockFree("prepare")
  /\ "solana" \in Rails /\ rec.state = "none"
  /\ IF active = "none" \/ prepared \notin {"none", active}
     THEN prepared' = "none" /\ UNCHANGED run
     ELSE /\ prepared' = active
          /\ run' = [run EXCEPT ![c] = [Idle EXCEPT !.at = "read",
                       !.lock = "prepare", !.terms = active]]
  /\ UNCHANGED <<rec, approval, effect, usage, world, sends, stops>>

(* A replay of the key finds the operation and drops a stale claim.        *)
Replay(c) ==
  /\ run[c] = Idle /\ Section(c) /\ LockFree("prepare")
  /\ rec.state # "none" /\ prepared # "none"
  /\ prepared' = "none"
  /\ UNCHANGED <<rec, approval, effect, usage, world, run, sends, stops>>

ReadChain(c) ==
  /\ At(c, "read")
  /\ \E step \in {"freeze", "drop"} :
       run' = [run EXCEPT ![c].at = step]
  /\ UNCHANGED <<disk, world, sends, stops>>

New(rail, revision) == [state |-> "awaiting_approval", rail |-> rail,
                        revision |-> revision]

(* Mutant of Freeze: the policy is not read again.                         *)
Freeze_Unchecked(c) ==
  /\ At(c, "freeze") /\ Section(c)
  /\ IF rec.state = "none" /\ prepared = run[c].terms
     THEN rec' = New("solana", run[c].terms) ELSE UNCHANGED rec
  /\ run' = [run EXCEPT ![c].at = "drop"]
  /\ UNCHANGED <<prepared, approval, effect, usage, world, sends, stops>>

(* The commit: the claim and the policy must still be those it began with. *)
Freeze(c) ==
  /\ At(c, "freeze") /\ Section(c)
  /\ IF rec.state = "none" /\ prepared = run[c].terms /\ active = prepared
     THEN rec' = New("solana", prepared) ELSE UNCHANGED rec
  /\ run' = [run EXCEPT ![c].at = "drop"]
  /\ UNCHANGED <<prepared, approval, effect, usage, world, sends, stops>>

(* removeIfMatches, after the commit and after any error.                  *)
DropPrepareClaim(c) ==
  /\ At(c, "drop") /\ Section(c)
  /\ prepared' = IF prepared = run[c].terms THEN "none" ELSE prepared
  /\ Done(c)
  /\ UNCHANGED <<rec, approval, effect, usage, world, sends, stops>>

(* The TRON lane keeps its locks and does not read the policy again.       *)
PrepareTron(c) ==
  /\ run[c] = Idle /\ Section(c)
  /\ "tron" \in Rails /\ rec.state = "none" /\ active # "none"
  /\ run' = [run EXCEPT ![c] = [Idle EXCEPT !.at = "write", !.money = TRUE,
                                             !.terms = active]]
  /\ UNCHANGED <<disk, world, sends, stops>>
FreezeTron(c) ==
  /\ At(c, "write")
  /\ rec' \in {rec, New("tron", run[c].terms)}
  /\ Done(c)
  /\ UNCHANGED <<prepared, approval, effect, usage, world, sends, stops>>

-----------------------------------------------------------------------------
(* Approve.                                                                *)

(* The first section: an approval claim is made or taken up again, and one *)
(* that outlived its operation's wait for an approval is dropped.          *)
Approve(c) ==
  /\ run[c] = Idle /\ Section(c) /\ rec.state # "none"
  /\ Tron \/ LockFree("approval")
  /\ usage' = Followed
  /\ IF rec.state = "awaiting_approval"
     THEN /\ Begin(c, IF Tron THEN "none" ELSE "approval", "ask")
          /\ approval' = ~Tron
     ELSE approval' = FALSE /\ UNCHANGED run
  /\ UNCHANGED <<rec, prepared, effect, world, sends, stops>>

(* The owner is asked, between two looks at the chain and the policy; the  *)
(* send window is bound last.  Anything may be refused.                    *)
Ask(c) ==
  /\ At(c, "ask")
  /\ \/ InForce /\ Goto(c, "commit")
     \/ Goto(c, "refuse")
  /\ UNCHANGED <<disk, world, sends, stops>>

(* failApprovalClaim.                                                      *)
Refuse(c) ==
  /\ At(c, "refuse") /\ Section(c)
  /\ IF rec.state = "awaiting_approval" /\ (Tron \/ approval)
     THEN Fail(c) /\ UNCHANGED approval
     ELSE approval' = FALSE /\ Done(c) /\ UNCHANGED rec
  /\ UNCHANGED <<prepared, effect, usage, world, sends, stops>>

Stands(c) == rec.state = run[c].seen /\ (Tron \/ approval)

(* Mutant of Reserve: what would be reserved is left for follow.           *)
Reserve_Never(c) == UNCHANGED usage

(* reserve, which replays the reservation of an approval that stopped.     *)
Reserve(c) == usage' = "reserved"

Commit(c) ==
  /\ At(c, "commit") /\ Section(c)
  /\ \/ /\ Stands(c) /\ InForce
        /\ Reserve(c)
        /\ run' = [run EXCEPT ![c] = [@ EXCEPT !.at = "start", !.money = TRUE]]
        /\ UNCHANGED <<rec, approval>>
     \/ /\ Stands(c)                \* the caps refuse, or on TRON the policy
        /\ Tron \/ InForce
        /\ Fail(c)
        /\ UNCHANGED <<approval, usage>>
     \/ /\ ~Tron /\ ~(Stands(c) /\ InForce)
        /\ approval' = FALSE
        /\ Done(c)
        /\ UNCHANGED <<rec, usage>>
  /\ UNCHANGED <<prepared, effect, world, sends, stops>>

Start(c) ==
  /\ At(c, "start")
  /\ rec' = [rec EXCEPT !.state = "signing_started"]
  /\ run' = [run EXCEPT ![c] = [@ EXCEPT !.at = "follow", !.fresh = TRUE,
                                         !.then = IF Tron THEN "seal" ELSE "recover"]]
  /\ UNCHANGED <<prepared, approval, effect, usage, world, sends, stops>>

-----------------------------------------------------------------------------
(* Signing and the one send (executeLocalSolanaClaimed, and on TRON        *)
(* finishLocalApproval, firstLocalSubmit and submit).                      *)

Moved(c) == rec.state # run[c].seen

(* recoverEffect: what custody holds decides, and only the approval itself *)
(* may go on to sign.                                                      *)
Recover(c) ==
  /\ At(c, "recover") /\ Section(c)
  /\ \/ Moved(c) /\ Done(c) /\ UNCHANGED rec
     \/ /\ ~Moved(c) /\ effect
        /\ IF rec.state = "signing_started"
           THEN Move(c, "signed_not_submitted", "recheck")
           ELSE Goto(c, "recheck") /\ UNCHANGED rec
     \/ /\ ~Moved(c) /\ ~effect /\ rec.state = "signing_started"
        /\ IF run[c].fresh THEN Goto(c, "revalidate") /\ UNCHANGED rec
           ELSE Fail(c)
  /\ UNCHANGED <<prepared, approval, effect, usage, world, sends, stops>>

Revalidate(c) ==
  /\ At(c, "revalidate")
  /\ \/ InForce /\ Goto(c, "seal")
     \/ Goto(c, "unsealed")
  /\ UNCHANGED <<disk, world, sends, stops>>

Unsealed(c) ==
  /\ At(c, "unsealed") /\ Section(c)
  /\ IF Moved(c) \/ effect THEN Done(c) /\ UNCHANGED rec ELSE Fail(c)
  /\ UNCHANGED <<prepared, approval, effect, usage, world, sends, stops>>

(* sealRevalidated: the policy is read again, then the bytes are sealed in *)
(* custody; a refusal of either ends the operation.                        *)
Seal(c) ==
  /\ At(c, "seal") /\ Section(c)
  /\ \/ /\ ~Moved(c) /\ ~late /\ (Tron \/ PolicyHolds)
        /\ effect' = TRUE
        /\ run' = [run EXCEPT ![c] = [@ EXCEPT !.at = "sealed", !.money = TRUE]]
        /\ UNCHANGED rec
     \/ ~Moved(c) /\ Fail(c) /\ UNCHANGED effect
     \/ Moved(c) /\ Done(c) /\ UNCHANGED <<rec, effect>>
  /\ UNCHANGED <<prepared, approval, usage, world, sends, stops>>
Sealed(c) ==
  /\ At(c, "sealed")
  /\ Move(c, "signed_not_submitted", "intend")
  /\ UNCHANGED <<prepared, approval, effect, usage, world, sends, stops>>

(* A recovered signature is checked against the chain once more; only an   *)
(* answer that proves it unsendable ends it, a lost answer leaves it.      *)
Recheck(c) ==
  /\ At(c, "recheck")
  /\ \/ InForce /\ window = "open" /\ Goto(c, "intend")
     \/ Goto(c, "unsendable")
     \/ Done(c)
  /\ UNCHANGED <<disk, world, sends, stops>>
Unsendable(c) ==
  /\ At(c, "unsendable") /\ Section(c)
  /\ IF Moved(c) THEN Done(c) /\ UNCHANGED rec ELSE Fail(c)
  /\ UNCHANGED <<prepared, approval, effect, usage, world, sends, stops>>

(* Mutant of Intend: the send goes out before its intent is durable.       *)
Intend_NotDurable(c) ==
  /\ At(c, "intend") /\ Section(c)
  /\ \/ Moved(c) /\ Done(c) /\ UNCHANGED rec
     \/ ~Moved(c) /\ InForce /\ Goto(c, "send") /\ UNCHANGED rec
     \/ ~Moved(c) /\ ~InForce /\ Fail(c)
  /\ UNCHANGED <<prepared, approval, effect, usage, world, sends, stops>>

(* The intent is durable before the node is called even once.              *)
Intend(c) ==
  /\ At(c, "intend") /\ Section(c)
  /\ \/ Moved(c) /\ Done(c) /\ UNCHANGED rec
     \/ ~Moved(c) /\ InForce /\ Move(c, "submitting", "send")
     \/ ~Moved(c) /\ ~InForce /\ Fail(c)
  /\ UNCHANGED <<prepared, approval, effect, usage, world, sends, stops>>

(* submit: the node may take the bytes and answer, take them and not       *)
(* answer, or never see them.                                              *)
Send(c) ==
  /\ At(c, "send")
  /\ sends' = sends + 1
  /\ tx' \in {tx, IF tx = "none" THEN "out" ELSE tx}
  /\ \/ tx' # "none" /\ Goto(c, "bound")
     \/ Goto(c, "lost")
  /\ UNCHANGED <<disk, active, late, window, gap, changes, stops>>

Acknowledge(c) ==
  /\ run[c].at \in {"bound", "lost"} /\ Section(c)
  /\ IF rec.state # "submitting" THEN Done(c) /\ UNCHANGED rec
     ELSE IF At(c, "bound") THEN Move(c, "submitted_pending", "phase")
     ELSE Move(c, "unknown_finality", "idle")
  /\ UNCHANGED <<prepared, approval, effect, usage, world, sends, stops>>

-----------------------------------------------------------------------------
(* Resume.                                                                 *)

(* resumeLocalSolanaPhase without the approval's lock: what may still be   *)
(* signed or sent waits for the command that holds it.                     *)
Resume(c) ==
  /\ run[c] = Idle /\ Section(c) /\ rec.state # "none"
  /\ usage' = Followed
  /\ CASE rec.state \in Terminal \cup {"awaiting_approval"} -> UNCHANGED run
       [] ~Tron /\ rec.state \in Unsent \cup {"submitting"} ->
            Begin(c, "none", "claim")
       [] Tron /\ rec.state \in Unsent \cup Sent -> Begin(c, "none", "phase")
       [] OTHER -> Begin(c, "none", "inspect")
  /\ UNCHANGED <<rec, prepared, approval, effect, world, sends, stops>>
Claim(c) ==
  /\ At(c, "claim") /\ LockFree("approval")
  /\ run' = [run EXCEPT ![c] = [@ EXCEPT !.at = "phase", !.lock = "approval"]]
  /\ UNCHANGED <<disk, world, sends, stops>>

(* With it: an interrupted send is only observed from here on.             *)
Phase(c) ==
  /\ At(c, "phase") /\ Section(c)
  /\ usage' = Followed
  /\ CASE rec.state \in Terminal \cup {"awaiting_approval"} ->
            Done(c) /\ UNCHANGED rec
       [] rec.state \in Unsent ->
            /\ run' = [run EXCEPT ![c] = [@ EXCEPT !.at = "recover",
                                                   !.seen = rec.state, !.money = Tron]]
            /\ UNCHANGED rec
       [] rec.state = "submitting" -> Move(c, "unknown_finality", "inspect")
       [] OTHER ->
            /\ run' = [run EXCEPT ![c] = [@ EXCEPT !.at = "inspect",
                                                   !.seen = rec.state, !.money = Tron]]
            /\ UNCHANGED rec
  /\ UNCHANGED <<prepared, approval, effect, world, sends, stops>>

(* Mutant of Evidence: a confirmed block is enough.                        *)
Evidence_Confirmed ==
  CASE tx \in {"success", "final_success"} -> {"completed"}
    [] tx \in {"revert", "final_revert"} -> {"failed_confirmed_revert"}
    [] OTHER -> {}

(* inspectSolana, inspectTron: only finalized evidence is an answer.       *)
Evidence == CASE tx = "final_success" -> {"completed"}
              [] tx = "final_revert" -> {"failed_confirmed_revert"}
              [] OTHER -> {}

InspectFinds(c) ==
  /\ At(c, "inspect")
  /\ \E outcome \in Evidence : Goto(c, outcome)
  /\ UNCHANGED <<disk, world, sends, stops>>
InspectNothing(c) ==
  /\ At(c, "inspect")
  /\ Done(c)
  /\ UNCHANGED <<disk, world, sends, stops>>

(* Evidence is taken for the record it was read for; on Solana only while  *)
(* the owner's policy is still the one it was prepared under.              *)
Conclude(c) ==
  /\ run[c].at \in {"completed", "failed_confirmed_revert"} /\ Section(c)
  /\ IF Moved(c) \/ ~(Tron \/ PolicyHolds)
     THEN usage' = Followed /\ Done(c) /\ UNCHANGED rec
     ELSE Move(c, run[c].at, "idle") /\ UNCHANGED usage
  /\ UNCHANGED <<prepared, approval, effect, world, sends, stops>>

-----------------------------------------------------------------------------
(* Abandon.                                                                *)

(* Mutant of MayAbandon: only an unknown outcome.                          *)
MayAbandon_UnknownOnly == rec.state = "unknown_finality"

MayAbandon == rec.state \in {"unknown_finality", "submitted_pending"}

Abandon(c) ==
  /\ run[c] = Idle /\ Section(c) /\ MayAbandon
  /\ Begin(c, IF Tron THEN "none" ELSE "abandon", "height")
  /\ UNCHANGED <<disk, world, sends, stops>>

(* assertValidityExpired: the finalized chain is past the last block that  *)
(* could hold the transaction, and then its history shows none.            *)
ValidityOver == window = "closed"

Height(c) ==
  /\ At(c, "height")
  /\ IF ValidityOver THEN Goto(c, "status") ELSE Done(c)
  /\ UNCHANGED <<disk, world, sends, stops>>
Status(c) ==
  /\ At(c, "status")
  /\ IF tx \in {"none", "out"} THEN Goto(c, "consent") ELSE Done(c)
  /\ UNCHANGED <<disk, world, sends, stops>>
(* A node whose history is incomplete does not show what is there.         *)
StatusMissing(c) ==
  /\ At(c, "status") /\ tx \notin {"none", "out"}
  /\ gap' = TRUE
  /\ Goto(c, "consent")
  /\ UNCHANGED <<disk, active, late, chain, changes, sends, stops>>
Consent(c) ==
  /\ At(c, "consent")
  /\ Goto(c, "release")
  /\ UNCHANGED <<disk, world, sends, stops>>

(* The outcome stays unknown; the ledger is left for a later command.      *)
Release(c) ==
  /\ At(c, "release") /\ Section(c)
  /\ rec' \in IF Moved(c) \/ ~(Tron \/ PolicyHolds) THEN {rec}
              ELSE {[rec EXCEPT !.state = "abandoned_unknown"]}
  /\ Done(c)
  /\ UNCHANGED <<prepared, approval, effect, usage, world, sends, stops>>

-----------------------------------------------------------------------------
(* A process dies, or its owner does not consent.                          *)
Stop(c) ==
  /\ run[c] # Idle /\ stops < MaxStops
  /\ stops' = stops + 1
  /\ Done(c)
  /\ UNCHANGED <<disk, world, sends>>

(* The owner activates a revision or revokes the active one.  It is another *)
(* lock than the operation's that guards this.                             *)
Activate ==
  /\ changes < MaxChanges
  /\ changes' = changes + 1
  /\ active' \in Revision \ {active}
  /\ UNCHANGED <<disk, late, chain, gap, run, sends, stops>>

Expire ==
  /\ rec.state # "none" /\ ~late
  /\ late' = TRUE
  /\ UNCHANGED <<disk, active, chain, gap, changes, run, sends, stops>>

(* The chain: a block takes the transaction while the window is open, a    *)
(* fork may leave it out again, and in time it is final, or never to be.   *)
Land ==
  /\ tx = "out" /\ window = "open"
  /\ tx' \in {"success", "revert"}
  /\ UNCHANGED <<disk, active, late, window, gap, changes, run, sends, stops>>
Fork ==
  /\ tx \in {"success", "revert"}
  /\ tx' = "out"
  /\ UNCHANGED <<disk, active, late, window, gap, changes, run, sends, stops>>
Finalize ==
  /\ tx \in {"success", "revert"}
  /\ tx' = IF tx = "success" THEN "final_success" ELSE "final_revert"
  /\ UNCHANGED <<disk, active, late, window, gap, changes, run, sends, stops>>
CloseWindow ==
  /\ window = "open" /\ effect
  /\ tx \notin {"success", "revert"}
  /\ window' = "closed"
  /\ UNCHANGED <<disk, active, late, tx, gap, changes, run, sends, stops>>

Init ==
  /\ rec = [state |-> "none", rail |-> "none", revision |-> "none"]
  /\ prepared = "none" /\ approval = FALSE /\ effect = FALSE
  /\ usage = "none"
  /\ active \in Revisions /\ late = FALSE /\ gap = FALSE
  /\ tx = "none" /\ window = "open"
  /\ run = [c \in Commands |-> Idle]
  /\ sends = 0 /\ stops = 0 /\ changes = 0

(* The steps of a command that has begun.                                  *)
Step(c) ==
  \/ Follow(c) \/ ReadChain(c) \/ Freeze(c) \/ DropPrepareClaim(c)
  \/ FreezeTron(c) \/ Ask(c) \/ Refuse(c) \/ Commit(c) \/ Start(c)
  \/ Recover(c) \/ Revalidate(c) \/ Unsealed(c) \/ Seal(c) \/ Sealed(c)
  \/ Recheck(c) \/ Unsendable(c) \/ Intend(c) \/ Send(c) \/ Acknowledge(c)
  \/ Claim(c) \/ Phase(c) \/ InspectFinds(c) \/ InspectNothing(c)
  \/ Conclude(c) \/ Height(c) \/ Status(c) \/ StatusMissing(c) \/ Consent(c)
  \/ Release(c)

Owner(c) ==
  \/ Stage(c) \/ Replay(c) \/ PrepareTron(c) \/ Approve(c) \/ Resume(c)
  \/ Abandon(c)

Next ==
  \/ \E c \in Commands : Owner(c) \/ Step(c) \/ Stop(c)
  \/ Activate \/ Expire \/ Land \/ Fork \/ Finalize \/ CloseWindow

Spec == Init /\ [][Next]_vars

(* A command that has begun goes on; a transfer that is not over is resumed *)
(* and, once it may be, abandoned again and again, by commands that no     *)
(* other one keeps out for ever; nodes answer some of the time; every      *)
(* transaction is final or too late in the end.                            *)
Fairness ==
  /\ \A c \in Commands :
       /\ WF_vars(Step(c)) /\ SF_vars(Resume(c)) /\ SF_vars(Abandon(c))
       /\ SF_vars(InspectFinds(c))
       /\ SF_vars(Recheck(c) /\ run'[c] # Idle)
  /\ SF_vars(Finalize) /\ SF_vars(CloseWindow)
FairSpec == Spec /\ Fairness

-----------------------------------------------------------------------------
(* Properties                                                              *)

(* "A crash before the first submission may recover that same sealed       *)
(* effect; a crash after the submission boundary permits observation       *)
(* only" (docs/solana.md): whatever stops, resumes and races, the bytes    *)
(* are submitted once at most; and never by a transfer that ended before   *)
(* its effect, whose reservation was given back.                           *)
SubmittedOnce == sends <= IF rec.state = "failed_before_effect" THEN 0 ELSE 1

(* A recorded outcome is that of a finalized block; and what the owner let *)
(* go never lands, unless a node's history was incomplete when asked.      *)
OutcomeIsProven ==
  /\ rec.state = "completed" => tx = "final_success"
  /\ rec.state = "failed_confirmed_revert" => tx = "final_revert"
  /\ rec.state = "abandoned_unknown" /\ ~gap => tx \in {"none", "out"}
                                               /\ window = "closed"

(* A Solana transfer is frozen under the revision that is active when its  *)
(* record is written, however long the node took and whatever claim an     *)
(* earlier prepare left.                                                   *)
FrozenUnderActivePolicy ==
  [][rec.state = "none" /\ rec'.rail = "solana" => rec'.revision = active]_vars

(* The transfer keeps the promise of a money rail to the daily ledger.     *)
HoldOf == CASE usage = "none" -> "none"
            [] usage = "finalized" -> "charged"
            [] usage \in {"failed_before_effect", "failed_confirmed_revert"} ->
                 "given_back"
            [] OTHER -> "held"
Held == INSTANCE HeldPayment WITH
  Ops <- {"transfer"},
  hold <- [o \in {"transfer"} |-> HoldOf],
  paid <- IF tx \in {"success", "final_success"} THEN {"transfer"} ELSE {}
HoldsPayment == Held!Spec

(* The ledger takes every write of the transfer's reservation, whatever    *)
(* commands race for it: it is held once, and follow only asks for         *)
(* transitions of assertTransition's table.                                *)
Ledger == INSTANCE LedgerRows WITH
  Ops <- {"transfer"}, row <- [o \in {"transfer"} |-> usage]
LedgerTakesEveryWrite == Ledger!Spec

(* A command that goes on after any stop, its own or another's, finds a    *)
(* ledger that can follow the record: directUsageFollow never refuses it   *)
(* as corrupt state, and never has to record a revert of a transfer that   *)
(* the ledger still has as only reserved.                                  *)
FollowIsNeverRefused ==
  LET to == Target(rec.state)
  IN rec.state # "none" =>
       /\ CanFollow(usage, to)
       /\ ~(usage = "reserved" /\ to = "failed_confirmed_revert")

(* A transfer that may be signed ends, if the policy it was prepared under *)
(* stays the active one; and whatever stopped between a record and the     *)
(* ledger, the ledger says in the end what the record's outcome is.        *)
Begun == rec.state \in Unsent \cup Sent
TransferEnds ==
  /\ <>[]PolicyHolds => (Begun ~> rec.state \in Terminal)
  /\ rec.state \in Terminal ~> usage \in {"none", Target(rec.state)}

=============================================================================
