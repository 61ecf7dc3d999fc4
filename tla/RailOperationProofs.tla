------------------------- MODULE RailOperationProofs -------------------------
(* The one submission of a Solana or TRON transfer: a theorem for every      *)
(* number of processes that approve, resume and abandon it at the same time, *)
(* and for every number of stops and policy changes between their steps.     *)
EXTENDS RailOperation, TLAPS

Asking == {"ask", "refuse", "commit"}
Signing == {"recover", "revalidate", "unsealed", "seal", "recheck", "unsendable", "intend"}
Observing == {"inspect", "completed", "failed_confirmed_revert",
              "height", "status", "consent", "release"}

(* The steps of an approval and of a resume that may still sign or send: one *)
(* command at a time, on TRON for the operation's lock, on Solana for the    *)
(* approval's.                                                               *)
Exclusive == Asking \cup Signing \cup {"start", "sealed", "send", "bound", "lost", "phase"}
Operating == Exclusive \cup Observing \cup {"claim"}
Steps == Operating \cup {"idle", "read", "freeze", "write", "drop", "follow"}

Run == [at : Steps, lock : {"none", "prepare", "approval", "abandon"},
        money : BOOLEAN, seen : States, then : Steps, fresh : BOOLEAN,
        terms : Revision]

Typed ==
  /\ rec \in [state : States, rail : {"none", "solana", "tron"}, revision : Revision]
  /\ prepared \in Revision /\ active \in Revision
  /\ run \in [Commands -> Run]
  /\ sends \in Nat

LocksExclude ==
  \A c, d \in Commands :
    \/ c = d
    \/ ~(run[c].money /\ run[d].money) /\
       ~(run[c].lock = "approval" /\ run[d].lock = "approval")

(* Before the intent to send is durable nothing was sent, nor ever after the *)
(* record says so.                                                           *)
Unattempted == {"none", "awaiting_approval", "failed_before_effect"} \cup Unsent
SendsFit ==
  /\ sends <= 1
  /\ rec.state \in Unattempted => sends = 0
  /\ rec.state = "none" => rec.rail = "none"

NextStep(c) == IF At(c, "follow") THEN run[c].then ELSE run[c].at

(* What a command relies on when it takes its next step: the locks it holds, *)
(* the state it read, and, while it holds the operation's lock, the record.  *)
Fits(c) ==
  /\ run[c].at \in Operating \cup {"follow"} => rec.state # "none"
  /\ Tron /\ run[c].at \in Operating => run[c].money
  /\ run[c].at \in {"write", "start", "sealed", "follow"} => run[c].money
  /\ ~Tron /\ NextStep(c) \in Exclusive => run[c].lock = "approval"
  /\ run[c].at \in Asking => run[c].seen = "awaiting_approval"
  /\ run[c].at \in Signing => run[c].seen \in Unsent
  /\ run[c].at \in Observing => run[c].seen \in {"submitted_pending", "unknown_finality"}
  /\ run[c].at = "write" => rec.state = "none"
  /\ run[c].at = "start" => rec.state = "awaiting_approval"
  /\ run[c].at = "sealed" => rec.state \in Unsent
  /\ NextStep(c) = "send" => rec.state = "submitting" /\ sends = 0
  /\ run[c].at = "follow" =>
       /\ run[c].then \in Signing \cup {"idle", "send", "phase", "inspect"}
       /\ run[c].then \in Signing => rec.state \in Unsent
       /\ run[c].then = "inspect" => rec.state = "unknown_finality"

IInv == Typed /\ LocksExclude /\ SendsFit /\ \A c \in Commands : Fits(c)

-----------------------------------------------------------------------------
(* A command that writes the record does so under the operation's lock, and  *)
(* takes a record off its intent to send only if it is the one that sent.    *)
Writes(c) ==
  /\ rec' \in [state : States, rail : {"none", "solana", "tron"}, revision : Revision]
  /\ Section(c) \/ run[c].money
  /\ rec'.state # "none"
  /\ rec.state # "none" => rec'.rail = rec.rail
  /\ rec.state = "submitting" => run[c].at \in Exclusive

(* A command locks others out only by locks that nobody else holds.          *)
Locks(c) ==
  /\ run' \in [Commands -> Run]
  /\ \A d \in Commands \ {c} : run'[d] = run[d]
  /\ run'[c].money => Section(c) \/ run[c].money
  /\ run'[c].lock = "approval" => LockFree("approval") \/ run[c].lock = "approval"

LEMMA LocksKeep ==
  ASSUME Typed, LocksExclude, NEW c \in Commands, Locks(c)
  PROVE  LocksExclude'
BY DEF Locks, LocksExclude, Section, LockFree

(* No other command is disturbed by a write.                                 *)
LEMMA OthersFit ==
  ASSUME IInv, NEW c \in Commands, Locks(c), UNCHANGED sends, rec' = rec \/ Writes(c),
         NEW d \in Commands \ {c}
  PROVE  Fits(d)'
<1>1. run'[d] = run[d] /\ Fits(d)
  BY DEF Locks, IInv
<1>2. CASE rec' = rec
  BY <1>1, <1>2 DEF Fits, NextStep, At, Tron
<1>3. CASE Writes(c)
  <2>1. ~run[d].money
    BY <1>3 DEF Writes, Section, IInv, LocksExclude
  <2>2. run[d].at \notin {"write", "start", "sealed", "follow"}
    BY <1>1, <2>1 DEF Fits
  <2>3. run[d].at # "send"
    <3>1. ASSUME run[d].at = "send" PROVE FALSE
      <4>1. rec.state = "submitting" /\ run[d].at \in Exclusive /\ ~Tron
        BY <1>1, <2>1, <3>1 DEF Fits, NextStep, At, Exclusive, Operating
      <4>2. run[d].lock = "approval"
        BY <1>1, <2>2, <4>1 DEF Fits, NextStep, At
      <4>3. run[c].at \in Exclusive /\ Fits(c)
        BY <1>3, <4>1 DEF Writes, IInv
      <4>4. run[c].lock = "approval"
        BY <4>1, <4>3 DEF Fits, NextStep, At, Exclusive, Asking, Signing
      <4> QED BY <4>2, <4>4 DEF IInv, LocksExclude
    <3> QED BY <3>1
  <2>4. NextStep(d)' = run[d].at /\ NextStep(d) = run[d].at
    BY <1>1, <2>2 DEF NextStep, At
  <2>5. /\ run[d].at \in Operating => rec.state # "none" /\ rec'.rail = rec.rail
        /\ rec'.state # "none"
    BY <1>1, <1>3 DEF Fits, Writes
  <2>6. Exclusive \subseteq Operating
    BY DEF Operating
  <2> QED BY <1>1, <2>1, <2>2, <2>3, <2>4, <2>5, <2>6 DEF Fits, Tron
<1> QED BY <1>2, <1>3

(* So a step keeps the invariant if what it leaves its own command with fits. *)
LEMMA StepKeeps ==
  ASSUME IInv, NEW c \in Commands, Locks(c), UNCHANGED <<sends, active>>,
         rec' = rec \/ Writes(c), prepared' \in Revision,
         rec'.state \in Unattempted => sends = 0,
         rec'.state = "none" => rec'.rail = "none",
         Fits(c)'
  PROVE  IInv'
<1>1. LocksExclude'
  BY LocksKeep DEF IInv
<1>2. \A d \in Commands : Fits(d)'
  BY OthersFit
<1>3. Typed'
  BY DEF IInv, Typed, Locks, Writes
<1>4. SendsFit'
  BY DEF IInv, SendsFit
<1> QED BY <1>1, <1>2, <1>3, <1>4 DEF IInv

-----------------------------------------------------------------------------
(* The ways a command goes on.                                               *)
LEMMA Resting ==
  /\ Idle \in Run /\ Idle.at = "idle" /\ Idle.lock = "none" /\ Idle.money = FALSE
  /\ Idle.then = "idle"
<1>1. "idle" \in Steps /\ "none" \in States /\ "none" \in Revision
  BY DEF Steps, States, Revision
<1> QED BY <1>1 DEF Idle, Run

LEMMA DoneKeeps ==
  ASSUME IInv, NEW c \in Commands, Done(c), UNCHANGED <<rec, active, sends>>,
         prepared' \in Revision
  PROVE  IInv'
<1>1. /\ run' \in [Commands -> Run] /\ \A d \in Commands \ {c} : run'[d] = run[d]
      /\ run'[c] = Idle
  BY Resting DEF Done, IInv, Typed
<1>2. Locks(c)
  BY <1>1, Resting DEF Locks
<1>3. Fits(c)'
  BY <1>1, Resting DEF Fits, NextStep, At, Operating, Exclusive, Asking, Signing, Observing
<1> QED BY <1>2, <1>3, StepKeeps DEF IInv, SendsFit

LEMMA GotoKeeps ==
  ASSUME IInv, NEW c \in Commands, NEW step \in Operating \ {"start", "sealed", "send"},
         Goto(c, step), run[c].at \in Operating,
         UNCHANGED <<rec, active, sends, prepared>>,
         step \in Exclusive => run[c].at \in Exclusive,
         step \in Asking => run[c].at \in Asking,
         step \in Signing => run[c].seen \in Unsent,
         step \in Observing => run[c].seen \in {"submitted_pending", "unknown_finality"}
  PROVE  IInv'
<1>1. step \in Steps /\ step \notin {"follow", "write", "start", "sealed", "send"}
      /\ run[c].at \notin {"follow", "write"}
  BY DEF Steps, Operating, Exclusive, Asking, Signing, Observing
<1>2. /\ run' \in [Commands -> Run] /\ \A d \in Commands \ {c} : run'[d] = run[d]
      /\ run'[c].at = step /\ run'[c].money = Tron
      /\ run'[c].lock = run[c].lock /\ run'[c].seen = run[c].seen
  <2> DEFINE r == [run[c] EXCEPT !.at = step, !.money = Tron]
  <2>1. run' = [run EXCEPT ![c] = r] /\ run \in [Commands -> Run]
    BY DEF Goto, IInv, Typed
  <2>2. r \in Run /\ r.at = step /\ r.money = Tron /\ r.lock = run[c].lock /\ r.seen = run[c].seen
    BY <1>1, <2>1 DEF Run, Tron
  <2> HIDE DEF r
  <2> QED BY <2>1, <2>2
<1>3. Fits(c)
  BY DEF IInv
<1>4. Locks(c)
  BY <1>2, <1>3 DEF Locks, Fits
<1>5. Fits(c)'
  BY <1>1, <1>2, <1>3 DEF Fits, NextStep, At, Tron
<1> QED BY <1>4, <1>5, StepKeeps DEF IInv, SendsFit, Typed

LEMMA MoveKeeps ==
  ASSUME IInv, NEW c \in Commands, NEW state \in States \ {"none"},
         NEW then \in Signing \cup {"idle", "send", "phase", "inspect"},
         Move(c, state, then), run[c].at \in Operating, Section(c) \/ run[c].money,
         UNCHANGED <<active, sends, prepared>>,
         rec.state = "submitting" => run[c].at \in Exclusive,
         then \in Exclusive => run[c].at \in Exclusive,
         state \in Unattempted => sends = 0,
         then \in Signing => state \in Unsent,
         then = "inspect" => state = "unknown_finality",
         then = "send" => state = "submitting" /\ sends = 0
  PROVE  IInv'
<1>1. then \in Steps /\ "follow" \in Steps /\ run[c].at # "follow"
      /\ "follow" \notin Operating
  BY DEF Steps, Operating, Exclusive, Asking, Signing, Observing
<1>2. /\ run' \in [Commands -> Run] /\ \A d \in Commands \ {c} : run'[d] = run[d]
      /\ run'[c].at = "follow" /\ run'[c].then = then /\ run'[c].money
      /\ run'[c].lock = run[c].lock
  <2> DEFINE r == [run[c] EXCEPT !.at = "follow", !.then = then, !.money = TRUE]
  <2>1. run' = [run EXCEPT ![c] = r] /\ run \in [Commands -> Run]
    BY DEF Move, IInv, Typed
  <2>2. r \in Run /\ r.at = "follow" /\ r.then = then /\ r.money /\ r.lock = run[c].lock
    BY <1>1, <2>1 DEF Run
  <2> HIDE DEF r
  <2> QED BY <2>1, <2>2
<1>3. Fits(c) /\ rec.state # "none"
  BY DEF IInv, Fits
<1>4. /\ rec' \in [state : States, rail : {"none", "solana", "tron"}, revision : Revision]
      /\ rec'.state = state /\ rec'.rail = rec.rail
  BY DEF Move, IInv, Typed
<1>5. Writes(c) /\ Locks(c)
  BY <1>2, <1>3, <1>4 DEF Locks, Writes
<1>6. Fits(c)'
  BY <1>1, <1>2, <1>3, <1>4 DEF Fits, NextStep, At, Tron, Operating, Exclusive, Asking,
     Signing, Observing
<1> QED BY <1>4, <1>5, <1>6, StepKeeps DEF IInv, Typed

LEMMA Names ==
  /\ {"failed_before_effect", "submitting", "submitted_pending", "unknown_finality",
      "signing_started", "signed_not_submitted", "completed", "failed_confirmed_revert",
      "abandoned_unknown", "awaiting_approval"} \subseteq States \ {"none"}
  /\ {"submitting", "submitted_pending", "unknown_finality", "completed",
      "failed_confirmed_revert", "abandoned_unknown"} \cap Unattempted = {}
BY DEF States, Unsent, Sent, Terminal, Unattempted

(* A transfer fails before its effect only from a record that says so.       *)
LEMMA FailKeeps ==
  ASSUME IInv, NEW c \in Commands, Fail(c), run[c].at \in Operating, Section(c),
         UNCHANGED <<active, sends, prepared>>, rec.state \in Unattempted
  PROVE  IInv'
<1>1. sends = 0 /\ rec.state # "submitting"
  BY Names DEF IInv, SendsFit
<1>2. "idle" \notin Exclusive /\ "idle" \notin Signing
  BY DEF Exclusive, Asking, Signing
<1> QED BY <1>1, <1>2, Names, MoveKeeps DEF Fail

LEMMA StutterKeeps ==
  ASSUME IInv, UNCHANGED <<rec, run, sends>>, prepared' \in Revision, active' \in Revision
  PROVE  IInv'
<1>1. \A c \in Commands : Fits(c)'
  BY DEF IInv, Fits, NextStep, At, Tron
<1> QED BY <1>1 DEF IInv, Typed, LocksExclude, SendsFit

(* A command that begins, or goes on from a section, at a step that asks     *)
(* nothing of the record but that there is one.                              *)
LEMMA EnterKeeps ==
  ASSUME IInv, NEW c \in Commands, Locks(c), UNCHANGED <<rec, active, sends, prepared>>,
         run'[c].at \in (Operating \ {"send", "start", "sealed"})
                          \cup {"idle", "read", "drop", "freeze"},
         run'[c].at \in Operating => rec.state # "none",
         Tron /\ run'[c].at \in Operating => run'[c].money,
         ~Tron /\ run'[c].at \in Exclusive => run'[c].lock = "approval",
         run'[c].at \in Asking => run'[c].seen = "awaiting_approval",
         run'[c].at \in Signing => run'[c].seen \in Unsent,
         run'[c].at \in Observing =>
           run'[c].seen \in {"submitted_pending", "unknown_finality"}
  PROVE  IInv'
<1>1. run'[c].at \notin {"follow", "write", "send", "start", "sealed"}
  BY DEF Operating, Exclusive, Asking, Signing, Observing
<1>2. Fits(c)'
  BY <1>1 DEF Fits, NextStep, At, Tron
<1> QED BY <1>2, StepKeeps DEF IInv, SendsFit, Typed

LEMMA StepNames ==
  /\ Operating \subseteq Steps /\ Exclusive \subseteq Operating
  /\ Asking \cup Signing \subseteq Exclusive /\ Observing \subseteq Operating
  /\ {"idle", "read", "drop", "freeze", "write", "follow"} \subseteq Steps \ Operating
  /\ {"start", "sealed", "send", "bound", "lost", "phase"} \subseteq
       Exclusive \ (Asking \cup Signing \cup Observing)
  /\ Asking \cap Signing = {} /\ Exclusive \cap Observing = {}
  /\ "claim" \in Operating \ (Exclusive \cup Observing)
  /\ {"ask", "refuse", "commit"} = Asking
BY DEF Steps, Operating, Exclusive, Asking, Signing, Observing

LEMMA Began ==
  ASSUME IInv, NEW c \in Commands, NEW step \in Steps,
         NEW lock \in {"none", "prepare", "approval", "abandon"}, Begin(c, lock, step)
  PROVE  /\ run' \in [Commands -> Run] /\ \A d \in Commands \ {c} : run'[d] = run[d]
         /\ run'[c].at = step /\ run'[c].lock = lock /\ run'[c].money = Tron
         /\ run'[c].seen = rec.state
         /\ lock = "approval" => LockFree("approval")
<1> DEFINE r == [Idle EXCEPT !.at = step, !.lock = lock, !.money = Tron, !.seen = rec.state]
<1>1. /\ r \in Run /\ r.at = step /\ r.lock = lock /\ r.money = Tron /\ r.seen = rec.state
  BY Resting DEF Run, Tron, IInv, Typed
<1> HIDE DEF r
<1>2. run' = [run EXCEPT ![c] = r] /\ (lock = "approval" => LockFree("approval"))
  BY DEF Begin, r
<1> QED BY <1>1, <1>2 DEF IInv, Typed

(* A section that goes on to write the record keeps its locks.               *)
LEMMA EnteredWriting ==
  ASSUME IInv, NEW c \in Commands, NEW step \in {"start", "sealed"},
         run' = [run EXCEPT ![c] = [@ EXCEPT !.at = step, !.money = TRUE]]
  PROVE  /\ run' \in [Commands -> Run] /\ \A d \in Commands \ {c} : run'[d] = run[d]
         /\ run'[c].at = step /\ run'[c].money
         /\ run'[c].lock = run[c].lock /\ run'[c].seen = run[c].seen
<1> DEFINE r == [run[c] EXCEPT !.at = step, !.money = TRUE]
<1>1. step \in Steps /\ run' = [run EXCEPT ![c] = r] /\ run \in [Commands -> Run]
  BY StepNames DEF IInv, Typed
<1>2. step \in Steps /\ run[c] \in Run
  BY <1>1
<1>3. r \in Run /\ r.at = step /\ r.money
  BY <1>2 DEF Run
<1>4. r.lock = run[c].lock /\ r.seen = run[c].seen
  BY <1>2 DEF Run
<1> HIDE DEF r
<1> QED BY <1>1, <1>3, <1>4

-----------------------------------------------------------------------------
LEMMA PrepareKeeps ==
  ASSUME IInv, NEW c \in Commands,
         \/ Stage(c) \/ Replay(c) \/ ReadChain(c) \/ Freeze(c)
         \/ DropPrepareClaim(c) \/ PrepareTron(c) \/ FreezeTron(c)
  PROVE  IInv'
<1>1. "none" \in Revision /\ active \in Revision /\ prepared \in Revision
  BY DEF Revision, IInv, Typed
<1>2. CASE Stage(c)
  <2>1. CASE UNCHANGED run
    BY <1>1, <1>2, <2>1, StutterKeeps DEF Stage, world
  <2>2. CASE run' = [run EXCEPT ![c] = [Idle EXCEPT !.at = "read", !.lock = "prepare",
                                                    !.terms = active]]
    <3> DEFINE r == [Idle EXCEPT !.at = "read", !.lock = "prepare", !.terms = active]
    <3>1. r \in Run /\ r.at = "read" /\ r.lock = "prepare" /\ r.money = FALSE
      BY <1>1, Resting, StepNames DEF Run
    <3> HIDE DEF r
    <3>2. /\ run' \in [Commands -> Run] /\ \A d \in Commands \ {c} : run'[d] = run[d]
          /\ run'[c] = r
      BY <2>2, <3>1 DEF IInv, Typed, r
    <3>3. Locks(c)
      BY <3>1, <3>2 DEF Locks
    <3>4. UNCHANGED <<rec, active, sends>> /\ prepared' \in Revision
      BY <1>1, <1>2 DEF Stage, world
    <3>5. Fits(c)'
      BY <3>1, <3>2, <3>4, StepNames DEF Fits, NextStep, At
    <3> QED BY <3>3, <3>4, <3>5, StepKeeps DEF IInv, SendsFit
  <2> QED BY <1>2, <2>1, <2>2 DEF Stage
<1>3. CASE Replay(c)
  BY <1>1, <1>3, StutterKeeps DEF Replay, world
<1>4. CASE ReadChain(c)
  <2>1. /\ UNCHANGED <<rec, active, sends, prepared>>
        /\ \E step \in {"freeze", "drop"} : run' = [run EXCEPT ![c].at = step]
    BY <1>4 DEF ReadChain, disk, world
  <2>2. /\ run' \in [Commands -> Run] /\ \A d \in Commands \ {c} : run'[d] = run[d]
        /\ run'[c].at \in {"freeze", "drop"}
        /\ run'[c].money = run[c].money /\ run'[c].lock = run[c].lock
    BY <2>1, StepNames DEF IInv, Typed, Run
  <2>3. Locks(c)
    BY <2>2 DEF Locks
  <2> QED BY <2>1, <2>2, <2>3, EnterKeeps, StepNames
<1>5. CASE Freeze(c)
  <2>1. /\ run' = [run EXCEPT ![c].at = "drop"] /\ Section(c)
        /\ rec' = rec \/ (rec.state = "none" /\ rec' = New("solana", prepared))
        /\ UNCHANGED <<active, sends, prepared>>
    BY <1>5 DEF Freeze, world
  <2>2. /\ run' \in [Commands -> Run] /\ \A d \in Commands \ {c} : run'[d] = run[d]
        /\ run'[c].at = "drop" /\ run'[c].lock = run[c].lock
    BY <2>1, StepNames DEF IInv, Typed, Run
  <2>3. Locks(c)
    BY <2>1, <2>2 DEF Locks
  <2>4. rec' # rec => /\ Writes(c) /\ rec'.state = "awaiting_approval" /\ sends = 0
    BY <1>1, <2>1, Names DEF New, Writes, Unattempted, IInv, SendsFit
  <2>5. Fits(c)'
    BY <2>2, StepNames DEF Fits, NextStep, At
  <2> QED BY <1>1, <2>1, <2>3, <2>4, <2>5, StepKeeps DEF IInv, SendsFit
<1>6. CASE DropPrepareClaim(c)
  BY <1>1, <1>6, DoneKeeps DEF DropPrepareClaim, world
<1>7. CASE PrepareTron(c)
  <2> DEFINE r == [Idle EXCEPT !.at = "write", !.money = TRUE, !.terms = active]
  <2>1. r \in Run /\ r.at = "write" /\ r.lock = "none" /\ r.money
    BY <1>1, Resting, StepNames DEF Run
  <2>2. run' = [run EXCEPT ![c] = r] /\ Section(c) /\ rec.state = "none"
        /\ UNCHANGED <<rec, active, sends, prepared>>
    BY <1>7 DEF PrepareTron, disk, world
  <2> HIDE DEF r
  <2>3. /\ run' \in [Commands -> Run] /\ \A d \in Commands \ {c} : run'[d] = run[d]
        /\ run'[c] = r
    BY <2>1, <2>2 DEF IInv, Typed
  <2>4. Locks(c)
    BY <2>1, <2>2, <2>3 DEF Locks
  <2>5. Fits(c)'
    BY <2>1, <2>2, <2>3, StepNames DEF Fits, NextStep, At
  <2> QED BY <1>1, <2>2, <2>4, <2>5, StepKeeps DEF IInv, SendsFit
<1>8. CASE FreezeTron(c)
  <2>1. /\ run[c].money /\ rec.state = "none" /\ Done(c) /\ run[c].terms \in Revision
        /\ rec' = rec \/ rec' = New("tron", run[c].terms)
        /\ UNCHANGED <<active, sends, prepared>>
    BY <1>8 DEF FreezeTron, world, At, IInv, Fits, Typed, Run
  <2>2. /\ run' \in [Commands -> Run] /\ \A d \in Commands \ {c} : run'[d] = run[d]
        /\ run'[c] = Idle
    BY <2>1, Resting DEF Done, IInv, Typed
  <2>3. Locks(c)
    BY <2>1, <2>2, Resting DEF Locks
  <2>4. rec' # rec => /\ Writes(c) /\ rec'.state = "awaiting_approval" /\ sends = 0
    BY <2>1, Names DEF New, Writes, Unattempted, IInv, SendsFit
  <2>5. Fits(c)'
    BY <2>2, Resting, StepNames DEF Fits, NextStep, At
  <2> QED BY <1>1, <2>1, <2>3, <2>4, <2>5, StepKeeps DEF IInv, SendsFit
<1> QED BY <1>2, <1>3, <1>4, <1>5, <1>6, <1>7, <1>8

LEMMA ApproveKeeps ==
  ASSUME IInv, NEW c \in Commands,
         Approve(c) \/ Ask(c) \/ Refuse(c) \/ Commit(c) \/ Start(c)
  PROVE  IInv'
<1>1. Fits(c) /\ prepared \in Revision /\ active \in Revision
  BY DEF IInv, Typed
<1>2. CASE Approve(c)
  <2>1. UNCHANGED <<rec, active, sends, prepared>> /\ rec.state # "none" /\ Section(c)
    BY <1>2 DEF Approve, world
  <2>2. CASE UNCHANGED run
    BY <1>1, <2>1, <2>2, StutterKeeps
  <2>3. CASE rec.state = "awaiting_approval"
             /\ Begin(c, IF Tron THEN "none" ELSE "approval", "ask")
    <3>1. /\ run' \in [Commands -> Run] /\ \A d \in Commands \ {c} : run'[d] = run[d]
          /\ run'[c].at = "ask" /\ run'[c].money = Tron
          /\ run'[c].lock = IF Tron THEN "none" ELSE "approval"
          /\ run'[c].seen = rec.state
          /\ run'[c].lock = "approval" => LockFree("approval")
      BY <2>3, Began, StepNames
    <3>2. Locks(c)
      BY <2>1, <3>1 DEF Locks
    <3> QED BY <2>1, <2>3, <3>1, <3>2, EnterKeeps, StepNames
  <2> QED BY <1>2, <2>2, <2>3 DEF Approve
<1>3. CASE Ask(c)
  <2>1. /\ UNCHANGED <<rec, active, sends, prepared>> /\ run[c].at = "ask"
        /\ Goto(c, "commit") \/ Goto(c, "refuse")
    BY <1>3 DEF Ask, At, disk, world
  <2> QED BY <2>1, GotoKeeps, StepNames
<1>4. CASE Refuse(c)
  <2>1. /\ Section(c) /\ UNCHANGED <<active, sends, prepared>> /\ run[c].at \in Operating
        /\ \/ rec.state = "awaiting_approval" /\ Fail(c)
           \/ UNCHANGED rec /\ Done(c)
    BY <1>4, StepNames DEF Refuse, At, world
  <2> QED BY <1>1, <2>1, FailKeeps, DoneKeeps DEF Unattempted
<1>5. CASE Commit(c)
  <2>1. /\ Section(c) /\ UNCHANGED <<active, sends, prepared>> /\ run[c].at = "commit"
        /\ \/ /\ Stands(c) /\ UNCHANGED rec
              /\ run' = [run EXCEPT ![c] = [@ EXCEPT !.at = "start",
                                                     !.money = TRUE]]
           \/ Stands(c) /\ Fail(c)
           \/ Done(c) /\ UNCHANGED rec
    BY <1>5 DEF Commit, At, world
  <2>2. run[c].seen = "awaiting_approval" /\ run[c].at \in Operating
        /\ (~Tron => run[c].lock = "approval")
    BY <1>1, <2>1, StepNames DEF Fits, NextStep, At
  <2>3. CASE /\ Stands(c) /\ UNCHANGED rec
             /\ run' = [run EXCEPT ![c] = [@ EXCEPT !.at = "start", !.money = TRUE]]
    <3>1. /\ run' \in [Commands -> Run] /\ \A d \in Commands \ {c} : run'[d] = run[d]
          /\ run'[c].at = "start" /\ run'[c].money /\ run'[c].lock = run[c].lock
      BY <2>3, EnteredWriting
    <3>2. Locks(c)
      BY <2>1, <3>1 DEF Locks
    <3>3. rec'.state = "awaiting_approval"
      BY <2>2, <2>3 DEF Stands
    <3>4. Fits(c)'
      BY <2>2, <2>3, <3>1, <3>3, StepNames DEF Fits, NextStep, At, Tron
    <3> QED BY <1>1, <2>1, <2>3, <3>2, <3>4, StepKeeps DEF IInv, SendsFit
  <2>4. CASE Stands(c) /\ Fail(c)
    BY <2>1, <2>2, <2>4, FailKeeps DEF Stands, Unattempted
  <2>5. CASE Done(c) /\ UNCHANGED rec
    BY <1>1, <2>1, <2>5, DoneKeeps
  <2> QED BY <2>1, <2>3, <2>4, <2>5
<1>6. CASE Start(c)
  <2> DEFINE then == IF Tron THEN "seal" ELSE "recover"
  <2>1. /\ UNCHANGED <<active, sends, prepared>> /\ run[c].at = "start"
        /\ rec' = [rec EXCEPT !.state = "signing_started"]
        /\ run' = [run EXCEPT ![c] = [@ EXCEPT !.at = "follow", !.fresh = TRUE,
                                               !.then = then]]
    BY <1>6 DEF Start, At, world
  <2>2. /\ run[c].money /\ rec.state = "awaiting_approval"
        /\ ~Tron => run[c].lock = "approval"
    BY <1>1, <2>1, StepNames DEF Fits, NextStep, At
  <2>3. then \in Signing /\ then \in Steps
    BY StepNames DEF Signing
  <2> HIDE DEF then
  <2> DEFINE r == [run[c] EXCEPT !.at = "follow", !.fresh = TRUE, !.then = then]
  <2>4. /\ r \in Run /\ r.at = "follow" /\ r.money = run[c].money
        /\ r.lock = run[c].lock /\ r.then = then
    <3>1. run[c] \in Run /\ "follow" \in Steps
      BY StepNames DEF IInv, Typed
    <3> QED BY <2>3, <3>1 DEF Run
  <2>5. run' = [run EXCEPT ![c] = r] /\ run \in [Commands -> Run]
    BY <2>1 DEF IInv, Typed
  <2> HIDE DEF r
  <2>6. /\ run' \in [Commands -> Run] /\ \A d \in Commands \ {c} : run'[d] = run[d]
        /\ run'[c].at = "follow" /\ run'[c].money /\ run'[c].lock = run[c].lock
        /\ run'[c].then = then
    BY <2>2, <2>4, <2>5
  <2>7. /\ rec' \in [state : States, rail : {"none", "solana", "tron"}, revision : Revision]
        /\ rec'.state = "signing_started" /\ rec'.rail = rec.rail
    BY <2>1, Names DEF IInv, Typed
  <2>8. Locks(c) /\ Writes(c) /\ sends = 0
    BY <2>2, <2>6, <2>7 DEF Locks, Writes, IInv, SendsFit, Unattempted
  <2>9. "signing_started" \in Unsent /\ "send" \notin Signing /\ "inspect" \notin Signing
    BY DEF Unsent, Signing
  <2>10. Fits(c)'
    BY <2>2, <2>3, <2>6, <2>7, <2>9, StepNames DEF Fits, NextStep, At, Tron
  <2> QED BY <1>1, <2>1, <2>7, <2>8, <2>10, StepKeeps
<1> QED BY <1>2, <1>3, <1>4, <1>5, <1>6

(* The ledger follows, and the command goes on with the record it wrote.     *)
LEMMA FollowKeeps == ASSUME IInv, NEW c \in Commands, Follow(c) PROVE IInv'
<1>1. /\ Fits(c) /\ prepared \in Revision /\ run[c].at = "follow"
      /\ UNCHANGED <<rec, active, sends, prepared>>
  BY DEF Follow, At, world, IInv, Typed
<1>2. CASE run[c].then = "idle"
  <2>1. Done(c)
    BY <1>2 DEF Follow, Done
  <2> QED BY <1>1, <2>1, DoneKeeps
<1>3. CASE run[c].then # "idle"
  <2> DEFINE r == [run[c] EXCEPT !.at = run[c].then, !.then = "idle",
                                 !.money = Tron, !.seen = rec.state]
  <2>1. run' = [run EXCEPT ![c] = r]
    BY <1>3 DEF Follow
  <2>2. /\ run[c] \in Run /\ rec.state \in States
        /\ run[c].then \in Signing \cup {"send", "phase", "inspect"}
        /\ run[c].money
    BY <1>1, <1>3 DEF IInv, Typed, Fits
  <2>3. "inspect" \in Observing /\ run[c].then \in Operating
    BY <2>2, StepNames DEF Observing
  <2>4. /\ r \in Run /\ r.at = run[c].then /\ r.money = Tron /\ r.lock = run[c].lock
        /\ r.seen = rec.state
    BY <2>2, <2>3, StepNames DEF Run, Tron
  <2> HIDE DEF r
  <2>5. /\ run' \in [Commands -> Run] /\ \A d \in Commands \ {c} : run'[d] = run[d]
        /\ run'[c] = r
    BY <2>1, <2>4 DEF IInv, Typed
  <2>6. Locks(c)
    BY <2>2, <2>4, <2>5 DEF Locks
  <2>7. /\ run[c].then \in Observing => run[c].then = "inspect"
        /\ run[c].then \notin Asking \cup {"follow", "write", "start", "sealed"}
    BY <2>2, StepNames DEF Signing, Observing, Asking
  <2>8. Fits(c)'
    BY <1>1, <2>2, <2>3, <2>4, <2>5, <2>7 DEF Fits, NextStep, At, Tron
  <2> QED BY <1>1, <2>6, <2>8, StepKeeps DEF IInv, SendsFit
<1> QED BY <1>2, <1>3

-----------------------------------------------------------------------------
LEMMA SigningKeeps ==
  ASSUME IInv, NEW c \in Commands,
         \/ Recover(c) \/ Revalidate(c) \/ Unsealed(c) \/ Seal(c) \/ Sealed(c)
         \/ Recheck(c) \/ Unsendable(c) \/ Intend(c)
  PROVE  IInv'
<1>1. Fits(c) /\ prepared \in Revision
  BY DEF IInv, Typed
<1>2. run[c].at \in Signing /\ ~Moved(c) => rec.state \in Unsent
  BY <1>1 DEF Fits, Moved
<1>3. /\ Unsent \subseteq Unattempted
      /\ rec.state \in Unsent => sends = 0
      /\ "signed_not_submitted" \in Unsent
      /\ {"signed_not_submitted", "submitting"} \subseteq States \ {"none"}
      /\ "submitting" \notin Unattempted /\ "submitting" \notin Unsent
  BY Names DEF Unsent, Unattempted, IInv, SendsFit
<1>4. /\ {"recover", "revalidate", "unsealed", "seal", "recheck", "unsendable", "intend"} = Signing
      /\ Signing \subseteq Operating \ {"start", "sealed", "send", "inspect"}
      /\ Signing \subseteq Exclusive /\ Signing \cap (Asking \cup Observing) = {}
  BY StepNames DEF Signing, Observing
<1>5. ASSUME run[c].at \in Signing, NEW step \in Signing, Goto(c, step),
             UNCHANGED <<rec, active, sends, prepared>>
      PROVE  IInv'
  BY <1>1, <1>4, <1>5, GotoKeeps DEF Fits
<1>6. ASSUME run[c].at \in Signing, ~Moved(c), Section(c), Fail(c),
             UNCHANGED <<active, sends, prepared>>
      PROVE  IInv'
  <2>1. rec.state \in Unattempted
    BY <1>2, <1>3, <1>6
  <2>2. run[c].at \in Operating
    BY <1>4, <1>6
  <2> QED BY <1>6, <2>1, <2>2, FailKeeps
<1>7. ASSUME Done(c), UNCHANGED <<rec, active, sends, prepared>> PROVE IInv'
  BY <1>1, <1>7, DoneKeeps
<1>8. CASE Recover(c)
  <2>1. /\ Section(c) /\ UNCHANGED <<active, sends, prepared>> /\ run[c].at = "recover"
        /\ \/ Done(c) /\ UNCHANGED rec
           \/ ~Moved(c) /\ Move(c, "signed_not_submitted", "recheck")
           \/ Goto(c, "recheck") /\ UNCHANGED rec
           \/ Goto(c, "revalidate") /\ UNCHANGED rec
           \/ ~Moved(c) /\ Fail(c)
    BY <1>8 DEF Recover, At, world
  <2>2. CASE ~Moved(c) /\ Move(c, "signed_not_submitted", "recheck")
    <3>1. /\ rec.state \in Unsent /\ sends = 0 /\ rec.state # "submitting"
          /\ run[c].at \in Operating /\ run[c].at \in Exclusive
          /\ "recheck" \in Signing
      BY <1>2, <1>3, <1>4, <2>1, <2>2
    <3> QED BY <1>3, <2>1, <2>2, <3>1, MoveKeeps
  <2> QED BY <1>4, <1>5, <1>6, <1>7, <2>1, <2>2
<1>9. CASE Revalidate(c)
  <2>1. /\ UNCHANGED <<rec, active, sends, prepared>> /\ run[c].at = "revalidate"
        /\ Goto(c, "seal") \/ Goto(c, "unsealed")
    BY <1>9 DEF Revalidate, At, disk, world
  <2> QED BY <1>4, <1>5, <2>1
<1>10. CASE Unsealed(c)
  <2>1. /\ Section(c) /\ UNCHANGED <<active, sends, prepared>> /\ run[c].at = "unsealed"
        /\ (Done(c) /\ UNCHANGED rec) \/ (~Moved(c) /\ Fail(c))
    BY <1>10 DEF Unsealed, At, world
  <2> QED BY <1>4, <1>6, <1>7, <2>1
<1>11. CASE Seal(c)
  <2>1. /\ Section(c) /\ UNCHANGED <<active, sends, prepared>> /\ run[c].at = "seal"
        /\ \/ /\ ~Moved(c) /\ UNCHANGED rec
              /\ run' = [run EXCEPT ![c] = [@ EXCEPT !.at = "sealed",
                                                     !.money = TRUE]]
           \/ ~Moved(c) /\ Fail(c)
           \/ Done(c) /\ UNCHANGED rec
    BY <1>11 DEF Seal, At, world
  <2>2. CASE /\ ~Moved(c) /\ UNCHANGED rec
             /\ run' = [run EXCEPT ![c] = [@ EXCEPT !.at = "sealed",
                                                    !.money = TRUE]]
    <3>1. /\ run' \in [Commands -> Run] /\ \A d \in Commands \ {c} : run'[d] = run[d]
          /\ run'[c].at = "sealed" /\ run'[c].money /\ run'[c].lock = run[c].lock
      BY <2>2, EnteredWriting
    <3>2. Locks(c)
      BY <2>1, <3>1 DEF Locks
    <3>3. rec.state \in Unsent /\ rec.state # "none" /\ (~Tron => run[c].lock = "approval")
      BY <1>1, <1>2, <1>4, <2>1, <2>2 DEF Fits, NextStep, At, Unsent
    <3>4. Fits(c)'
      BY <2>2, <3>1, <3>3, StepNames DEF Fits, NextStep, At, Tron
    <3> QED BY <1>1, <2>1, <2>2, <3>2, <3>4, StepKeeps DEF IInv, SendsFit
  <2> QED BY <1>4, <1>6, <1>7, <2>1, <2>2
<1>12. CASE Sealed(c)
  <2>1. /\ Move(c, "signed_not_submitted", "intend") /\ run[c].at = "sealed"
        /\ UNCHANGED <<active, sends, prepared>>
    BY <1>12 DEF Sealed, At, world
  <2>2. run[c].money /\ rec.state \in Unsent
    BY <1>1, <2>1 DEF Fits
  <2>3. run[c].at \in Exclusive /\ run[c].at \in Operating
    BY <2>1, StepNames
  <2>4. sends = 0 /\ rec.state # "submitting" /\ "intend" \in Signing
    BY <1>3, <1>4, <2>2
  <2> QED BY <1>3, <2>1, <2>2, <2>3, <2>4, MoveKeeps
<1>13. CASE Recheck(c)
  <2>1. /\ UNCHANGED <<rec, active, sends, prepared>> /\ run[c].at = "recheck"
        /\ Goto(c, "intend") \/ Goto(c, "unsendable") \/ Done(c)
    BY <1>13 DEF Recheck, At, disk, world
  <2> QED BY <1>4, <1>5, <1>7, <2>1
<1>14. CASE Unsendable(c)
  <2>1. /\ Section(c) /\ UNCHANGED <<active, sends, prepared>> /\ run[c].at = "unsendable"
        /\ (Done(c) /\ UNCHANGED rec) \/ (~Moved(c) /\ Fail(c))
    BY <1>14 DEF Unsendable, At, world
  <2> QED BY <1>4, <1>6, <1>7, <2>1
<1>15. CASE Intend(c)
  <2>1. /\ Section(c) /\ UNCHANGED <<active, sends, prepared>> /\ run[c].at = "intend"
        /\ \/ Done(c) /\ UNCHANGED rec
           \/ ~Moved(c) /\ Move(c, "submitting", "send")
           \/ ~Moved(c) /\ Fail(c)
    BY <1>15 DEF Intend, At, world
  <2>2. CASE ~Moved(c) /\ Move(c, "submitting", "send")
    <3>1. /\ sends = 0 /\ rec.state # "submitting"
          /\ run[c].at \in Operating /\ run[c].at \in Exclusive
          /\ "send" \notin Signing
      BY <1>2, <1>3, <1>4, <2>1, <2>2
    <3> QED BY <1>3, <2>1, <2>2, <3>1, MoveKeeps
  <2> QED BY <1>4, <1>6, <1>7, <2>1, <2>2
<1> QED BY <1>8, <1>9, <1>10, <1>11, <1>12, <1>13, <1>14, <1>15

(* Two commands are never both about to send: on TRON each would hold the    *)
(* operation's lock, on Solana the approval's.                               *)
LEMMA OneSender ==
  ASSUME IInv, NEW c \in Commands, NEW d \in Commands \ {c}, run[c].at = "send"
  PROVE  NextStep(d) # "send"
<1>1. Fits(c) /\ Fits(d)
  BY DEF IInv
<1>2. /\ Tron => run[c].money
      /\ ~Tron => run[c].lock = "approval"
  BY <1>1, StepNames DEF Fits, NextStep, At
<1>3. NextStep(d) = "send" => /\ Tron => run[d].money
                              /\ ~Tron => run[d].lock = "approval"
  BY <1>1, StepNames DEF Fits, NextStep, At
<1> QED BY <1>2, <1>3 DEF IInv, LocksExclude

LEMMA SendingKeeps ==
  ASSUME IInv, NEW c \in Commands, Send(c) \/ Acknowledge(c)
  PROVE  IInv'
<1>1. Fits(c) /\ prepared \in Revision
  BY DEF IInv, Typed
<1>2. CASE Send(c)
  <2>1. /\ run[c].at = "send" /\ sends' = sends + 1
        /\ UNCHANGED <<rec, active, prepared>>
        /\ \E step \in {"bound", "lost"} : Goto(c, step)
    BY <1>2 DEF Send, At, disk
  <2>2. /\ rec.state = "submitting" /\ sends = 0 /\ rec.state # "none"
        /\ Tron => run[c].money
        /\ ~Tron => run[c].lock = "approval"
    BY <1>1, <2>1, StepNames DEF Fits, NextStep, At
  <2>3. /\ run' \in [Commands -> Run] /\ \A d \in Commands \ {c} : run'[d] = run[d]
        /\ run'[c].at \in {"bound", "lost"} /\ run'[c].money = Tron
        /\ run'[c].lock = run[c].lock
    <3>1. PICK step \in {"bound", "lost"} : Goto(c, step)
      BY <2>1
    <3>2. step \in Steps /\ Tron \in BOOLEAN
      BY <3>1, StepNames DEF Tron
    <3>3. run' = [run EXCEPT ![c] = [@ EXCEPT !.at = step, !.money = Tron]]
      BY <3>1 DEF Goto
    <3> HIDE DEF Tron
    <3> DEFINE r == [run[c] EXCEPT !.at = step, !.money = Tron]
    <3>4. run' = [run EXCEPT ![c] = r] /\ run \in [Commands -> Run]
      BY <3>3 DEF IInv, Typed
    <3>5. r \in Run /\ r.at = step /\ r.money = Tron /\ r.lock = run[c].lock
      BY <3>2, <3>4 DEF Run
    <3> HIDE DEF r
    <3> QED BY <3>1, <3>4, <3>5
  <2>4. LocksExclude'
    <3>1. Locks(c)
      BY <2>2, <2>3 DEF Locks
    <3> QED BY <3>1, LocksKeep DEF IInv
  <2>5. SendsFit'
    BY <2>1, <2>2, Names DEF SendsFit
  <2>6. Fits(c)'
    BY <2>1, <2>2, <2>3, StepNames DEF Fits, NextStep, At, Tron
  <2>7. ASSUME NEW d \in Commands \ {c} PROVE Fits(d)'
    <3>1. Fits(d) /\ NextStep(d) # "send"
      BY <2>1, OneSender DEF IInv
    <3> QED BY <2>1, <2>3, <3>1 DEF Fits, NextStep, At, Tron
  <2>8. Typed'
    BY <2>1, <2>3 DEF IInv, Typed
  <2> QED BY <2>4, <2>5, <2>6, <2>7, <2>8 DEF IInv
<1>3. CASE Acknowledge(c)
  <2>1. /\ Section(c) /\ UNCHANGED <<active, sends, prepared>>
        /\ run[c].at \in {"bound", "lost"}
        /\ \/ Done(c) /\ UNCHANGED rec
           \/ Move(c, "submitted_pending", "phase")
           \/ Move(c, "unknown_finality", "idle")
    BY <1>3 DEF Acknowledge, world
  <2>2. /\ run[c].at \in Operating /\ run[c].at \in Exclusive
        /\ "phase" \notin Signing /\ "idle" \notin Signing /\ "idle" \notin Exclusive
    BY <2>1, StepNames
  <2>3. CASE Done(c) /\ UNCHANGED rec
    BY <1>1, <2>1, <2>3, DoneKeeps
  <2>4. CASE Move(c, "submitted_pending", "phase")
    BY <2>1, <2>2, <2>4, Names, MoveKeeps
  <2>5. CASE Move(c, "unknown_finality", "idle")
    BY <2>1, <2>2, <2>5, Names, MoveKeeps
  <2> QED BY <2>1, <2>3, <2>4, <2>5
<1> QED BY <1>2, <1>3

LEMMA ResumeKeeps ==
  ASSUME IInv, NEW c \in Commands,
         \/ Resume(c) \/ Claim(c) \/ Phase(c) \/ InspectFinds(c) \/ InspectNothing(c)
         \/ Conclude(c)
  PROVE  IInv'
<1>1. Fits(c) /\ prepared \in Revision /\ active \in Revision /\ rec.state \in States
  BY DEF IInv, Typed
<1>2. /\ {"inspect", "completed", "failed_confirmed_revert"} \subseteq
           Observing \ (Exclusive \cup Signing \cup Asking)
      /\ "phase" \in Operating /\ "recover" \in Signing \cap Operating
      /\ "recover" \notin {"send", "start", "sealed"} \cup Asking \cup Observing
      /\ States \ (Terminal \cup {"none", "awaiting_approval", "submitting"} \cup Unsent)
           \subseteq {"submitted_pending", "unknown_finality"}
      /\ Observing \cap {"send", "start", "sealed"} = {}
  BY StepNames DEF Observing, Signing, States, Sent
<1>3. ASSUME Done(c), UNCHANGED <<rec, active, sends, prepared>> PROVE IInv'
  BY <1>1, <1>3, DoneKeeps
<1>4. CASE Resume(c)
  <2>1. /\ Section(c) /\ rec.state # "none" /\ UNCHANGED <<rec, active, sends, prepared>>
        /\ \/ UNCHANGED run
           \/ ~Tron /\ Begin(c, "none", "claim")
           \/ Tron /\ Begin(c, "none", "phase")
           \/ /\ Begin(c, "none", "inspect")
              /\ rec.state \in {"submitted_pending", "unknown_finality"}
    BY <1>1, <1>4 DEF Resume, world, States, Sent
  <2>2. CASE UNCHANGED run
    BY <1>1, <2>1, <2>2, StutterKeeps
  <2>3. ASSUME NEW step \in {"claim", "phase", "inspect"}, Begin(c, "none", step),
               step = "phase" => Tron,
               step = "inspect" => rec.state \in {"submitted_pending", "unknown_finality"}
        PROVE  IInv'
    <3>1. step \in Steps
      BY <1>2, <2>3, StepNames
    <3>2. /\ run' \in [Commands -> Run] /\ \A d \in Commands \ {c} : run'[d] = run[d]
          /\ run'[c].at = step /\ run'[c].lock = "none" /\ run'[c].money = Tron
          /\ run'[c].seen = rec.state
      BY <2>3, <3>1, Began
    <3>3. Locks(c)
      BY <2>1, <3>2 DEF Locks
    <3>4. step \in Operating \ ({"send", "start", "sealed"} \cup Asking \cup Signing)
          /\ (step \in Exclusive => step = "phase")
          /\ (step \in Observing => step = "inspect")
      BY <1>2, <2>3, StepNames
    <3> QED BY <2>1, <2>3, <3>2, <3>3, <3>4, EnterKeeps
  <2> QED BY <2>1, <2>2, <2>3
<1>5. CASE Claim(c)
  <2>1. /\ UNCHANGED <<rec, active, sends, prepared>> /\ run[c].at = "claim"
        /\ LockFree("approval")
        /\ run' = [run EXCEPT ![c] = [@ EXCEPT !.at = "phase",
                                               !.lock = "approval"]]
    BY <1>5 DEF Claim, At, disk, world
  <2>2. /\ run' \in [Commands -> Run] /\ \A d \in Commands \ {c} : run'[d] = run[d]
        /\ run'[c].at = "phase" /\ run'[c].lock = "approval" /\ run'[c].money = run[c].money
    <3> DEFINE r == [run[c] EXCEPT !.at = "phase", !.lock = "approval"]
    <3>1. run' = [run EXCEPT ![c] = r] /\ run \in [Commands -> Run]
      BY <2>1 DEF IInv, Typed
    <3>2. "phase" \in Steps
      BY StepNames
    <3>3. r \in Run /\ r.at = "phase" /\ r.lock = "approval" /\ r.money = run[c].money
      BY <3>1, <3>2 DEF Run
    <3> HIDE DEF r
    <3> QED BY <3>1, <3>3
  <2>3. Locks(c)
    BY <2>1, <2>2 DEF Locks
  <2>4. rec.state # "none" /\ (Tron => run[c].money)
    BY <1>1, <2>1, StepNames DEF Fits
  <2> QED BY <2>1, <2>2, <2>3, <2>4, EnterKeeps, StepNames
<1>6. CASE Phase(c)
  <2>1. /\ Section(c) /\ UNCHANGED <<active, sends, prepared>> /\ run[c].at = "phase"
        /\ \/ Done(c) /\ UNCHANGED rec
           \/ /\ rec.state \in Unsent /\ UNCHANGED rec
              /\ run' = [run EXCEPT ![c] = [@ EXCEPT !.at = "recover",
                                                     !.seen = rec.state, !.money = Tron]]
           \/ Move(c, "unknown_finality", "inspect")
           \/ /\ rec.state \notin Terminal \cup {"awaiting_approval", "submitting"} \cup Unsent
              /\ UNCHANGED rec
              /\ run' = [run EXCEPT ![c] = [@ EXCEPT !.at = "inspect",
                                                     !.seen = rec.state, !.money = Tron]]
    BY <1>6 DEF Phase, At, world
  <2>2. /\ rec.state # "none" /\ run[c].at \in Exclusive /\ run[c].at \in Operating
        /\ Tron => run[c].money
        /\ ~Tron => run[c].lock = "approval"
    BY <1>1, <2>1, StepNames DEF Fits, NextStep, At
  <2>3. CASE Move(c, "unknown_finality", "inspect")
    BY <1>2, <2>1, <2>2, <2>3, Names, MoveKeeps
  <2>4. ASSUME NEW step \in {"recover", "inspect"}, UNCHANGED rec,
               run' = [run EXCEPT ![c] = [@ EXCEPT !.at = step,
                                                   !.seen = rec.state, !.money = Tron]],
               step = "recover" => rec.state \in Unsent,
               step = "inspect" => rec.state \in {"submitted_pending", "unknown_finality"}
        PROVE  IInv'
    <3> DEFINE r == [run[c] EXCEPT !.at = step, !.seen = rec.state, !.money = Tron]
    <3>1. step \in Steps /\ Tron \in BOOLEAN
      BY <1>2, <2>4, StepNames DEF Tron
    <3>2. /\ r \in Run /\ r.at = step /\ r.money = Tron /\ r.lock = run[c].lock
          /\ r.seen = rec.state
      BY <1>1, <3>1 DEF Run, IInv, Typed
    <3>3. run' = [run EXCEPT ![c] = r]
      BY <2>4 DEF IInv, Typed, Run
    <3> HIDE DEF r
    <3>4. /\ run' \in [Commands -> Run] /\ \A d \in Commands \ {c} : run'[d] = run[d]
          /\ run'[c] = r
      BY <3>2, <3>3 DEF IInv, Typed
    <3>5. Locks(c)
      BY <2>1, <2>2, <3>2, <3>4 DEF Locks
    <3>6. /\ step \in Operating \ ({"send", "start", "sealed"} \cup Asking)
          /\ step \in Signing => step = "recover"
          /\ step \in Observing => step = "inspect"
      BY <1>2, <2>4, StepNames
    <3> QED BY <2>1, <2>2, <2>4, <3>2, <3>4, <3>5, <3>6, EnterKeeps
  <2>5. rec.state \notin Terminal \cup {"awaiting_approval", "submitting"} \cup Unsent
          => rec.state \in {"submitted_pending", "unknown_finality"}
    BY <1>1, <1>2, <2>2
  <2> QED BY <1>3, <2>1, <2>3, <2>4, <2>5
<1>7. CASE InspectFinds(c)
  <2>1. /\ UNCHANGED <<rec, active, sends, prepared>> /\ run[c].at = "inspect"
        /\ \E step \in {"completed", "failed_confirmed_revert"} : Goto(c, step)
    BY <1>7 DEF InspectFinds, Evidence, At, disk, world
  <2>2. run[c].seen \in {"submitted_pending", "unknown_finality"} /\ run[c].at \in Operating
    BY <1>1, <1>2, <2>1, StepNames DEF Fits
  <2>3. PICK step \in {"completed", "failed_confirmed_revert"} : Goto(c, step)
    BY <2>1
  <2>4. step \in Operating \ ({"send", "start", "sealed"} \cup Exclusive \cup Asking \cup Signing)
    BY <1>2, <2>3, StepNames
  <2> QED BY <2>1, <2>2, <2>3, <2>4, GotoKeeps
<1>8. CASE InspectNothing(c)
  BY <1>3, <1>8 DEF InspectNothing, disk, world
<1>9. CASE Conclude(c)
  <2>1. /\ Section(c) /\ UNCHANGED <<active, sends, prepared>>
        /\ run[c].at \in {"completed", "failed_confirmed_revert"}
        /\ \/ Done(c) /\ UNCHANGED rec
           \/ rec.state = run[c].seen /\ Move(c, run[c].at, "idle")
    BY <1>9 DEF Conclude, Moved, world
  <2>2. /\ run[c].seen \in {"submitted_pending", "unknown_finality"} /\ run[c].at \in Operating
        /\ run[c].at \in States \ {"none"} /\ run[c].at \notin Unattempted
        /\ "idle" \notin Signing /\ "idle" \notin Exclusive
    BY <1>1, <1>2, <2>1, StepNames, Names DEF Fits
  <2>3. CASE rec.state = run[c].seen /\ Move(c, run[c].at, "idle")
    BY <2>1, <2>2, <2>3, MoveKeeps
  <2> QED BY <1>3, <2>1, <2>3
<1> QED BY <1>4, <1>5, <1>6, <1>7, <1>8, <1>9

LEMMA AbandonKeeps ==
  ASSUME IInv, NEW c \in Commands,
         Abandon(c) \/ Height(c) \/ Status(c) \/ StatusMissing(c) \/ Consent(c) \/ Release(c)
  PROVE  IInv'
<1>1. Fits(c) /\ prepared \in Revision /\ rec.state \in States
  BY DEF IInv, Typed
<1>2. /\ {"height", "status", "consent", "release"} \subseteq Observing
      /\ Observing \cap ({"send", "start", "sealed"} \cup Exclusive \cup Asking \cup Signing) = {}
      /\ Observing \subseteq Operating
  BY StepNames DEF Observing
<1>3. ASSUME Done(c), UNCHANGED <<rec, active, sends, prepared>> PROVE IInv'
  BY <1>1, <1>3, DoneKeeps
<1>4. ASSUME run[c].at \in Observing, NEW step \in Observing, Goto(c, step),
             UNCHANGED <<rec, active, sends, prepared>>
      PROVE  IInv'
  <2>1. run[c].seen \in {"submitted_pending", "unknown_finality"} /\ run[c].at \in Operating
    BY <1>1, <1>2, <1>4 DEF Fits
  <2>2. step \in Operating \ ({"send", "start", "sealed"} \cup Exclusive \cup Asking \cup Signing)
    BY <1>2, <1>4
  <2> QED BY <1>4, <2>1, <2>2, GotoKeeps
<1>5. CASE Abandon(c)
  <2>1. /\ UNCHANGED <<rec, active, sends, prepared>> /\ Section(c)
        /\ rec.state \in {"submitted_pending", "unknown_finality"}
        /\ Begin(c, IF Tron THEN "none" ELSE "abandon", "height")
    BY <1>5 DEF Abandon, MayAbandon, disk, world
  <2>2. "height" \in Steps
    BY <1>2, StepNames
  <2>3. /\ run' \in [Commands -> Run] /\ \A d \in Commands \ {c} : run'[d] = run[d]
        /\ run'[c].at = "height" /\ run'[c].lock \in {"none", "abandon"}
        /\ run'[c].money = Tron /\ run'[c].seen = rec.state
    BY <2>1, <2>2, Began
  <2>4. Locks(c)
    BY <2>1, <2>3 DEF Locks
  <2> QED BY <1>2, <2>1, <2>3, <2>4, EnterKeeps
<1>6. CASE Height(c)
  BY <1>2, <1>3, <1>4, <1>6 DEF Height, At, disk, world
<1>7. CASE Status(c)
  BY <1>2, <1>3, <1>4, <1>7 DEF Status, At, disk, world
<1>8. CASE StatusMissing(c)
  BY <1>2, <1>4, <1>8 DEF StatusMissing, At, disk
<1>9. CASE Consent(c)
  BY <1>2, <1>4, <1>9 DEF Consent, At, disk, world
<1>10. CASE Release(c)
  <2>1. /\ Section(c) /\ UNCHANGED <<active, sends, prepared>> /\ Done(c)
        /\ run[c].at = "release"
        /\ \/ UNCHANGED rec
           \/ /\ rec.state = run[c].seen
              /\ rec' = [rec EXCEPT !.state = "abandoned_unknown"]
    BY <1>10 DEF Release, Moved, At, world
  <2>2. CASE UNCHANGED rec
    BY <1>3, <2>1, <2>2
  <2>3. CASE rec.state = run[c].seen /\ rec' = [rec EXCEPT !.state = "abandoned_unknown"]
    <3>1. rec.state \in {"submitted_pending", "unknown_finality"}
      BY <1>1, <1>2, <2>1, <2>3 DEF Fits
    <3>2. /\ run' \in [Commands -> Run] /\ \A d \in Commands \ {c} : run'[d] = run[d]
          /\ run'[c] = Idle
      BY <2>1, Resting DEF Done, IInv, Typed
    <3>3. Locks(c)
      BY <3>2, Resting DEF Locks
    <3>4. /\ rec' \in [state : States, rail : {"none", "solana", "tron"}, revision : Revision]
          /\ rec'.state = "abandoned_unknown" /\ rec'.rail = rec.rail
      BY <2>3, Names DEF IInv, Typed
    <3>5. Writes(c)
      BY <2>1, <3>1, <3>4 DEF Writes
    <3>6. Fits(c)'
      BY <3>2, Resting, StepNames DEF Fits, NextStep, At
    <3> QED BY <1>1, <2>1, <3>3, <3>4, <3>5, <3>6, Names, StepKeeps
  <2> QED BY <2>1, <2>2, <2>3
<1> QED BY <1>5, <1>6, <1>7, <1>8, <1>9, <1>10

-----------------------------------------------------------------------------
LEMMA Initially == Init => IInv
<1> SUFFICES ASSUME Init PROVE IInv
  OBVIOUS
<1>1. \A c \in Commands : run[c] = Idle
  BY DEF Init
<1>2. "none" \in States /\ "none" \in Revision /\ active \in Revision
  BY DEF States, Revision, Init
<1>3. Typed
  BY <1>2, Resting DEF Init, Typed
<1>4. LocksExclude
  BY <1>1, Resting DEF LocksExclude
<1>5. SendsFit
  BY DEF Init, SendsFit
<1>6. \A c \in Commands : Fits(c)
  BY <1>1, Resting, StepNames DEF Fits, NextStep, At
<1> QED BY <1>3, <1>4, <1>5, <1>6 DEF IInv

LEMMA NextKeeps == IInv /\ [Next]_vars => IInv'
<1> SUFFICES ASSUME IInv, [Next]_vars PROVE IInv'
  OBVIOUS
<1>1. prepared \in Revision /\ active \in Revision
  BY DEF IInv, Typed
<1>2. ASSUME NEW c \in Commands, Owner(c) PROVE IInv'
  BY <1>2, PrepareKeeps, ApproveKeeps, ResumeKeeps, AbandonKeeps DEF Owner
<1>3. ASSUME NEW c \in Commands, Step(c) PROVE IInv'
  BY <1>3, PrepareKeeps, ApproveKeeps, FollowKeeps, SigningKeeps, SendingKeeps,
     ResumeKeeps, AbandonKeeps DEF Step
<1>4. ASSUME NEW c \in Commands, Stop(c) PROVE IInv'
  BY <1>1, <1>4, DoneKeeps DEF Stop, disk, world
<1>5. ASSUME Activate PROVE IInv'
  BY <1>1, <1>5, StutterKeeps DEF Activate, disk
<1>6. ASSUME Expire \/ Land \/ Fork \/ Finalize \/ CloseWindow PROVE IInv'
  BY <1>1, <1>6, StutterKeeps DEF Expire, Land, Fork, Finalize, CloseWindow, disk
<1>7. ASSUME UNCHANGED vars PROVE IInv'
  BY <1>1, <1>7, StutterKeeps DEF vars, disk, world
<1> QED BY <1>2, <1>3, <1>4, <1>5, <1>6, <1>7 DEF Next

(* However many processes approve, resume and abandon a transfer at once,    *)
(* wherever they stop, and whatever becomes of the policy and the chain: its *)
(* bytes are submitted once at most, and never once the record says that it  *)
(* failed before its effect (executeLocalSolanaClaimed, firstLocalSubmit).   *)
THEOREM BytesLeaveOnce == Spec => []SubmittedOnce
<1>1. IInv => SubmittedOnce
  BY DEF IInv, SendsFit, SubmittedOnce, Typed, Unattempted
<1> QED BY Initially, NextKeeps, <1>1, PTL DEF Spec

(* Only the commit of a Solana prepare writes the first record of a Solana   *)
(* transfer; every other write leaves the rail of the record alone.          *)
LEMMA MoveKeepsRail ==
  ASSUME Typed, NEW c, NEW state, NEW then, Move(c, state, then)
  PROVE  rec'.rail = rec.rail
BY DEF Move, Typed

LEMMA RailIsKept ==
  ASSUME Typed, NEW c \in Commands, Owner(c) \/ Step(c) \/ Stop(c)
  PROVE  rec'.rail = rec.rail \/ Freeze(c) \/ rec'.rail = "tron"
<1>1. UNCHANGED rec => rec'.rail = rec.rail
  OBVIOUS
<1>2. CASE Owner(c)
  BY <1>1, <1>2 DEF Owner, Stage, Replay, PrepareTron, Approve, Resume, Abandon, disk
<1>3. CASE Step(c)
  <2>1. CASE \/ Follow(c) \/ ReadChain(c) \/ DropPrepareClaim(c) \/ Ask(c) \/ Revalidate(c)
             \/ Recheck(c) \/ Send(c) \/ Claim(c) \/ InspectFinds(c) \/ InspectNothing(c)
             \/ Height(c) \/ Status(c) \/ StatusMissing(c) \/ Consent(c)
    BY <1>1, <2>1 DEF Follow, ReadChain, DropPrepareClaim, Ask, Revalidate, Recheck, Send,
       Claim, InspectFinds, InspectNothing, Height, Status, StatusMissing, Consent, disk
  <2>2. CASE Freeze(c)
    BY <2>2
  <2>3. CASE FreezeTron(c)
    BY <1>1, <2>3 DEF FreezeTron, New
  <2>4. CASE \/ Refuse(c) \/ Commit(c) \/ Recover(c) \/ Unsealed(c) \/ Seal(c) \/ Sealed(c)
             \/ Unsendable(c) \/ Intend(c) \/ Acknowledge(c) \/ Phase(c) \/ Conclude(c)
    <3>1. UNCHANGED rec \/ \E state, then : Move(c, state, then)
      BY <2>4 DEF Refuse, Commit, Recover, Unsealed, Seal, Sealed, Unsendable, Intend,
         Acknowledge, Phase, Conclude, Fail
    <3> QED BY <1>1, <3>1, MoveKeepsRail
  <2>5. CASE Start(c) \/ Release(c)
    BY <2>5 DEF Start, Release, Typed
  <2> QED BY <1>3, <2>1, <2>2, <2>3, <2>4, <2>5 DEF Step
<1>4. CASE Stop(c)
  BY <1>1, <1>4 DEF Stop, disk
<1> QED BY <1>2, <1>3, <1>4

(* Whatever the owner activates while a prepare reads the chain, and         *)
(* whatever claim an earlier prepare left: the first record of a Solana      *)
(* transfer bears the revision that is active when it is written             *)
(* (prepareLocalSolana).                                                     *)
THEOREM SolanaIsFrozenUnderActivePolicy == Spec => FrozenUnderActivePolicy
<1>1. IInv /\ [Next]_vars =>
        [rec.state = "none" /\ rec'.rail = "solana" => rec'.revision = active]_vars
  <2> SUFFICES ASSUME IInv, Next, rec.state = "none", rec'.rail = "solana"
               PROVE  rec'.revision = active
    BY DEF IInv
  <2>1. rec.rail = "none" /\ Typed
    BY DEF IInv, SendsFit
  <2>2. rec' # rec
    BY <2>1
  <2>3. PICK c \in Commands : Owner(c) \/ Step(c) \/ Stop(c)
    BY <2>2 DEF Next, Activate, Expire, Land, Fork, Finalize, CloseWindow, disk
  <2>4. Freeze(c)
    BY <2>1, <2>3, RailIsKept
  <2> QED BY <2>2, <2>4 DEF Freeze, New
<1> QED BY Initially, NextKeeps, <1>1, PTL DEF Spec, FrozenUnderActivePolicy

-----------------------------------------------------------------------------
(* What the record and the ledger say of the chain.                          *)
Pending == {"reserved", "submitted", "unknown_finality"}
LedgerFits ==
  /\ usage \in UsageStates
  /\ tx \in {"none", "out", "success", "revert", "final_success", "final_revert"}
  /\ rec.state \in {"none", "awaiting_approval"} => usage \in {"none", "reserved"}
  /\ rec.state \notin {"none", "awaiting_approval", "failed_before_effect"} => usage # "none"
  /\ usage = "finalized" => tx = "final_success"
  /\ usage = "failed_confirmed_revert" => tx = "final_revert"
  /\ usage = "failed_before_effect" => rec.state = "failed_before_effect"
  /\ tx # "none" => sends > 0

(* What a command has seen of the chain, or reserved, when it is about to    *)
(* write an outcome, or the start of signing.                                *)
Seen(c) ==
  /\ run[c].at = "start" => usage = "reserved"
  /\ run[c].at = "completed" => tx = "final_success"
  /\ run[c].at = "failed_confirmed_revert" => tx = "final_revert"
  /\ run[c].at = "status" => window = "closed"
  /\ run[c].at \in {"consent", "release"} /\ ~gap =>
       tx \in {"none", "out"} /\ window = "closed"

ChainFits == LedgerFits /\ OutcomeIsProven /\ \A c \in Commands : Seen(c)

(* The record only moves on, from the states that the code moves it from.    *)
Advance(c) ==
  \/ rec' = rec
  \/ rec.state = "none" /\ rec'.state = "awaiting_approval"
  \/ /\ rec.state \in {"awaiting_approval"} \cup Unsent
     /\ rec'.state = "failed_before_effect"
  \/ /\ run[c].at = "start" /\ rec.state = "awaiting_approval"
     /\ rec'.state = "signing_started"
  \/ rec.state \in Unsent /\ rec'.state \in {"signed_not_submitted", "submitting"}
  \/ /\ rec.state = "submitting" /\ rec'.state \in {"submitted_pending", "unknown_finality"}
     /\ run[c].at \in {"bound", "lost"} \/ usage' = Followed
  \/ /\ rec.state \in {"submitted_pending", "unknown_finality"}
     /\ \/ /\ run[c].at \in {"completed", "failed_confirmed_revert"}
           /\ rec'.state = run[c].at
        \/ run[c].at = "release" /\ rec'.state = "abandoned_unknown"

LEMMA Moves ==
  ASSUME Typed, NEW c \in Commands, NEW state, NEW then, Move(c, state, then)
  PROVE  /\ rec'.state = state
         /\ run'[c].at = "follow" /\ \A d \in Commands \ {c} : run'[d] = run[d]
<1>1. rec'.state = state
  BY DEF Move, Typed
<1> DEFINE r == [run[c] EXCEPT !.at = "follow", !.then = then, !.money = TRUE]
<1>2. run' = [run EXCEPT ![c] = r] /\ run \in [Commands -> Run]
  BY DEF Move, Typed
<1>3. r.at = "follow"
  BY <1>2 DEF Run
<1> HIDE DEF r
<1> QED BY <1>1, <1>2, <1>3

LEMMA Advances ==
  ASSUME IInv, NEW c \in Commands, Owner(c) \/ Step(c) \/ Stop(c)
  PROVE  Advance(c)
<1>1. UNCHANGED rec => Advance(c)
  BY DEF Advance
<1>2. Typed /\ Fits(c)
  BY DEF IInv
<1>3. CASE Owner(c) \/ Stop(c)
  BY <1>1, <1>3 DEF Owner, Stage, Replay, PrepareTron, Approve, Resume, Abandon, Stop, disk
<1>4. CASE \/ Follow(c) \/ ReadChain(c) \/ DropPrepareClaim(c) \/ Ask(c) \/ Revalidate(c)
           \/ Recheck(c) \/ Send(c) \/ Claim(c) \/ InspectFinds(c) \/ InspectNothing(c)
           \/ Height(c) \/ Status(c) \/ StatusMissing(c) \/ Consent(c)
  BY <1>1, <1>4 DEF Follow, ReadChain, DropPrepareClaim, Ask, Revalidate, Recheck, Send,
     Claim, InspectFinds, InspectNothing, Height, Status, StatusMissing, Consent, disk
<1>5. CASE Freeze(c) \/ FreezeTron(c)
  <2>1. run[c].at = "write" => rec.state = "none"
    BY <1>2 DEF Fits
  <2>2. \A rail, revision : New(rail, revision).state = "awaiting_approval"
    BY DEF New
  <2> QED BY <1>1, <1>5, <2>1, <2>2 DEF Freeze, FreezeTron, At, Advance
<1>6. ASSUME rec.state \in {"awaiting_approval"} \cup Unsent, Fail(c) PROVE Advance(c)
  BY <1>2, <1>6, Moves DEF Fail, Advance
<1>7. CASE Refuse(c) \/ Commit(c)
  <2>1. CASE UNCHANGED rec
    BY <1>1, <2>1
  <2>2. CASE Fail(c)
    <3>1. run[c].at \in Asking => run[c].seen = "awaiting_approval"
      BY <1>2 DEF Fits
    <3>2. rec.state = "awaiting_approval" \/ rec' = rec
      BY <1>7, <3>1 DEF Refuse, Commit, Stands, At, Asking
    <3> QED BY <1>1, <1>6, <2>2, <3>2
  <2> QED BY <1>7, <2>1, <2>2 DEF Refuse, Commit
<1>8. run[c].at \in Signing => run[c].seen \in Unsent
  BY <1>2 DEF Fits
<1>9. CASE Recover(c) \/ Unsealed(c) \/ Seal(c) \/ Unsendable(c) \/ Intend(c)
  <2>1. run[c].at \in Signing /\ run[c].seen \in Unsent
    BY <1>8, <1>9 DEF Recover, Unsealed, Seal, Unsendable, Intend, At, Signing
  <2>2. \/ UNCHANGED rec
        \/ /\ rec.state = run[c].seen
           /\ \/ Fail(c) \/ Move(c, "signed_not_submitted", "recheck")
              \/ Move(c, "submitting", "send")
    BY <1>9 DEF Recover, Unsealed, Seal, Unsendable, Intend, Moved
  <2>3. ASSUME NEW state \in {"signed_not_submitted", "submitting"}, NEW then,
               rec.state = run[c].seen, Move(c, state, then)
        PROVE  Advance(c)
    BY <1>2, <2>1, <2>3, Moves DEF Advance
  <2> QED BY <1>1, <1>6, <2>1, <2>2, <2>3
<1>10. CASE Start(c)
  BY <1>2, <1>10 DEF Start, At, Fits, Typed, Advance
<1>11. CASE Sealed(c)
  <2>1. rec.state \in Unsent
    BY <1>2, <1>11 DEF Sealed, At, Fits
  <2> QED BY <1>2, <1>11, <2>1, Moves DEF Sealed, Advance
<1>12. CASE Acknowledge(c)
  BY <1>1, <1>2, <1>12, Moves DEF Acknowledge, At, Advance
<1>13. CASE Phase(c)
  BY <1>1, <1>2, <1>13, Moves DEF Phase, Advance
<1>14. CASE Conclude(c) \/ Release(c)
  <2>1. run[c].at \in Observing => run[c].seen \in {"submitted_pending", "unknown_finality"}
    BY <1>2 DEF Fits
  <2>2. run[c].at \in {"completed", "failed_confirmed_revert", "release"}
        /\ run[c].seen \in {"submitted_pending", "unknown_finality"}
    BY <1>14, <2>1 DEF Conclude, Release, At, Observing
  <2>3. CASE Conclude(c)
    BY <1>1, <1>2, <2>2, <2>3, Moves DEF Conclude, Moved, Advance
  <2>4. CASE Release(c)
    BY <1>1, <1>2, <2>2, <2>4 DEF Release, Moved, At, Typed, Advance
  <2> QED BY <1>14, <2>3, <2>4
<1> QED BY <1>3, <1>4, <1>5, <1>7, <1>9, <1>10, <1>11, <1>12, <1>13, <1>14 DEF Step

(* Where a command may come to stand, and with what in hand.                 *)
Posting == {"send", "bound", "lost"}
Judging == {"start", "completed", "failed_confirmed_revert", "status", "consent", "release"}
             \cup Posting
Turn(c) ==
  /\ \A d \in Commands \ {c} : run'[d] = run[d]
  /\ \/ run'[c].at \notin Judging
     \/ /\ run'[c].at = "start" /\ rec.state = "awaiting_approval" /\ usage' = "reserved"
     \/ run'[c].at \in Evidence
     \/ run'[c].at = "status" /\ window = "closed"
     \/ /\ run'[c].at = "consent" /\ run[c].at = "status"
        /\ tx \in {"none", "out"} \/ gap'
     \/ run'[c].at = "release" /\ run[c].at = "consent"
     \/ run'[c].at = "send" /\ rec.state = "submitting" /\ usage' = Followed
     \/ run'[c].at \in Posting /\ run[c].at = "send" /\ usage' = usage

(* Of a step of a command, only the send moves the chain.                    *)
Chained ==
  /\ window' = window /\ (gap => gap')
  /\ tx' = tx \/ (tx = "none" /\ tx' = "out" /\ sends' > 0)
  /\ sends > 0 => sends' > 0

(* What a command makes of the ledger, and when.                             *)
Books(c) ==
  \/ usage' = usage
  \/ rec' = rec /\ rec.state = "awaiting_approval" /\ usage' = "reserved"
  \/ usage' = Followed /\ (Section(c) \/ run[c].money)

LEMMA Sets ==
  ASSUME Typed, NEW c \in Commands, NEW r, run' = [run EXCEPT ![c] = r]
  PROVE  run'[c] = r /\ \A d \in Commands \ {c} : run'[d] = run[d]
BY DEF Typed

LEMMA Ends ==
  ASSUME Typed, NEW c \in Commands, Done(c) \/ (run[c] = Idle /\ UNCHANGED run)
  PROVE  run'[c].at \notin Judging /\ \A d \in Commands \ {c} : run'[d] = run[d]
BY Sets, Resting DEF Done, Judging, Posting

LEMMA Goes ==
  ASSUME Typed, NEW c \in Commands, NEW step,
         Goto(c, step) \/ run' = [run EXCEPT ![c].at = step]
  PROVE  run'[c].at = step /\ \A d \in Commands \ {c} : run'[d] = run[d]
<1>1. CASE Goto(c, step)
  <2> DEFINE r == [run[c] EXCEPT !.at = step, !.money = Tron]
  <2>1. run' = [run EXCEPT ![c] = r] /\ run \in [Commands -> Run]
    BY <1>1 DEF Goto, Typed
  <2>2. r.at = step
    BY <2>1 DEF Run
  <2> HIDE DEF r
  <2> QED BY <2>1, <2>2
<1>2. CASE run' = [run EXCEPT ![c].at = step]
  <2> DEFINE r == [run[c] EXCEPT !.at = step]
  <2>1. run' = [run EXCEPT ![c] = r] /\ run \in [Commands -> Run]
    BY <1>2 DEF Typed
  <2>2. r.at = step
    BY <2>1 DEF Run
  <2> HIDE DEF r
  <2> QED BY <2>1, <2>2
<1> QED BY <1>1, <1>2

LEMMA Begins ==
  ASSUME Typed, NEW c \in Commands, NEW lock, NEW step, Begin(c, lock, step)
  PROVE  run'[c].at = step /\ \A d \in Commands \ {c} : run'[d] = run[d]
<1> DEFINE r == [Idle EXCEPT !.at = step, !.lock = lock, !.money = Tron, !.seen = rec.state]
<1>1. r.at = step
  BY DEF Idle
<1>2. run' = [run EXCEPT ![c] = r]
  BY DEF Begin
<1> HIDE DEF r
<1> QED BY <1>1, <1>2, Sets

LEMMA Turns ==
  ASSUME IInv, NEW c \in Commands, Owner(c) \/ Step(c) \/ Stop(c)
  PROVE  Turn(c)
<1>1. Typed /\ Fits(c)
  BY DEF IInv
<1>2. ASSUME NEW r, run' = [run EXCEPT ![c] = r], r.at \notin Judging PROVE Turn(c)
  BY <1>1, <1>2, Sets DEF Turn
<1>3. ASSUME Done(c) \/ (run[c] = Idle /\ UNCHANGED run) PROVE Turn(c)
  BY <1>1, <1>3, Ends DEF Turn
<1>4. ASSUME NEW state, NEW then, Move(c, state, then) PROVE Turn(c)
  BY <1>1, <1>4, Moves DEF Turn, Judging, Posting
<1>5. ASSUME NEW step, step \notin Judging,
             \/ Goto(c, step) \/ run' = [run EXCEPT ![c].at = step]
             \/ \E lock : Begin(c, lock, step)
      PROVE  Turn(c)
  BY <1>1, <1>5, Goes, Begins DEF Turn
<1>6. CASE Stage(c) \/ PrepareTron(c)
  <2>1. \/ run[c] = Idle /\ UNCHANGED run
        \/ run' = [run EXCEPT ![c] = [Idle EXCEPT !.at = "read", !.lock = "prepare",
                                                  !.terms = active]]
        \/ run' = [run EXCEPT ![c] = [Idle EXCEPT !.at = "write", !.money = TRUE,
                                                  !.terms = active]]
    BY <1>6 DEF Stage, PrepareTron
  <2>2. /\ [Idle EXCEPT !.at = "read", !.lock = "prepare", !.terms = active].at = "read"
        /\ [Idle EXCEPT !.at = "write", !.money = TRUE, !.terms = active].at = "write"
    BY DEF Idle
  <2> QED BY <1>2, <1>3, <2>1, <2>2 DEF Judging, Posting
<1>7. CASE Replay(c) \/ Approve(c) \/ Resume(c) \/ Abandon(c)
  <2>1. \/ run[c] = Idle /\ UNCHANGED run
        \/ \E lock : \/ Begin(c, lock, "ask") \/ Begin(c, lock, "claim")
                     \/ Begin(c, lock, "phase") \/ Begin(c, lock, "inspect")
                     \/ Begin(c, lock, "height")
    BY <1>7 DEF Replay, Approve, Resume, Abandon
  <2> QED BY <1>3, <1>5, <2>1 DEF Judging, Posting
<1>8. CASE Stop(c) \/ DropPrepareClaim(c) \/ FreezeTron(c) \/ InspectNothing(c) \/ Release(c)
  BY <1>3, <1>8 DEF Stop, DropPrepareClaim, FreezeTron, InspectNothing, Release
<1>9. CASE ReadChain(c) \/ Freeze(c) \/ Ask(c) \/ Revalidate(c) \/ Recheck(c)
  BY <1>3, <1>5, <1>9 DEF ReadChain, Freeze, Ask, Revalidate, Recheck, Judging, Posting
<1>23. CASE Send(c)
  BY <1>1, <1>23, Goes DEF Send, At, disk, Turn, Posting
<1>10. CASE Refuse(c) \/ Unsealed(c) \/ Sealed(c) \/ Unsendable(c) \/ Acknowledge(c)
            \/ Conclude(c) \/ Intend(c)
  BY <1>3, <1>4, <1>10 DEF Refuse, Unsealed, Sealed, Unsendable, Acknowledge, Conclude,
     Intend, Fail
<1>11. CASE Recover(c)
  BY <1>3, <1>4, <1>5, <1>11 DEF Recover, Fail, Judging, Posting
<1>12. CASE Follow(c)
  <2>1. \/ run[c].then \notin Judging
        \/ run[c].then = "send" /\ rec.state = "submitting"
    BY <1>1, <1>12 DEF Follow, At, Fits, NextStep, Signing, Judging, Posting
  <2> DEFINE r == [run[c] EXCEPT !.at = run[c].then, !.then = "idle", !.money = Tron,
                                 !.seen = rec.state]
  <2>2. r.at = run[c].then
    BY <1>1 DEF Typed, Run
  <2>3. run' = [run EXCEPT ![c] = Idle] \/ run' = [run EXCEPT ![c] = r]
    BY <1>12 DEF Follow
  <2> HIDE DEF r
  <2>4. CASE run[c].then = "send" /\ rec.state = "submitting" /\ run' = [run EXCEPT ![c] = r]
    BY <1>1, <1>12, <2>2, <2>4, Sets DEF Follow, Turn
  <2> QED BY <1>2, <1>3, <2>1, <2>2, <2>3, <2>4 DEF Done
<1>13. CASE Commit(c)
  <2>1. CASE Done(c) \/ Fail(c)
    BY <1>3, <1>4, <2>1 DEF Fail
  <2>2. CASE /\ Stands(c) /\ Reserve(c)
             /\ run' = [run EXCEPT ![c] = [@ EXCEPT !.at = "start", !.money = TRUE]]
    <3>1. rec.state = "awaiting_approval" /\ usage' = "reserved"
      BY <1>1, <1>13, <2>2 DEF Commit, Stands, Reserve, At, Fits, Asking
    <3>2. run'[c].at = "start" /\ \A d \in Commands \ {c} : run'[d] = run[d]
      BY <2>2, EnteredWriting
    <3> QED BY <3>1, <3>2 DEF Turn
  <2> QED BY <1>13, <2>1, <2>2 DEF Commit
<1>14. CASE Start(c)
  <2> DEFINE r == [run[c] EXCEPT !.at = "follow", !.fresh = TRUE,
                                 !.then = IF Tron THEN "seal" ELSE "recover"]
  <2>1. r.at = "follow"
    BY <1>1 DEF Typed, Run
  <2>2. run' = [run EXCEPT ![c] = r]
    BY <1>14 DEF Start
  <2> HIDE DEF r
  <2> QED BY <1>2, <2>1, <2>2 DEF Judging, Posting
<1>15. CASE Seal(c)
  <2>1. CASE run' = [run EXCEPT ![c] = [@ EXCEPT !.at = "sealed", !.money = TRUE]]
    <3>1. run'[c].at = "sealed" /\ \A d \in Commands \ {c} : run'[d] = run[d]
      BY <2>1, EnteredWriting
    <3> QED BY <3>1 DEF Turn, Judging, Posting
  <2> QED BY <1>3, <1>4, <1>15, <2>1 DEF Seal, Fail
<1>16. CASE Claim(c)
  <2> DEFINE r == [run[c] EXCEPT !.at = "phase", !.lock = "approval"]
  <2>1. r.at = "phase"
    BY <1>1 DEF Typed, Run
  <2>2. run' = [run EXCEPT ![c] = r]
    BY <1>16 DEF Claim
  <2> HIDE DEF r
  <2> QED BY <1>2, <2>1, <2>2 DEF Judging, Posting
<1>17. CASE Phase(c)
  <2> DEFINE r(step) == [run[c] EXCEPT !.at = step, !.seen = rec.state, !.money = Tron]
  <2>1. r("recover").at = "recover" /\ r("inspect").at = "inspect"
    BY <1>1 DEF Typed, Run
  <2>2. \/ Done(c) \/ \E state, then : Move(c, state, then)
        \/ run' = [run EXCEPT ![c] = r("recover")]
        \/ run' = [run EXCEPT ![c] = r("inspect")]
    BY <1>17 DEF Phase
  <2> HIDE DEF r
  <2> QED BY <1>2, <1>3, <1>4, <2>1, <2>2 DEF Judging, Posting
<1>18. CASE InspectFinds(c)
  <2>1. PICK outcome \in Evidence : Goto(c, outcome)
    BY <1>18 DEF InspectFinds
  <2> QED BY <1>1, <2>1, Goes DEF Turn
<1>19. CASE Height(c)
  BY <1>1, <1>3, <1>19, Goes DEF Height, ValidityOver, Turn
<1>20. CASE Status(c)
  BY <1>1, <1>3, <1>20, Goes DEF Status, At, Turn
<1>21. CASE StatusMissing(c)
  BY <1>1, <1>21, Goes DEF StatusMissing, At, Turn
<1>22. CASE Consent(c)
  BY <1>1, <1>22, Goes DEF Consent, At, Turn
<1> QED BY <1>6, <1>7, <1>8, <1>9, <1>10, <1>11, <1>12, <1>13, <1>14, <1>15, <1>16, <1>17,
           <1>18, <1>19, <1>20, <1>21, <1>22, <1>23 DEF Owner, Step

LEMMA ChainedBooks ==
  ASSUME IInv, NEW c \in Commands, Owner(c) \/ Step(c) \/ Stop(c)
  PROVE  Chained /\ Books(c)
<1>1. sends \in Nat /\ Fits(c)
  BY DEF IInv, Typed
<1>2. ASSUME UNCHANGED <<chain, gap, sends>> PROVE Chained
  BY <1>2 DEF Chained, chain
<1>3. UNCHANGED usage => Books(c)
  BY DEF Books
<1>4. CASE Stage(c) \/ Replay(c) \/ PrepareTron(c) \/ Abandon(c) \/ Stop(c)
  BY <1>2, <1>3, <1>4 DEF Stage, Replay, PrepareTron, Abandon, Stop, disk, world
<1>5. CASE Approve(c) \/ Resume(c)
  BY <1>2, <1>5 DEF Approve, Resume, world, Books
<1>6. CASE Follow(c)
  <2>1. run[c].money
    BY <1>1, <1>6 DEF Follow, At, Fits
  <2> QED BY <1>2, <1>6, <2>1 DEF Follow, world, Books
<1>7. CASE Phase(c) \/ Conclude(c)
  BY <1>2, <1>3, <1>7 DEF Phase, Conclude, world, Books
<1>8. CASE Commit(c)
  <2>1. rec.state = "awaiting_approval" \/ usage' = usage
    BY <1>1, <1>8 DEF Commit, Stands, At, Fits, Asking
  <2>2. usage' = usage \/ (usage' = "reserved" /\ rec' = rec)
    BY <1>8 DEF Commit, Reserve
  <2> QED BY <1>2, <1>8, <2>1, <2>2 DEF Commit, world, Books
<1>9. CASE Send(c)
  BY <1>1, <1>3, <1>9 DEF Send, disk, Chained
<1>10. CASE StatusMissing(c)
  BY <1>1, <1>3, <1>10 DEF StatusMissing, disk, chain, Chained
<1>11. CASE \/ ReadChain(c) \/ Ask(c) \/ Revalidate(c) \/ Recheck(c) \/ Claim(c)
            \/ InspectFinds(c) \/ InspectNothing(c) \/ Height(c) \/ Status(c) \/ Consent(c)
  BY <1>2, <1>3, <1>11 DEF ReadChain, Ask, Revalidate, Recheck, Claim, InspectFinds,
     InspectNothing, Height, Status, Consent, disk, world
<1>12. CASE \/ Freeze(c) \/ DropPrepareClaim(c) \/ FreezeTron(c) \/ Refuse(c) \/ Start(c)
            \/ Recover(c) \/ Unsealed(c) \/ Seal(c) \/ Sealed(c) \/ Unsendable(c)
            \/ Intend(c) \/ Acknowledge(c) \/ Release(c)
  BY <1>2, <1>3, <1>12 DEF Freeze, DropPrepareClaim, FreezeTron, Refuse, Start, Recover,
     Unsealed, Seal, Sealed, Unsendable, Intend, Acknowledge, Release, world
<1> QED BY <1>4, <1>5, <1>6, <1>7, <1>8, <1>9, <1>10, <1>11, <1>12 DEF Owner, Step

(* What follow does to the reservation of an amount that is held.            *)
LEMMA Follows ==
  ASSUME usage \in UsageStates
  PROVE  \/ Followed = usage
         \/ /\ usage \in Pending /\ rec.state \notin {"none", "awaiting_approval"}
            /\ \/ Followed \in Pending
               \/ Followed = "finalized" /\ rec.state = "completed"
               \/ Followed \in {"failed_before_effect", "failed_confirmed_revert"}
                  /\ rec.state = Followed
<1> DEFINE to == Target(rec.state)
<1>1. \/ to = "reserved"
      \/ to \in {"submitted", "unknown_finality"}
         /\ rec.state \notin {"none", "awaiting_approval"}
      \/ to = "finalized" /\ rec.state = "completed"
      \/ to \in {"failed_before_effect", "failed_confirmed_revert"} /\ rec.state = to
  BY DEF Target
<1>2. Followed = IF \/ to = "reserved" \/ usage = "none" \/ ~CanFollow(usage, to)
                    \/ to = "submitted" /\ usage # "reserved"
                 THEN usage ELSE to
  BY DEF Followed
<1> HIDE DEF to
<1>3. CanFollow(usage, to) /\ usage # "none" /\ to # "reserved" =>
        usage = to \/ usage \in Pending
  BY DEF CanFollow, Pending
<1> QED BY <1>1, <1>2, <1>3 DEF Pending

LEMMA CommandsKeepChain ==
  ASSUME IInv, ChainFits, NEW c \in Commands, Advance(c), Turn(c), Chained, Books(c)
  PROVE  ChainFits'
<1>1. LedgerFits /\ OutcomeIsProven /\ Seen(c)
  BY DEF ChainFits
<1>2. /\ tx' = tx \/ (tx = "none" /\ tx' = "out" /\ sends' > 0)
      /\ window' = window /\ (gap => gap')
      /\ sends > 0 => sends' > 0
  BY DEF Chained
<1>3. /\ rec' = rec \/ rec.state \notin {"completed", "failed_confirmed_revert",
                           "abandoned_unknown", "failed_before_effect"}
      /\ rec'.state \in {"none", "awaiting_approval"} =>
           rec.state \in {"none", "awaiting_approval"}
      /\ rec'.state \notin {"none", "awaiting_approval", "failed_before_effect"} =>
           \/ rec.state \notin {"none", "awaiting_approval", "failed_before_effect"}
           \/ run[c].at = "start"
  BY DEF Advance, Unsent
<1>4. OutcomeIsProven'
  <2>1. CASE rec' = rec
    BY <1>1, <1>2, <2>1 DEF OutcomeIsProven
  <2>2. CASE rec'.state = "completed" /\ run[c].at = "completed"
    BY <1>1, <1>2, <2>2 DEF OutcomeIsProven, Seen
  <2>3. CASE rec'.state = "failed_confirmed_revert" /\ run[c].at = "failed_confirmed_revert"
    BY <1>1, <1>2, <2>3 DEF OutcomeIsProven, Seen
  <2>4. CASE rec'.state = "abandoned_unknown" /\ run[c].at = "release"
    BY <1>1, <1>2, <2>4 DEF OutcomeIsProven, Seen
  <2>5. CASE rec'.state \notin {"completed", "failed_confirmed_revert", "abandoned_unknown"}
    BY <2>5 DEF OutcomeIsProven
  <2> QED BY <2>1, <2>2, <2>3, <2>4, <2>5 DEF Advance
<1>5. LedgerFits'
  <2>1. CASE usage' = usage
    BY <1>1, <1>2, <1>3, <2>1 DEF LedgerFits, Seen
  <2>2. CASE rec' = rec /\ rec.state = "awaiting_approval" /\ usage' = "reserved"
    BY <1>1, <1>2, <2>2 DEF LedgerFits, UsageStates
  <2>3. CASE /\ usage' = Followed /\ usage' # usage
    <3>1. /\ usage \in Pending /\ rec.state \notin {"none", "awaiting_approval"}
          /\ \/ usage' \in Pending
             \/ usage' = "finalized" /\ rec.state = "completed"
             \/ usage' \in {"failed_before_effect", "failed_confirmed_revert"}
                /\ rec.state = usage'
      BY <1>1, <2>3, Follows DEF LedgerFits
    <3>2. rec'.state \notin {"none", "awaiting_approval"}
      BY <1>3, <3>1
    <3> QED BY <1>1, <1>2, <1>3, <3>1, <3>2
            DEF LedgerFits, OutcomeIsProven, Pending, UsageStates
  <2> QED BY <2>1, <2>2, <2>3 DEF Books
<1>6. ASSUME NEW d \in Commands \ {c} PROVE Seen(d)'
  <2>1. run'[d] = run[d] /\ Seen(d) /\ Fits(d)
    BY <1>6 DEF Turn, ChainFits, IInv
  <2>2. run[d].at = "start" => usage' = "reserved"
    <3> SUFFICES ASSUME run[d].at = "start" PROVE usage' = "reserved"
      OBVIOUS
    <3>1. run[d].money /\ usage = "reserved"
      BY <2>1 DEF Fits, Seen
    <3>2. ~Section(c) /\ ~run[c].money
      BY <1>6, <3>1 DEF Section, IInv, LocksExclude
    <3> QED BY <3>1, <3>2 DEF Books
  <2> QED BY <1>2, <2>1, <2>2 DEF Seen
<1>7. Seen(c)'
  <2>1. CASE run'[c].at \notin Judging
    BY <2>1 DEF Judging, Posting, Seen
  <2>2. CASE run'[c].at = "start" /\ usage' = "reserved"
    BY <2>2 DEF Seen
  <2>3. CASE run'[c].at \in Evidence
    BY <1>2, <2>3 DEF Evidence, Seen
  <2>4. CASE run'[c].at = "status" /\ window = "closed"
    BY <1>2, <2>4 DEF Seen
  <2>5. CASE /\ run'[c].at = "consent" /\ run[c].at = "status"
             /\ tx \in {"none", "out"} \/ gap'
    BY <1>1, <1>2, <2>5 DEF Seen
  <2>6. CASE run'[c].at = "release" /\ run[c].at = "consent"
    BY <1>1, <1>2, <2>6 DEF Seen
  <2>7. CASE run'[c].at \in Posting
    BY <2>7 DEF Posting, Seen
  <2> QED BY <2>1, <2>2, <2>3, <2>4, <2>5, <2>6, <2>7 DEF Turn, Posting
<1> QED BY <1>4, <1>5, <1>6, <1>7 DEF ChainFits

Chain == Activate \/ Expire \/ Land \/ Fork \/ Finalize \/ CloseWindow

LEMMA WorldKeepsChain ==
  ASSUME ChainFits, Chain
  PROVE  ChainFits'
<1>1. UNCHANGED <<rec, usage, run, sends>> /\ LedgerFits /\ OutcomeIsProven
  BY DEF ChainFits, Chain, Activate, Expire, Land, Fork, Finalize, CloseWindow, disk
<1>2. /\ gap' = gap /\ (window = "closed" => window' = "closed")
      /\ \/ tx' = tx
         \/ window = "open" /\ tx = "out" /\ tx' \in {"success", "revert"}
         \/ tx \in {"success", "revert"}
            /\ tx' \in {"out", "final_success", "final_revert"}
  BY DEF Chain, Activate, Expire, Land, Fork, Finalize, CloseWindow, chain
<1>3. LedgerFits'
  BY <1>1, <1>2 DEF LedgerFits
<1>4. OutcomeIsProven'
  BY <1>1, <1>2 DEF OutcomeIsProven
<1>5. \A c \in Commands : Seen(c)'
  BY <1>1, <1>2 DEF ChainFits, Seen
<1> QED BY <1>3, <1>4, <1>5 DEF ChainFits

LEMMA ChainKeeps == IInv /\ ChainFits /\ [Next]_vars => ChainFits'
<1> SUFFICES ASSUME IInv, ChainFits, [Next]_vars PROVE ChainFits'
  OBVIOUS
<1>1. ASSUME NEW c \in Commands, Owner(c) \/ Step(c) \/ Stop(c) PROVE ChainFits'
  BY <1>1, Advances, Turns, ChainedBooks, CommandsKeepChain
<1>2. CASE Chain
  BY <1>2, WorldKeepsChain
<1>3. CASE UNCHANGED vars
  BY <1>3 DEF vars, disk, world, chain, ChainFits, LedgerFits, OutcomeIsProven, Seen
<1> QED BY <1>1, <1>2, <1>3 DEF Next, Chain

LEMMA ChainInitially == Init => ChainFits
BY Resting DEF Init, ChainFits, LedgerFits, OutcomeIsProven, Seen, UsageStates

(* A completed or reverted Solana or TRON transfer is what a finalized block *)
(* says of it, and one that its owner abandoned never lands, unless a node's *)
(* history missed it when it was asked (inspectSolana, inspectTron,          *)
(* assertValidityExpired), however many commands race for the record.        *)
THEOREM RailOutcomesAreProven == Spec => []OutcomeIsProven
<1>1. ChainFits => OutcomeIsProven
  BY DEF ChainFits
<1> QED BY Initially, NextKeeps, ChainInitially, ChainKeeps, <1>1, PTL DEF Spec

(* The order of the states: a record never comes back to a state it left, so *)
(* a command that finds the state it read finds the record it read, as the   *)
(* code's comparison of integrity hashes does (saveTransition).              *)
Rank(state) ==
  CASE state = "none" -> 0
    [] state = "awaiting_approval" -> 1
    [] state = "signing_started" -> 2
    [] state = "signed_not_submitted" -> 3
    [] state = "submitting" -> 4
    [] state \in {"submitted_pending", "unknown_finality"} -> 5
    [] OTHER -> 6
RecordMovesOn == [][rec'.state # rec.state => Rank(rec.state) < Rank(rec'.state)]_vars

THEOREM RecordNeverReturns == Spec => RecordMovesOn
<1>1. IInv /\ [Next]_vars =>
        [rec'.state # rec.state => Rank(rec.state) < Rank(rec'.state)]_vars
  <2> SUFFICES ASSUME IInv, Next, rec'.state # rec.state
               PROVE  Rank(rec.state) < Rank(rec'.state)
    OBVIOUS
  <2>1. PICK c \in Commands : Owner(c) \/ Step(c) \/ Stop(c)
    BY DEF Next, Activate, Expire, Land, Fork, Finalize, CloseWindow, disk
  <2>2. Advance(c)
    BY <2>1, Advances
  <2> QED BY <2>2 DEF Advance, Rank, Unsent
<1> QED BY Initially, NextKeeps, <1>1, PTL DEF Spec, RecordMovesOn

-----------------------------------------------------------------------------
(* The transfer implements HeldPayment.                                      *)
holding == [o \in {"transfer"} |-> HoldOf]
paying == IF tx \in {"success", "final_success"} THEN {"transfer"} ELSE {}

LEMMA HeldSteps ==
  /\ Held!Init <=> holding = [o \in {"transfer"} |-> "none"] /\ paying = {}
  /\ Held!vars = <<holding, paying>>
  /\ \A o \in {"transfer"} :
       /\ Held!Take(o) <=>
            holding[o] = "none" /\ holding' = [holding EXCEPT ![o] = "held"]
            /\ paying' = paying
       /\ Held!Charge(o) <=>
            o \in paying /\ holding[o] = "held"
            /\ holding' = [holding EXCEPT ![o] = "charged"] /\ paying' = paying
       /\ Held!GiveBack(o) <=>
            o \notin paying /\ holding[o] = "held"
            /\ holding' = [holding EXCEPT ![o] = "given_back"] /\ paying' = paying
       /\ Held!Pay(o) <=>
            holding[o] = "held" /\ paying' \in {paying \cup {o}, paying \ {o}}
            /\ holding' = holding
BY DEF Held!Init, Held!vars, Held!Take, Held!Charge, Held!GiveBack, Held!Pay, Held!Decide,
       holding, paying

LEMMA HeldStutters ==
  ASSUME holding' = holding, paying' = paying
  PROVE  UNCHANGED Held!vars
BY DEF Held!vars, holding, paying

LEMMA HoldNames ==
  /\ usage = "none" => HoldOf = "none"
  /\ usage \in Pending => HoldOf = "held"
  /\ usage = "finalized" => HoldOf = "charged"
  /\ usage \in {"failed_before_effect", "failed_confirmed_revert"} => HoldOf = "given_back"
BY DEF HoldOf, Pending

LEMMA HoldMoves ==
  /\ holding["transfer"] = HoldOf /\ \A o \in {"transfer"} : o = "transfer"
  /\ holding' = [holding EXCEPT !["transfer"] = HoldOf']
  /\ HoldOf' = HoldOf => holding' = holding
BY DEF holding

(* Where the transaction is, or was never sent, while an amount is held.     *)
LEMMA CommandsHold ==
  ASSUME IInv, ChainFits, NEW c \in Commands, Advance(c), Chained, Books(c)
  PROVE  [Held!Next]_(Held!vars)
<1>1. LedgerFits /\ OutcomeIsProven /\ SendsFit /\ sends \in Nat
  BY DEF ChainFits, IInv, Typed
<1>2. paying' = paying
  BY DEF Chained, paying
<1>3. CASE HoldOf' = HoldOf
  BY <1>2, <1>3, HoldMoves, HeldStutters
<1>4. CASE usage' = "reserved" /\ rec.state = "awaiting_approval"
  <2>1. CASE usage = "none"
    <3>1. HoldOf = "none" /\ HoldOf' = "held"
      BY <1>4, <2>1 DEF HoldOf
    <3>2. Held!Take("transfer")
      BY <1>2, <3>1, HoldMoves, HeldSteps
    <3> QED BY <3>2 DEF Held!Next
  <2>2. CASE usage = "reserved"
    BY <1>3, <1>4, <2>2 DEF HoldOf
  <2> QED BY <1>1, <1>4, <2>1, <2>2 DEF LedgerFits
<1>5. CASE usage' = Followed /\ usage' # usage
  <2>1. /\ usage \in Pending
        /\ \/ usage' \in Pending
           \/ usage' = "finalized" /\ rec.state = "completed"
           \/ /\ usage' \in {"failed_before_effect", "failed_confirmed_revert"}
              /\ rec.state = usage'
    BY <1>1, <1>5, Follows DEF LedgerFits
  <2>2. holding["transfer"] = "held"
    BY <2>1, HoldNames, HoldMoves
  <2>3. CASE usage' \in Pending
    <3>1. HoldOf' = "held" /\ HoldOf = "held"
      BY <2>1, <2>3, HoldNames DEF HoldOf, Pending
    <3> QED BY <1>3, <3>1
  <2>4. CASE usage' = "finalized" /\ rec.state = "completed"
    <3>1. "transfer" \in paying /\ HoldOf' = "charged"
      BY <1>1, <2>4 DEF OutcomeIsProven, paying, HoldOf
    <3>2. Held!Charge("transfer")
      BY <1>2, <2>2, <3>1, HoldMoves, HeldSteps
    <3> QED BY <3>2 DEF Held!Next
  <2>5. CASE /\ usage' \in {"failed_before_effect", "failed_confirmed_revert"}
             /\ rec.state = usage'
    <3>1. tx \notin {"success", "final_success"}
      BY <1>1, <2>5 DEF OutcomeIsProven, SendsFit, Unattempted, LedgerFits
    <3>2. "transfer" \notin paying /\ HoldOf' = "given_back"
      BY <2>5, <3>1 DEF paying, HoldOf
    <3>3. Held!GiveBack("transfer")
      BY <1>2, <2>2, <3>2, HoldMoves, HeldSteps
    <3> QED BY <3>3 DEF Held!Next
  <2> QED BY <2>1, <2>3, <2>4, <2>5
<1>6. CASE usage' = usage
  BY <1>3, <1>6 DEF HoldOf
<1> QED BY <1>4, <1>5, <1>6 DEF Books

LEMMA ChainHolds ==
  ASSUME IInv, ChainFits, Chain
  PROVE  [Held!Next]_(Held!vars)
<1>1. UNCHANGED <<rec, usage, sends>> /\ LedgerFits /\ SendsFit
  BY DEF ChainFits, IInv, Chain, Activate, Expire, Land, Fork, Finalize, CloseWindow, disk
<1>2. holding' = holding
  BY <1>1 DEF holding, HoldOf
<1>3. CASE paying' = paying
  BY <1>2, <1>3, HeldStutters
<1>4. CASE tx \in {"out", "success", "revert"}
  <2>1. usage \in Pending
    BY <1>1, <1>4 DEF LedgerFits, SendsFit, Unattempted, UsageStates, Pending
  <2>2. holding["transfer"] = "held"
    BY <2>1, HoldNames, HoldMoves
  <2>3. paying' \in {paying \cup {"transfer"}, paying \ {"transfer"}}
    BY DEF paying
  <2>4. Held!Pay("transfer")
    BY <1>2, <2>2, <2>3, HeldSteps
  <2> QED BY <2>4 DEF Held!Next
<1>5. tx' = tx \/ tx \in {"out", "success", "revert"}
  BY DEF Chain, Activate, Expire, Land, Fork, Finalize, CloseWindow, chain
<1> QED BY <1>3, <1>4, <1>5 DEF paying

(* The shared ledger and a Solana or TRON transfer: its amount is reserved   *)
(* before the transaction can land, charged when a finalized block has it,   *)
(* given back when it never happens, and held for as long as neither is      *)
(* known, with every command that may race, stop and resume it.              *)
THEOREM RailHoldsBeforePaying == Spec => HoldsPayment
<1>1. Init => Held!Init
  <2> SUFFICES ASSUME Init PROVE Held!Init
    OBVIOUS
  <2>1. holding = [o \in {"transfer"} |-> "none"] /\ paying = {}
    BY DEF Init, holding, paying, HoldOf
  <2> QED BY <2>1, HeldSteps
<1>2. IInv /\ ChainFits /\ [Next]_vars => [Held!Next]_(Held!vars)
  <2> SUFFICES ASSUME IInv, ChainFits, [Next]_vars PROVE [Held!Next]_(Held!vars)
    OBVIOUS
  <2>1. ASSUME NEW c \in Commands, Owner(c) \/ Step(c) \/ Stop(c)
        PROVE  [Held!Next]_(Held!vars)
    BY <2>1, Advances, ChainedBooks, CommandsHold
  <2>2. CASE Chain
    BY <2>2, ChainHolds
  <2>3. CASE UNCHANGED vars
    <3>1. holding' = holding /\ paying' = paying
      BY <2>3 DEF vars, disk, world, chain, holding, HoldOf, paying
    <3> QED BY <3>1, HeldStutters
  <2> QED BY <2>1, <2>2, <2>3 DEF Next, Chain
<1> QED BY Initially, NextKeeps, ChainInitially, ChainKeeps, <1>1, <1>2, PTL
        DEF Spec, HoldsPayment, Held!Spec

-----------------------------------------------------------------------------
(* The transfer and the ledger's table: how far the ledger may be from the   *)
(* record, in both directions, and what a command knows of it at its send.   *)
Beyond == {"submitting", "submitted_pending", "unknown_finality", "completed",
           "failed_confirmed_revert", "abandoned_unknown"}
Posted(c) == run[c].at \in Posting => usage \notin {"none", "reserved"}
BooksFit ==
  /\ usage \in {"submitted", "unknown_finality"} => rec.state \in Beyond
  /\ usage = "finalized" => rec.state = "completed"
  /\ usage = "failed_confirmed_revert" => rec.state = "failed_confirmed_revert"
  /\ rec.state \in Beyond \ {"submitting"} => usage # "reserved"
  /\ \A c \in Commands : Posted(c)

LEMMA FollowedSays ==
  /\ Followed = usage \/ Followed = Target(rec.state)
  /\ Followed # usage =>
       /\ CanFollow(usage, Target(rec.state)) /\ usage # "none"
       /\ Target(rec.state) # "reserved"
       /\ Target(rec.state) = "submitted" => usage = "reserved"
  /\ rec.state = "submitting" /\ usage = "reserved" => Followed = "submitted"
BY DEF Followed, Target, CanFollow

LEMMA TargetSays ==
  ASSUME rec.state \in States
  PROVE  /\ Target(rec.state) \in {"submitted", "unknown_finality"} => rec.state \in Beyond
         /\ Target(rec.state) = "finalized" => rec.state = "completed"
         /\ Target(rec.state) \in {"failed_before_effect", "failed_confirmed_revert"} =>
              rec.state = Target(rec.state)
         /\ Target(rec.state) \in UsageStates \ {"none"}
BY DEF Target, Beyond, UsageStates

LEMMA BooksKeep ==
  ASSUME IInv, ChainFits, BooksFit, NEW c \in Commands, Owner(c) \/ Step(c) \/ Stop(c)
  PROVE  BooksFit'
<1>1. Advance(c) /\ Turn(c) /\ Books(c)
  BY Advances, Turns, ChainedBooks
<1>2. rec.state \in States /\ LedgerFits /\ usage \in UsageStates
  BY DEF IInv, Typed, ChainFits, LedgerFits
<1>3. \/ usage' = usage
      \/ rec' = rec /\ rec.state = "awaiting_approval" /\ usage' = "reserved"
      \/ usage' = Target(rec.state) /\ usage' # "reserved" /\ usage' = Followed
  BY <1>1, FollowedSays DEF Books
<1>4. rec.state \in Beyond => rec'.state \in Beyond
  BY <1>1 DEF Advance, Beyond, Unsent
<1>5. rec.state \in Terminal => rec' = rec
  BY <1>1 DEF Advance, Terminal, Unsent
<1>6. usage' \in {"submitted", "unknown_finality"} => rec'.state \in Beyond
  BY <1>2, <1>3, <1>4, TargetSays DEF BooksFit
<1>7. /\ usage' = "finalized" => rec'.state = "completed"
      /\ usage' = "failed_confirmed_revert" => rec'.state = "failed_confirmed_revert"
  BY <1>2, <1>3, <1>5, TargetSays DEF BooksFit, Terminal
<1>8. usage \notin {"none", "reserved"} => usage' \notin {"none", "reserved"}
  BY <1>2, <1>3, TargetSays DEF LedgerFits
<1>9. rec.state = "submitting" /\ usage' = Followed => usage' \notin {"none", "reserved"}
  BY <1>2, <1>8, FollowedSays DEF LedgerFits, UsageStates
<1>10. ASSUME rec'.state \in Beyond \ {"submitting"} PROVE usage' # "reserved"
  <2>1. CASE rec.state \in Beyond \ {"submitting"}
    BY <1>3, <2>1 DEF BooksFit, Beyond
  <2>2. CASE rec.state \notin Beyond \ {"submitting"}
    <3>1. /\ rec.state = "submitting"
          /\ run[c].at \in {"bound", "lost"} \/ usage' = Followed
      BY <1>1, <1>10, <2>2 DEF Advance, Beyond, Unsent
    <3> QED BY <1>8, <1>9, <3>1 DEF BooksFit, Posted, Posting
  <2> QED BY <2>1, <2>2
<1>11. ASSUME NEW d \in Commands PROVE Posted(d)'
  <2>1. CASE d # c
    BY <1>1, <1>8, <2>1 DEF Turn, BooksFit, Posted
  <2>2. CASE d = c
    <3>1. \/ run'[c].at \notin Posting
          \/ rec.state = "submitting" /\ usage' = Followed
          \/ run[c].at \in Posting
      BY <1>1 DEF Turn, Judging, Posting, Evidence
    <3> QED BY <1>8, <1>9, <2>2, <3>1 DEF BooksFit, Posted
  <2> QED BY <2>1, <2>2
<1> QED BY <1>6, <1>7, <1>10, <1>11 DEF BooksFit

LEMMA BooksInductive == Spec => [](IInv /\ ChainFits /\ BooksFit)
<1>1. Init => BooksFit
  BY Resting DEF Init, BooksFit, Posted, Posting, Beyond
<1>2. IInv /\ ChainFits /\ BooksFit /\ [Next]_vars => BooksFit'
  <2> SUFFICES ASSUME IInv, ChainFits, BooksFit, [Next]_vars PROVE BooksFit'
    OBVIOUS
  <2>1. CASE \E c \in Commands : Owner(c) \/ Step(c) \/ Stop(c)
    BY <2>1, BooksKeep
  <2>2. CASE Chain \/ UNCHANGED vars
    <3>1. UNCHANGED <<rec, usage, run>>
      BY <2>2 DEF Chain, Activate, Expire, Land, Fork, Finalize, CloseWindow, vars, disk
    <3> QED BY <3>1 DEF BooksFit, Posted
  <2> QED BY <2>1, <2>2 DEF Next, Chain
<1> QED BY Initially, NextKeeps, ChainInitially, ChainKeeps, <1>1, <1>2, PTL DEF Spec

(* No command ever meets a ledger that cannot follow the record, and none    *)
(* records a revert of an amount the ledger has as only reserved: whichever  *)
(* commands stopped between a record and its follow, the send came after     *)
(* the ledger had the amount as submitted (directUsageFollow).               *)
THEOREM RailFollowsAreNeverRefused == Spec => []FollowIsNeverRefused
<1>1. IInv /\ ChainFits /\ BooksFit => FollowIsNeverRefused
  <2> SUFFICES ASSUME IInv, ChainFits, BooksFit, rec.state # "none"
               PROVE  /\ CanFollow(usage, Target(rec.state))
                      /\ ~(usage = "reserved" /\ Target(rec.state) = "failed_confirmed_revert")
    BY DEF FollowIsNeverRefused
  <2>1. rec.state \in States /\ LedgerFits /\ usage \in UsageStates
    BY DEF IInv, Typed, ChainFits, LedgerFits
  <2>2. CASE Target(rec.state) = "reserved"
    BY <2>2 DEF CanFollow
  <2>3. CASE rec.state = "failed_before_effect"
    BY <2>1, <2>3 DEF CanFollow, Target, BooksFit, Beyond, UsageStates
  <2>4. CASE rec.state \in Beyond
    <3>1. usage \notin {"none", "failed_before_effect"} /\ Target(rec.state) # "failed_before_effect"
      BY <2>1, <2>4 DEF LedgerFits, Beyond, Target
    <3>2. /\ usage = "finalized" => Target(rec.state) = usage
          /\ usage = "failed_confirmed_revert" => Target(rec.state) = usage
      BY DEF BooksFit, Target
    <3>3. usage = "reserved" => Target(rec.state) # "failed_confirmed_revert"
      BY <2>1, TargetSays DEF BooksFit, Beyond
    <3> QED BY <2>1, <3>1, <3>2, <3>3 DEF CanFollow, UsageStates
  <2> QED BY <2>1, <2>2, <2>3, <2>4 DEF States, Unsent, Sent, Terminal, Beyond, Target
<1> QED BY <1>1, BooksInductive, PTL

(* The ledger takes every write of a transfer's reservation: it is held once *)
(* and then only moves along assertTransition's table, with any number of    *)
(* commands that race, stop and take the operation up again.                 *)
THEOREM LedgerTakesRailTransfer == Spec => LedgerTakesEveryWrite
<1> DEFINE written == [o \in {"transfer"} |-> usage]
<1>1. Init => Ledger!Init
  BY DEF Init, Ledger!Init
<1>2. IInv /\ ChainFits /\ BooksFit /\ [Next]_vars => [Ledger!Next]_written
  <2> SUFFICES ASSUME IInv, ChainFits, BooksFit, [Next]_vars, usage' # usage
               PROVE  Ledger!Next
    BY DEF written
  <2>1. PICK c \in Commands : Owner(c) \/ Step(c) \/ Stop(c)
    BY DEF Next, Activate, Expire, Land, Fork, Finalize, CloseWindow, vars, disk
  <2>2. /\ rec.state \in States /\ LedgerFits /\ usage \in UsageStates /\ Books(c)
    BY <2>1, ChainedBooks DEF IInv, Typed, ChainFits, LedgerFits
  <2>3. Ledger!Takes(usage, usage')
    <3>1. CASE rec.state = "awaiting_approval" /\ usage' = "reserved"
      BY <2>2, <3>1 DEF LedgerFits, Ledger!Takes
    <3>2. CASE usage' = Followed
      <4> DEFINE to == Target(rec.state)
      <4>1. /\ usage' = to /\ CanFollow(usage, to) /\ usage # "none" /\ to # "reserved"
            /\ to = "submitted" => usage = "reserved"
        BY <3>2, FollowedSays
      <4>2. usage = "reserved" => to # "failed_confirmed_revert"
        BY <2>2, TargetSays DEF BooksFit, Beyond
      <4>3. to \in UsageStates \ {"none"}
        BY <2>2, TargetSays
      <4> HIDE DEF to
      <4> QED BY <4>1, <4>2, <4>3 DEF CanFollow, Ledger!Takes, UsageStates
    <3> QED BY <2>2, <3>1, <3>2 DEF Books
  <2>4. usage' \in Ledger!States
    BY <2>3 DEF Ledger!Takes, Ledger!States
  <2>5. written["transfer"] = usage /\ written' = [written EXCEPT !["transfer"] = usage']
    BY DEF written
  <2>6. Ledger!Write("transfer", usage')
    BY <2>3, <2>5 DEF Ledger!Write
  <2> QED BY <2>4, <2>6 DEF Ledger!Next
<1> QED BY <1>1, <1>2, BooksInductive, PTL DEF Spec, LedgerTakesEveryWrite, Ledger!Spec

=============================================================================
