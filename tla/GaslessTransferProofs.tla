------------------------ MODULE GaslessTransferProofs ------------------------
(* The gasless lane, for every number of stopped commands and of replaced    *)
(* blocks: what leaves APN leaves it once, what the record calls an outcome  *)
(* is one, and the ledger holds the amount before it can be paid.            *)
EXTENDS GaslessTransfer, TLAPS

(* A save hands over to the ledger: the step the command takes next is the   *)
(* one behind that.                                                          *)
NextStep == IF At("follow") THEN proc.then ELSE proc.at

Steps ==
  {"idle", "screen", "ask", "advance", "material", "mark", "seal",
   "load", "bootstrap", "user_operation", "disclose", "estimated", "unestimated",
   "send", "acknowledged", "unanswered", "observe",
   "late_screen", "late_ask", "late_recheck"}
Command == [at : Steps \cup {"follow"}, then : Steps, role : Roles,
            fresh : BOOLEAN, late : BOOLEAN]

Typed ==
  /\ rec \in Record /\ custody \subseteq Roles /\ out \subseteq Roles
  /\ proc \in Command
  /\ tries \in [Roles \cup {"disclosure", "send"} -> 0..1]

(* The durable record is ahead of the world: what it calls untouched was     *)
(* never attempted, and a UserOperation has a disclosed bootstrap before it. *)
RecordIsAhead ==
  /\ \A role \in Roles : rec[role] = "unsealed" => tries[role] = 0
  /\ rec.bootstrap \notin Disclosed => tries.disclosure = 0
  /\ rec.user_operation \notin Submitted => tries.send = 0
  /\ rec.bootstrap = "checked" => "bootstrap" \in out
  /\ rec.user_operation # "unsealed" => rec.bootstrap = "checked"
  /\ rec.state \in {"none", "awaiting_approval"} => rec.user_operation = "unsealed"
  /\ "user_operation" \in out => "bootstrap" \in out

(* The command at work knows how far the record is: it is about to sign,     *)
(* disclose or send only what was not signed, disclosed or sent before.      *)
Ready(r, step, role) ==
  /\ role = "user_operation" => r.bootstrap = "checked"
  /\ step \in {"screen", "ask", "material", "mark", "seal", "load"} \cup Roles =>
       r.user_operation \notin Submitted
  /\ step = "mark" => r[role] = "unsealed"
  /\ step = "seal" => r[role] # "unsealed" /\ tries[role] = 0
  /\ step = "load" => r[role] # "unsealed"
  /\ step \in Roles =>
       step = role /\ r[role] \notin {"unsealed", "signing_started"}
  /\ step \in {"disclose", "estimated"} =>
       r.bootstrap = "disclosure_started" /\ role = "bootstrap"
  /\ step = "disclose" => tries.disclosure = 0
  /\ step = "estimated" => "bootstrap" \in out
  /\ step = "send" => r.user_operation = "submitting" /\ tries.send = 0

IInv == Typed /\ RecordIsAhead /\ Ready(rec, NextStep, proc.role)

-----------------------------------------------------------------------------
(* Phases and states only go on.                                             *)
LEMMA PhasesGoOn ==
  ASSUME NEW p \in BootstrapPhases \cup UserPhases, NEW q \in PhaseEdges[p]
  PROVE  /\ q # "unsealed"
         /\ p = "unsealed" => q = "signing_started"
         /\ p \in Disclosed => q \in Disclosed
         /\ p \in Submitted => q \in Submitted
         /\ p # "checked"
         /\ q \in Submitted => p \in Submitted \cup {"sealed"}
BY DEF PhaseEdges, BootstrapPhases, UserPhases, Disclosed, Submitted, Proven

LEMMA StatesGoOn ==
  ASSUME NEW s \in States, NEW t \in Edges[s]
  PROVE  t \notin {"none", "awaiting_approval"}
BY DEF Edges, States, Unresolved, Terminal

LEMMA Phase ==
  ASSUME NEW r \in Record
  PROVE  /\ r["bootstrap"] = r.bootstrap /\ r["user_operation"] = r.user_operation
         /\ r.bootstrap \in BootstrapPhases /\ r.user_operation \in UserPhases
         /\ r.state \in States /\ r.observed \in BOOLEAN
BY DEF Record

LEMMA Rewriting ==
  ASSUME NEW r \in Record, NEW s \in States
  PROVE  LET q == [r EXCEPT !.state = s]
         IN  /\ q \in Record /\ q.state = s
             /\ q.bootstrap = r.bootstrap /\ q.user_operation = r.user_operation
BY DEF Record

LEMMA Going ==
  ASSUME NEW c \in Command, NEW step \in Steps, NEW then \in Steps
  PROVE  /\ LET d == [c EXCEPT !.at = "follow", !.then = then]
            IN  d \in Command /\ d.at = "follow" /\ d.then = then /\ d.role = c.role
         /\ LET d == [c EXCEPT !.at = step]
            IN  d \in Command /\ d.at = step /\ d.role = c.role
<1>1. LET d == [c EXCEPT !.at = "follow", !.then = then]
      IN  d \in Command /\ d.at = "follow" /\ d.then = then /\ d.role = c.role
  BY DEF Command
<1>2. LET d == [c EXCEPT !.at = step]
      IN  d \in Command /\ d.at = step /\ d.role = c.role
  BY DEF Command
<1> QED BY <1>1, <1>2

LEMMA Resting == Idle \in Command /\ Idle.at = "idle" /\ Idle.role = "bootstrap"
<1>1. "idle" \in Steps
  BY DEF Steps
<1> QED BY <1>1 DEF Command, Idle, Roles

(* A save, refused or not, leaves the record ahead of the world and the      *)
(* command in step with it, if the record that is saved and the step behind  *)
(* it fit together.                                                          *)
LEMMA SaveKeeps ==
  ASSUME IInv, NEW next \in Record, NEW step \in Steps, Save(next, step),
         next.bootstrap = "checked" => rec.bootstrap = "checked" \/ "bootstrap" \in out,
         next.user_operation = "signing_started" => rec.bootstrap = "checked",
         next.state \in {"none", "awaiting_approval"} =>
           next.user_operation = rec.user_operation,
         Valid(next) => Ready(next, step, proc.role)
  PROVE  IInv'
<1>1. UNCHANGED <<custody, out, tries>>
  BY DEF Save
<1>2. CASE Valid(next)
  <2>1. /\ rec' = next /\ NextStep' = step /\ proc'.role = proc.role
        /\ proc' \in Command
    <3>1. rec' = next /\ proc' = [proc EXCEPT !.at = "follow", !.then = step]
      BY <1>2 DEF Save
    <3>2. proc \in Command
      BY DEF IInv, Typed
    <3>3. proc' \in Command /\ proc'.at = "follow" /\ proc'.then = step
          /\ proc'.role = proc.role
      BY <3>1, <3>2, Going
    <3> QED BY <3>1, <3>3 DEF NextStep, At
  <2>2. Ready(rec, NextStep, proc.role)'
    BY <1>1, <1>2, <2>1 DEF Ready
  <2>3. RecordIsAhead'
    <3>1. /\ next.bootstrap = rec.bootstrap \/ next.bootstrap \in PhaseEdges[rec.bootstrap]
          /\ next.user_operation = rec.user_operation
             \/ next.user_operation \in PhaseEdges[rec.user_operation]
          /\ next.state = rec.state \/ next.state \in Edges[rec.state]
          /\ next["bootstrap"] = next.bootstrap
          /\ next["user_operation"] = next.user_operation
      BY <1>2, Phase DEF Valid, Roles, IInv, Typed
    <3>2. /\ next.bootstrap = "unsealed" => rec.bootstrap = "unsealed"
          /\ next.user_operation = "unsealed" => rec.user_operation = "unsealed"
          /\ rec.bootstrap \in Disclosed => next.bootstrap \in Disclosed
          /\ rec.user_operation \in Submitted => next.user_operation \in Submitted
          /\ rec.bootstrap = "checked" => next.bootstrap = "checked"
          /\ next.user_operation # "unsealed" =>
               rec.user_operation # "unsealed" \/ next.user_operation = "signing_started"
      BY <3>1, Phase, PhasesGoOn DEF IInv, Typed
    <3>3. next.state \in {"none", "awaiting_approval"} => next.state = rec.state
      BY <3>1, Phase, StatesGoOn DEF IInv, Typed
    <3>4. \A role \in Roles : next[role] = "unsealed" => rec[role] = "unsealed"
      BY <3>1, <3>2, Phase DEF IInv, Typed, Roles
    <3> QED BY <1>1, <2>1, <3>2, <3>3, <3>4 DEF IInv, RecordIsAhead
  <2> QED BY <1>1, <2>1, <2>2, <2>3 DEF IInv, Typed
<1>3. CASE ~Valid(next)
  <2>1. rec' = rec /\ proc' = Idle /\ NextStep' = "idle" /\ proc'.role = "bootstrap"
    BY <1>3, Resting DEF Save, Goto, NextStep, At
  <2>2. Ready(rec, NextStep, proc.role)'
    BY <2>1 DEF Ready, Roles
  <2>3. proc' \in Command
    BY <2>1, Resting
  <2> QED BY <1>1, <2>1, <2>2, <2>3 DEF IInv, Typed, RecordIsAhead
<1> QED BY <1>2, <1>3

(* A step that leaves record and world alone keeps what its next step needs. *)
LEMMA GotoKeeps ==
  ASSUME IInv, NEW step \in Steps, Goto(step),
         Ready(rec, step, proc.role), UNCHANGED <<rec, custody, out, tries>>
  PROVE  IInv'
<1>1. /\ proc' \in Command
      /\ NextStep' = step
      /\ proc'.role = proc.role \/ (step = "idle" /\ proc'.role = "bootstrap")
  <2>1. proc' = IF step = "idle" THEN Idle ELSE [proc EXCEPT !.at = step]
    BY DEF Goto
  <2>2. proc \in Command
    BY DEF IInv, Typed
  <2>3. /\ proc' \in Command /\ proc'.at = step
        /\ proc'.role = proc.role \/ (step = "idle" /\ proc'.role = "bootstrap")
    <3>1. CASE step = "idle"
      BY <2>1, <3>1, Resting
    <3>2. CASE step # "idle"
      BY <2>1, <2>2, <3>2, Going
    <3> QED BY <3>1, <3>2
  <2>4. step # "follow"
    BY DEF Steps
  <2> QED BY <2>3, <2>4 DEF NextStep, At
<1>2. Ready(rec, NextStep, proc.role)'
  BY <1>1 DEF Ready, Roles
<1> QED BY <1>1, <1>2 DEF IInv, Typed, RecordIsAhead

(* Records that resolve nothing about an effect, and are saved to end.       *)
LEMMA ToKeeps ==
  ASSUME IInv, NEW state \in States, NEW step \in Steps, Save(To(state), step),
         Ready(rec, step, proc.role)
  PROVE  IInv'
<1>1. /\ To(state) \in Record /\ To(state).state = state
      /\ To(state).bootstrap = rec.bootstrap
      /\ To(state).user_operation = rec.user_operation
  BY Rewriting DEF To, IInv, Typed
<1>2. \A role \in Roles : To(state)[role] = rec[role]
  BY <1>1, Phase DEF Roles, IInv, Typed
<1>3. Ready(To(state), step, proc.role)
  BY <1>1, <1>2 DEF Ready, IInv, Typed, Command
<1> QED BY <1>1, <1>3, SaveKeeps DEF IInv, RecordIsAhead

LEMMA HaltKeeps == ASSUME IInv, Halt \/ Save(Unknown, "idle") PROVE IInv'
<1>1. Ready(rec, "idle", proc.role)
  BY DEF Ready, Roles, IInv
<1>2. "failed_before_effect" \in States /\ "unknown_finality" \in States
  BY DEF States, Terminal, Unresolved
<1>3. "idle" \in Steps
  BY DEF Steps
<1>4. Save(To("failed_before_effect"), "idle") \/ Save(To("unknown_finality"), "idle")
  BY DEF Halt, Unknown
<1> QED BY <1>1, <1>2, <1>3, <1>4, ToKeeps

(* Steps that only read, end, or note what an exchange has answered.         *)
LEMMA Harmless ==
  ASSUME IInv, NEW step \in {"idle", "observe", "advance", "late_screen", "late_ask",
                             "late_recheck", "unestimated", "acknowledged", "unanswered"}
  PROVE  step \in Steps /\ Ready(rec, step, proc.role)
BY DEF Steps, Ready, Roles, IInv

LEMMA StateNames ==
  {"execution_pending", "bootstrap_pending", "user_operation_pending",
   "submitted_pending", "unknown_finality", "completed", "failed_before_effect",
   "failed_confirmed_revert", "failed_permissions_invalidated",
   "abandoned_unknown", "awaiting_approval"} \subseteq States
BY DEF States, Unresolved, Terminal

-----------------------------------------------------------------------------
LEMMA InitIInv == Init => IInv
<1> SUFFICES ASSUME Init PROVE IInv
  OBVIOUS
<1>1. Typed
  BY Resting DEF Init, Typed, Record, States, BootstrapPhases, UserPhases, Roles
<1>2. RecordIsAhead
  BY DEF Init, RecordIsAhead, Roles, Disclosed, Submitted, Proven
<1>3. NextStep = "idle" /\ proc.role = "bootstrap"
  BY DEF Init, NextStep, At, Idle
<1> QED BY <1>1, <1>2, <1>3 DEF IInv, Ready, Roles

(* What the command at work does before an effect.                           *)
LEMMA PreparingKeeps ==
  ASSUME IInv, Follow \/ Screen \/ Answer \/ Advance \/ Material \/ Reserve
  PROVE  IInv'
<1>1. "material" \in Steps /\ "ask" \in Steps /\ "load" \in Steps /\ "mark" \in Steps
      /\ proc.then \in Steps
  BY DEF Steps, IInv, Typed, Command
<1>2. CASE Follow
  <2>1. UNCHANGED <<rec, custody, out, tries>>
    BY <1>2 DEF Follow
  <2>2. CASE Goto(proc.then)
    <3>1. Ready(rec, proc.then, proc.role)
      BY <1>2 DEF Follow, IInv, NextStep
    <3> QED BY <1>1, <2>1, <2>2, <3>1, GotoKeeps
  <2>3. CASE Goto("idle")
    BY <2>1, <2>3, Harmless, GotoKeeps
  <2> QED BY <1>2, <2>2, <2>3 DEF Follow
<1>3. CASE Screen
  <2>1. rec.user_operation \notin Submitted
    BY <1>3 DEF Screen, IInv, Ready, NextStep, At
  <2>2. ASSUME PassTo("ask") PROVE IInv'
    <3>1. Ready(rec, "ask", proc.role)
      BY <2>1 DEF Ready, IInv, Roles
    <3> QED BY <1>1, <2>2, <3>1, GotoKeeps DEF PassTo, disk
  <2> QED BY <1>3, <2>2, HaltKeeps DEF Screen
<1>4. CASE Answer
  <2>1. rec.user_operation \notin Submitted
    BY <1>4 DEF Answer, IInv, Ready, NextStep, At
  <2>2. Ready(rec, "material", proc.role)
    BY <2>1 DEF Ready, IInv, Roles
  <2>3. ASSUME Save(To("execution_pending"), "material") PROVE IInv'
    BY <1>1, <2>2, <2>3, ToKeeps, StateNames
  <2>4. ASSUME Save(To("failed_before_effect"), "idle") PROVE IInv'
    BY <2>4, Harmless, ToKeeps, StateNames
  <2> QED BY <1>4, <2>3, <2>4, HaltKeeps DEF Answer
<1>5. CASE Advance
  <2>1. ASSUME PassTo("observe") PROVE IInv'
    BY <2>1, Harmless, GotoKeeps DEF PassTo, disk
  <2>2. ASSUME Save(To("failed_before_effect"), "idle") PROVE IInv'
    BY <2>2, Harmless, ToKeeps, StateNames
  <2>3. ASSUME Save(Unknown, "observe") PROVE IInv'
    <3>1. Save(To("failed_before_effect"), "observe") \/ Save(To("unknown_finality"), "observe")
      BY <2>3 DEF Unknown
    <3> QED BY <3>1, Harmless, ToKeeps, StateNames
  <2>4. ASSUME PassTo("material"), rec.user_operation \notin Submitted PROVE IInv'
    <3>1. Ready(rec, "material", proc.role)
      BY <2>4 DEF Ready, IInv, Roles
    <3> QED BY <1>1, <2>4, <3>1, GotoKeeps DEF PassTo, disk
  <2>5. rec.user_operation = "signing_started" => rec.user_operation \notin Submitted
    BY DEF Submitted, Proven
  <2> QED BY <1>5, <2>1, <2>2, <2>3, <2>4, <2>5, HaltKeeps DEF Advance
<1>6. CASE Material
  <2>1. Ready(rec, "load", proc.role)
    BY <1>6 DEF Material, Role, IInv, Ready, NextStep, At, Roles
  <2> QED BY <1>1, <1>6, <2>1, GotoKeeps DEF Material, PassTo, disk
<1>7. CASE Reserve
  <2>1. ASSUME Goto("mark"), UNCHANGED <<rec, custody, out, tries>> PROVE IInv'
    <3>1. Ready(rec, "mark", proc.role)
      BY <1>7 DEF Reserve, Role, IInv, Ready, NextStep, At, Roles
    <3> QED BY <1>1, <2>1, <3>1, GotoKeeps
  <2> QED BY <1>7, <2>1, HaltKeeps DEF Reserve
<1> QED BY <1>2, <1>3, <1>4, <1>5, <1>6, <1>7

(* The mark of a phase changes the role in hand and no other.               *)
LEMMA Marking ==
  ASSUME IInv
  PROVE  /\ Role \in Steps \ {"mark"} /\ Role \in Roles /\ rec \in Record
         /\ PendingState \in {"bootstrap_pending", "user_operation_pending"}
         /\ \A phase \in {"signing_started", "sealed"} :
              /\ Marked(phase) \in Record /\ Marked(phase).state = PendingState
              /\ Marked(phase)[Role] = phase
              /\ Marked(phase).bootstrap = IF Role = "bootstrap" THEN phase ELSE rec.bootstrap
              /\ Marked(phase).user_operation =
                   IF Role = "user_operation" THEN phase ELSE rec.user_operation
<1>1. /\ Role \in Steps \ {"mark"} /\ Role \in Roles /\ rec \in Record
      /\ PendingState \in States
      /\ PendingState \in {"bootstrap_pending", "user_operation_pending"}
  BY StateNames DEF Steps, IInv, Typed, Command, Role, Roles, PendingState
<1>2. ASSUME NEW phase \in {"signing_started", "sealed"}
      PROVE  /\ Marked(phase) \in Record /\ Marked(phase).state = PendingState
             /\ Marked(phase)[Role] = phase
             /\ Marked(phase).bootstrap = IF Role = "bootstrap" THEN phase ELSE rec.bootstrap
             /\ Marked(phase).user_operation =
                  IF Role = "user_operation" THEN phase ELSE rec.user_operation
  <2>1. phase \in BootstrapPhases /\ phase \in UserPhases
    BY DEF BootstrapPhases, UserPhases
  <2>2. CASE Role = "bootstrap"
    <3>1. Marked(phase) = [[rec EXCEPT !.state = PendingState] EXCEPT !["bootstrap"] = phase]
      BY <2>2 DEF Marked, To
    <3>2. /\ Marked(phase) \in Record /\ Marked(phase).state = PendingState
          /\ Marked(phase).bootstrap = phase
          /\ Marked(phase).user_operation = rec.user_operation
      BY <1>1, <2>1, <3>1 DEF Record
    <3> QED BY <2>2, <3>2, Phase
  <2>3. CASE Role = "user_operation"
    <3>1. Marked(phase) = [[rec EXCEPT !.state = PendingState] EXCEPT !["user_operation"] = phase]
      BY <2>3 DEF Marked, To
    <3>2. /\ Marked(phase) \in Record /\ Marked(phase).state = PendingState
          /\ Marked(phase).bootstrap = rec.bootstrap
          /\ Marked(phase).user_operation = phase
      BY <1>1, <2>1, <3>1 DEF Record
    <3> QED BY <2>3, <3>2, Phase
  <2> QED BY <1>1, <2>2, <2>3 DEF Roles
<1> QED BY <1>1, <1>2

(* Signing: the mark, the seal in custody, its load.                         *)
LEMMA SigningKeeps == ASSUME IInv, Mark \/ Seal \/ Load PROVE IInv'
<1>1. /\ "seal" \in Steps /\ "load" \in Steps /\ Role \in Steps /\ Role \in Roles
      /\ rec \in Record /\ PendingState \in States
      /\ PendingState \notin {"none", "awaiting_approval"}
  BY StateNames DEF Steps, IInv, Typed, Command, Role, Roles, PendingState
<1>2. ASSUME NEW phase \in {"signing_started", "sealed"}
      PROVE  /\ Marked(phase) \in Record /\ Marked(phase).state = PendingState
             /\ Marked(phase)[Role] = phase
             /\ Marked(phase).bootstrap = IF Role = "bootstrap" THEN phase ELSE rec.bootstrap
             /\ Marked(phase).user_operation =
                  IF Role = "user_operation" THEN phase ELSE rec.user_operation
  BY Marking
<1>3. {"signing_started", "sealed", "checked"} \cap Submitted = {}
  BY DEF Submitted, Proven
<1>4. CASE Mark
  <2> DEFINE next == Marked("signing_started")
  <2>1. /\ rec[Role] = "unsealed" /\ rec.user_operation \notin Submitted
        /\ Role = "user_operation" => rec.bootstrap = "checked"
    BY <1>4 DEF Mark, IInv, Ready, NextStep, At, Role
  <2>2. tries[Role] = 0
    BY <1>1, <2>1 DEF IInv, RecordIsAhead
  <2>3. Ready(next, "seal", Role)
    BY <1>1, <1>2, <1>3, <2>1, <2>2 DEF Ready, Roles
  <2>4. ASSUME Save(next, "seal") PROVE IInv'
    <3>1. /\ next \in Record /\ Ready(next, "seal", proc.role)
          /\ next.bootstrap = "checked" => rec.bootstrap = "checked"
          /\ next.user_operation = "signing_started" => rec.bootstrap = "checked"
          /\ next.state \notin {"none", "awaiting_approval"}
      BY <1>1, <1>2, <2>1, <2>3 DEF Role, Roles, IInv, RecordIsAhead
    <3> QED BY <1>1, <2>4, <3>1, SaveKeeps
  <2> QED BY <1>4, <2>4, HaltKeeps DEF Mark
<1>5. CASE Load
  <2> DEFINE next == Marked("sealed")
  <2>1. /\ rec[Role] # "unsealed" /\ rec.user_operation \notin Submitted
        /\ Role = "user_operation" => rec.bootstrap = "checked"
    BY <1>5 DEF Load, IInv, Ready, NextStep, At, Role
  <2>2. ASSUME Save(next, Role) PROVE IInv'
    <3>1. Ready(next, Role, Role)
      BY <1>1, <1>2, <1>3, <2>1 DEF Ready, Roles
    <3>2. /\ next \in Record /\ Ready(next, Role, proc.role)
          /\ next.bootstrap = "checked" => rec.bootstrap = "checked"
          /\ next.user_operation = "signing_started" => rec.bootstrap = "checked"
          /\ next.state \notin {"none", "awaiting_approval"}
      BY <1>1, <1>2, <2>1, <3>1 DEF Role, Roles, IInv, RecordIsAhead
    <3> QED BY <1>1, <2>2, <3>2, SaveKeeps
  <2>3. ASSUME PassTo(Role), rec[Role] # "signing_started" PROVE IInv'
    <3>1. Ready(rec, Role, proc.role)
      BY <1>1, <2>1, <2>3 DEF Ready, Roles, Role
    <3> QED BY <1>1, <2>3, <3>1, GotoKeeps DEF PassTo, disk
  <2> QED BY <1>5, <2>2, <2>3, HaltKeeps DEF Load
<1>6. CASE Seal
  <2>1. /\ rec[Role] # "unsealed" /\ rec.user_operation \notin Submitted
        /\ tries[Role] = 0
        /\ Role = "user_operation" => rec.bootstrap = "checked"
    BY <1>6 DEF Seal, IInv, Ready, NextStep, At, Role
  <2>2. /\ UNCHANGED <<rec, out>>
        /\ proc' = [proc EXCEPT !.at = "load", !.fresh = TRUE]
        /\ custody' \subseteq Roles
        /\ tries' = tries \/ tries' = [tries EXCEPT ![Role] = @ + 1]
    BY <1>1, <1>6 DEF Seal, IInv, Typed
  <2>3. /\ tries' \in [Roles \cup {"disclosure", "send"} -> 0..1]
        /\ \A what \in (Roles \cup {"disclosure", "send"}) \ {Role} : tries'[what] = tries[what]
    BY <1>1, <2>1, <2>2 DEF IInv, Typed
  <2>4. /\ proc' \in Command /\ proc'.role = Role /\ NextStep' = "load"
    BY <1>1, <2>2 DEF IInv, Typed, Command, NextStep, At, Role
  <2>5. RecordIsAhead'
    <3>1. /\ tries'["disclosure"] = tries["disclosure"] /\ tries'["send"] = tries["send"]
          /\ \A role \in Roles : rec[role] = "unsealed" => tries'[role] = 0
      BY <1>1, <2>1, <2>3 DEF IInv, RecordIsAhead, Roles
    <3> QED BY <2>2, <3>1 DEF IInv, RecordIsAhead
  <2>6. Ready(rec, NextStep, proc.role)'
    BY <2>1, <2>2, <2>4 DEF Ready, Roles
  <2> QED BY <2>2, <2>3, <2>4, <2>5, <2>6 DEF IInv, Typed
<1> QED BY <1>4, <1>5, <1>6

(* The bootstrap is disclosed, and its estimate noted.                       *)
LEMMA DisclosingKeeps ==
  ASSUME IInv, Disclose \/ estimate \/ Estimated \/ Checked PROVE IInv'
<1>1. /\ rec \in Record /\ proc \in Command
      /\ {"disclose", "bootstrap", "estimated", "unestimated", "material"} \subseteq Steps
      /\ {"bootstrap_pending", rec.state} \subseteq States
      /\ {"disclosure_started", "checked"} \subseteq BootstrapPhases
      /\ {"sealed", "disclosure_started"} \cap {"checked"} = {}
  BY Phase, StateNames DEF Steps, IInv, Typed, BootstrapPhases, Disclosed
<1>2. CASE Disclose
  <2> DEFINE next == [To("bootstrap_pending") EXCEPT !.bootstrap = "disclosure_started"]
  <2>1. /\ rec.bootstrap = "sealed" /\ rec.user_operation \notin Submitted
        /\ proc.role = "bootstrap"
    BY <1>2 DEF Disclose, IInv, Ready, NextStep, At, Roles
  <2>2. tries.disclosure = 0 /\ rec.user_operation = "unsealed"
    BY <2>1 DEF IInv, RecordIsAhead, Disclosed
  <2>3. /\ next \in Record /\ next.state = "bootstrap_pending"
        /\ next.bootstrap = "disclosure_started"
        /\ next.user_operation = rec.user_operation
    BY <1>1 DEF To, Record
  <2>4. ASSUME Save(next, "disclose") PROVE IInv'
    <3>1. Ready(next, "disclose", proc.role)
      BY <2>1, <2>2, <2>3 DEF Ready, Roles
    <3>2. /\ next.bootstrap # "checked" /\ next.user_operation # "signing_started"
          /\ next.state \notin {"none", "awaiting_approval"}
      BY <2>2, <2>3
    <3> HIDE DEF next
    <3> QED BY <1>1, <2>3, <2>4, <3>1, <3>2, SaveKeeps
  <2> QED BY <1>2, <2>4, HaltKeeps DEF Disclose
<1>3. CASE estimate
  <2>1. /\ rec.bootstrap = "disclosure_started" /\ proc.role = "bootstrap"
        /\ tries.disclosure = 0
    BY <1>3 DEF estimate, IInv, Ready, NextStep, At
  <2>2. ASSUME PassTo("unestimated") PROVE IInv'
    BY <2>2, Harmless, GotoKeeps DEF PassTo, disk
  <2>3. ASSUME NEW step \in {"estimated", "unestimated"}, Goto(step),
               UNCHANGED <<rec, custody>>, out' = out \cup {"bootstrap"},
               tries' = [tries EXCEPT !.disclosure = @ + 1]
        PROVE  IInv'
    <3>1. proc' = [proc EXCEPT !.at = step]
      BY <2>3 DEF Goto
    <3>2. proc' \in Command /\ proc'.role = "bootstrap" /\ proc'.at = step
      BY <1>1, <2>1, <2>3, <3>1 DEF Command
    <3>3. NextStep' = step
      BY <2>3, <3>2 DEF NextStep, At
    <3>4. /\ tries' \in [Roles \cup {"disclosure", "send"} -> 0..1]
          /\ \A role \in Roles : tries'[role] = tries[role]
          /\ tries'.send = tries.send
      BY <2>1, <2>3 DEF IInv, Typed, Roles
    <3>5. Ready(rec, NextStep, proc.role)'
      BY <2>1, <2>3, <3>2, <3>3 DEF Ready, Roles
    <3>6. RecordIsAhead'
      BY <2>1, <2>3, <3>4 DEF IInv, RecordIsAhead, Disclosed
    <3> QED BY <2>3, <3>2, <3>4, <3>5, <3>6 DEF IInv, Typed, Roles
  <2> QED BY <1>3, <2>2, <2>3 DEF estimate, disk
<1>4. CASE Estimated
  <2> DEFINE next == [rec EXCEPT !.bootstrap = "checked"]
  <2>1. ASSUME At("estimated"), Save(next, "bootstrap") PROVE IInv'
    <3>1. /\ rec.bootstrap = "disclosure_started" /\ proc.role = "bootstrap"
          /\ "bootstrap" \in out
      BY <2>1 DEF IInv, Ready, NextStep, At
    <3>2. rec.user_operation = "unsealed"
      BY <3>1 DEF IInv, RecordIsAhead
    <3>3. /\ next \in Record /\ next.state = rec.state /\ next.bootstrap = "checked"
          /\ next["bootstrap"] = "checked" /\ next.user_operation = rec.user_operation
      BY <1>1 DEF Record
    <3> HIDE DEF next
    <3>4. Ready(next, "bootstrap", proc.role)
      BY <3>1, <3>2, <3>3 DEF Ready, Roles, Submitted, Proven
    <3> QED BY <1>1, <2>1, <3>1, <3>2, <3>3, <3>4, SaveKeeps
  <2> QED BY <1>4, <2>1, HaltKeeps DEF Estimated
<1>5. CASE Checked
  <2>1. /\ rec.bootstrap = "checked" /\ rec.user_operation \notin Submitted
        /\ UNCHANGED <<rec, custody, out, tries>>
        /\ proc' = [proc EXCEPT !.at = "material", !.role = "user_operation", !.fresh = FALSE]
    BY <1>5 DEF Checked, disk, IInv, Ready, NextStep, At, Roles
  <2>2. proc' \in Command /\ proc'.role = "user_operation" /\ NextStep' = "material"
    BY <1>1, <2>1 DEF Command, Roles, NextStep, At
  <2>3. Ready(rec, NextStep, proc.role)'
    BY <2>1, <2>2 DEF Ready, Roles
  <2> QED BY <2>1, <2>2, <2>3 DEF IInv, Typed, RecordIsAhead
<1> QED BY <1>2, <1>3, <1>4, <1>5

(* The UserOperation is sent by its own command, or under fresh consent.     *)
LEMMA SubmittingKeeps ==
  ASSUME IInv, Save(Submitting, "send"), rec.user_operation \notin Submitted,
         rec.bootstrap = "checked"
  PROVE  IInv'
<1> DEFINE next == Submitting
<1>1. /\ rec \in Record /\ "user_operation_pending" \in States
      /\ "submitting" \in UserPhases /\ "send" \in Steps
  BY StateNames DEF IInv, Typed, UserPhases, Submitted, Steps
<1>2. /\ next \in Record /\ next.state = "user_operation_pending"
      /\ next.bootstrap = rec.bootstrap /\ next.user_operation = "submitting"
  BY <1>1 DEF Submitting, To, Record
<1>3. Ready(next, "send", proc.role)
  BY <1>2 DEF Ready, IInv, RecordIsAhead, Roles
<1> HIDE DEF next
<1> QED BY <1>1, <1>2, <1>3, SaveKeeps DEF next

LEMMA SendingKeeps == ASSUME IInv, Submit \/ send \/ Sent PROVE IInv'
<1>1. CASE Submit
  <2>1. rec.user_operation \notin Submitted /\ rec.bootstrap = "checked"
    BY <1>1 DEF Submit, IInv, Ready, NextStep, At, Roles
  <2> QED BY <1>1, <2>1, SubmittingKeeps, HaltKeeps DEF Submit
<1>2. CASE send
  <2>1. ASSUME PassTo("unanswered") PROVE IInv'
    BY <2>1, Harmless, GotoKeeps DEF PassTo, disk
  <2>2. ASSUME NEW step \in {"acknowledged", "unanswered"}, Goto(step),
               UNCHANGED <<rec, custody>>, out' = out \cup {"user_operation"},
               tries' = [tries EXCEPT !.send = @ + 1]
        PROVE  IInv'
    <3>1. rec.user_operation = "submitting" /\ tries.send = 0 /\ rec.bootstrap = "checked"
      BY <1>2 DEF send, IInv, RecordIsAhead, Ready, NextStep, At
    <3>2. step \in Steps /\ proc \in Command /\ proc' = [proc EXCEPT !.at = step]
      BY <2>2 DEF Goto, Steps, IInv, Typed
    <3>3. proc' \in Command /\ proc'.at = step
      BY <3>2 DEF Command
    <3>4. NextStep' = step
      BY <2>2, <3>3 DEF NextStep, At
    <3>5. /\ tries' \in [Roles \cup {"disclosure", "send"} -> 0..1]
          /\ \A role \in Roles : tries'[role] = tries[role]
          /\ tries'.disclosure = tries.disclosure
      BY <2>2, <3>1 DEF IInv, Typed, Roles
    <3>6. Ready(rec, NextStep, proc.role)'
      BY <2>2, <3>1, <3>4 DEF Ready, Roles
    <3>7. RecordIsAhead'
      BY <2>2, <3>1, <3>5 DEF IInv, RecordIsAhead, Submitted
    <3> QED BY <2>2, <3>3, <3>5, <3>6, <3>7 DEF IInv, Typed, Roles
  <2> QED BY <1>2, <2>1, <2>2 DEF send, disk
<1>3. CASE Sent
  <2>1. ASSUME NEW answer \in {"submitted_pending", "unknown_finality"},
               Save([To(answer) EXCEPT !.user_operation = answer], "idle")
        PROVE  IInv'
    <3> DEFINE next == [To(answer) EXCEPT !.user_operation = answer]
    <3>1. rec \in Record /\ answer \in States /\ answer \in UserPhases
      BY StateNames DEF IInv, Typed, UserPhases, Submitted
    <3>2. /\ next \in Record /\ next.state = answer
          /\ next.bootstrap = rec.bootstrap /\ next.user_operation = answer
      BY <3>1 DEF To, Record
    <3>3. "idle" \in Steps /\ Ready(next, "idle", proc.role)
      BY <3>2, Harmless DEF Ready, IInv, Roles
    <3> HIDE DEF next
    <3> QED BY <2>1, <3>2, <3>3, SaveKeeps DEF next
  <2> QED BY <1>3, <2>1 DEF Sent
<1> QED BY <1>1, <1>2, <1>3

LEMMA LateKeeps ==
  ASSUME IInv, LateScreen \/ LateAnswer \/ LateRecheck PROVE IInv'
<1>1. ASSUME NEW step \in {"idle", "late_ask"}, PassTo(step) PROVE IInv'
  BY <1>1, Harmless, GotoKeeps DEF PassTo, disk
<1>2. ASSUME Save(rec, "late_recheck") PROVE IInv'
  <2>1. rec \in Record /\ rec.state \in States
    BY Phase DEF IInv, Typed
  <2>2. "late_recheck" \in Steps /\ Ready(rec, "late_recheck", proc.role)
    BY Harmless
  <2> QED BY <1>2, <2>1, <2>2, SaveKeeps DEF IInv, RecordIsAhead
<1>3. ASSUME Save(To("unknown_finality"), "idle") PROVE IInv'
  BY <1>3, Harmless, StateNames, ToKeeps
<1>4. ASSUME LateGuardPasses, Save(Submitting, "send") PROVE IInv'
  <2>1. rec.bootstrap = "checked" /\ rec.user_operation \notin Submitted
    BY <1>4 DEF LateGuardPasses, assertSealedFirstSend, Submitted, Proven
  <2> QED BY <1>4, <2>1, SubmittingKeeps
<1> QED BY <1>1, <1>2, <1>3, <1>4 DEF LateScreen, LateAnswer, LateRecheck

(* An observation changes the phase of what was submitted, and no other.     *)
LEMMA ObservingKeeps == ASSUME IInv, observe PROVE IInv'
<1>1. ASSUME NEW state \in {"unknown_finality", "submitted_pending", "completed",
                            "failed_confirmed_revert", "failed_permissions_invalidated"},
             NEW phase \in {rec.user_operation} \cup Proven,
             Save(Observed(state, phase), "idle")
      PROVE  IInv'
  <2> DEFINE next == Observed(state, phase)
  <2>1. /\ rec \in Record /\ state \in States /\ phase \in UserPhases
        /\ state \notin {"none", "awaiting_approval"}
    BY Phase, StateNames DEF IInv, Typed, UserPhases, Submitted
  <2>2. /\ next \in Record /\ next.state = state
        /\ next.bootstrap = rec.bootstrap /\ next.user_operation = phase
    BY <2>1 DEF Observed, Record
  <2>3. /\ "idle" \in Steps /\ Ready(next, "idle", proc.role)
        /\ phase = "signing_started" => rec.bootstrap = "checked"
    BY <2>2, Harmless DEF Ready, IInv, RecordIsAhead, Roles, Proven
  <2> HIDE DEF next
  <2> QED BY <1>1, <2>1, <2>2, <2>3, SaveKeeps DEF next
<1>2. ASSUME Save(To("unknown_finality"), "idle") PROVE IInv'
  BY <1>2, Harmless, StateNames, ToKeeps
<1> QED BY <1>1, <1>2 DEF observe, Proven

-----------------------------------------------------------------------------
(* Commands begin from what is durable, and the world leaves that alone.     *)
LEMMA BeginningKeeps ==
  ASSUME IInv, Prepare \/ Abandon \/ (\E kind \in Kinds : Begin(kind)) PROVE IInv'
<1>1. ASSUME NEW state \in {"awaiting_approval", "abandoned_unknown"}, At("idle"),
             rec' = To(state), UNCHANGED <<custody, proc, out, tries>>,
             state = "awaiting_approval" => rec.state = "none"
      PROVE  IInv'
  <2>1. rec \in Record /\ state \in States
    BY StateNames DEF IInv, Typed
  <2>2. /\ rec' \in Record /\ rec'.state = state
        /\ rec'.bootstrap = rec.bootstrap /\ rec'.user_operation = rec.user_operation
    BY <1>1, <2>1, Rewriting DEF To
  <2>3. \A role \in Roles : rec'[role] = rec[role]
    BY <2>1, <2>2, Phase DEF Roles
  <2>4. RecordIsAhead'
    BY <1>1, <2>2, <2>3 DEF IInv, RecordIsAhead
  <2>5. NextStep' = "idle" /\ Ready(rec, NextStep, proc.role)'
    BY <1>1, <2>2 DEF NextStep, At, IInv, Ready, Roles
  <2> QED BY <1>1, <2>2, <2>4, <2>5 DEF IInv, Typed
<1>2. ASSUME NEW kind \in Kinds, Begin(kind) PROVE IInv'
  <2>1. At("idle") /\ UNCHANGED <<rec, custody, out, tries>>
    BY <1>2 DEF Begin
  <2>2. CASE FirstStep(kind) = "late_screen"
    <3>1. proc' = [Idle EXCEPT !.at = "late_screen", !.late = TRUE]
      BY <1>2, <2>2 DEF Begin
    <3>2. "late_screen" \in Steps /\ Idle \in Command /\ Idle.role = "bootstrap"
      BY Resting DEF Steps
    <3>3. proc' \in Command /\ proc'.at = "late_screen" /\ proc'.role = "bootstrap"
      BY <3>1, <3>2 DEF Command
    <3>4. NextStep' = "late_screen" /\ Ready(rec, NextStep, proc.role)'
      BY <2>1, <3>3 DEF NextStep, At, Ready, Roles
    <3> QED BY <2>1, <3>3, <3>4 DEF IInv, Typed, RecordIsAhead
  <2>3. CASE FirstStep(kind) # "late_screen"
    <3>1. Goto(FirstStep(kind))
      BY <1>2, <2>3 DEF Begin
    <3>2. FirstStep(kind) \in {"screen", "advance", "observe", "idle"}
      BY <1>2, <2>3 DEF FirstStep, Kinds
    <3>3. FirstStep(kind) = "screen" => rec.state = "awaiting_approval"
      BY <1>2, <2>3 DEF FirstStep, Kinds
    <3>4. CASE FirstStep(kind) = "screen"
      <4>1. "screen" \in Steps /\ rec.user_operation \notin Submitted
        BY <3>3, <3>4 DEF Steps, IInv, RecordIsAhead, Submitted, Proven
      <4>2. Ready(rec, "screen", proc.role)
        BY <4>1 DEF Ready, IInv, Roles
      <4> QED BY <2>1, <3>1, <3>4, <4>1, <4>2, GotoKeeps
    <3>5. CASE FirstStep(kind) # "screen"
      BY <2>1, <3>1, <3>2, <3>5, Harmless, GotoKeeps
    <3> QED BY <3>4, <3>5
  <2> QED BY <2>2, <2>3
<1>3. CASE Prepare
  BY <1>1, <1>3 DEF Prepare
<1>4. CASE Abandon
  BY <1>1, <1>4 DEF Abandon, AbandonReady
<1> QED BY <1>2, <1>3, <1>4

LEMMA WorldKeeps == ASSUME IInv, World \/ UNCHANGED vars PROVE IInv'
<1>1. CASE Stop
  <2>1. UNCHANGED <<rec, custody, out, tries>> /\ proc' = Idle
    BY <1>1 DEF Stop, disk
  <2>2. NextStep' = "idle" /\ proc' \in Command /\ proc'.role = "bootstrap"
    BY <2>1, Resting DEF NextStep, At
  <2>3. Ready(rec, NextStep, proc.role)'
    BY <2>1, <2>2 DEF Ready, Roles
  <2> QED BY <2>1, <2>2, <2>3 DEF IInv, Typed, RecordIsAhead
<1>2. CASE UNCHANGED <<rec, custody, proc, out, tries>>
  BY <1>2 DEF IInv, Typed, RecordIsAhead, Ready, NextStep, At
<1> QED BY <1>1, <1>2 DEF World, Tick, Land, Revoke, UseNonce, SafeAdvance, Reorg,
           Rest, disk, vars

LEMMA NextKeeps == IInv /\ [Next]_vars => IInv'
BY PreparingKeeps, SigningKeeps, DisclosingKeeps, SendingKeeps, LateKeeps,
   ObservingKeeps, BeginningKeeps, WorldKeeps DEF Next, Step

(* "A recorded signing, disclosure or send attempt is never repeated"        *)
(* (docs/gasless.md): each effect of the transfer is signed at most once and *)
(* leaves at most once, the UserOperation never before its bootstrap, over   *)
(* any number of stopped commands, also under the fresh consent of           *)
(* approve-sealed (execution.ts, first-send-execution.ts).                   *)
THEOREM EffectsLeaveOnce == Spec => []SentOnce
<1>1. IInv => SentOnce
  BY DEF IInv, Typed, RecordIsAhead, SentOnce
<1> QED BY <1>1, InitIInv, NextKeeps, PTL DEF Spec

-----------------------------------------------------------------------------
(* The chain, the ledger and what left APN bear the record out.              *)
Accounts == [nonce : {"free", "own_ok", "own_revert", "other"},
             permits : {"live", "void"}]
Own == {"own_ok", "own_revert"}

(* Latest blocks extend the safe one, and the account's nonce is used by     *)
(* its own UserOperation only if that left.                                  *)
ChainFits ==
  /\ head \in Accounts /\ safe \in Accounts
  /\ head.nonce \in Own \/ safe.nonce \in Own => "user_operation" \in out
  /\ safe.nonce # "free" => head.nonce = safe.nonce
  /\ safe.permits = "void" => head.permits = "void"

OutIsRecorded ==
  /\ rec.bootstrap \notin Disclosed => "bootstrap" \notin out
  /\ rec.user_operation \notin Submitted => "user_operation" \notin out

(* What a record may call an outcome.                                        *)
Grounds(r) ==
  /\ r.state = "completed" => safe.nonce = "own_ok"
  /\ r.state = "failed_confirmed_revert" => safe.nonce = "own_revert"
  /\ r.state = "failed_before_effect" => Undisclosed(r)
  /\ r.state = "failed_permissions_invalidated" =>
       /\ safe.permits = "void"
       /\ r.user_operation = "unsealed" \/ safe.nonce = "other"

Untouched(r) == r.bootstrap = "unsealed" /\ r.user_operation = "unsealed"

(* Nothing is signed without a hold, and a hold is settled by an outcome.    *)
LeaseFits ==
  /\ lease \in LeaseStates
  /\ lease = "none" => Untouched(rec) /\ NextStep # "mark"
  /\ lease \in Released \cup {"finalized"} => Target(rec) = lease

Evidence == ChainFits /\ OutIsRecorded /\ Grounds(rec) /\ LeaseFits

(* A step of a command writes the record, the ledger, or lets an effect out. *)
Writes == /\ UNCHANGED <<lease, out, head, safe>> /\ NextStep' # "mark"
          /\ \/ rec' = rec
             \/ rec.state = "none" /\ rec' = To("awaiting_approval")
             \/ \E next \in Record : /\ Valid(next) /\ rec' = next /\ Grounds(next)
                                     /\ lease = "none" => Untouched(next)
Books ==
  /\ UNCHANGED <<rec, out, head, safe>>
  /\ \/ lease' = lease /\ (NextStep' = "mark" => NextStep = "mark")
     \/ lease \in {"none", "reserved"} /\ lease' = "reserved"
     \/ Followable /\ lease' = Reconciled /\ (NextStep' = "mark" => NextStep = "mark")
LetsOut ==
  /\ UNCHANGED <<rec, lease, head, safe>> /\ NextStep' # "mark"
  /\ \/ rec.bootstrap \in Disclosed /\ out' = out \cup {"bootstrap"}
     \/ rec.user_operation = "submitting" /\ out' = out \cup {"user_operation"}
CommandStep == Writes \/ Books \/ LetsOut

(* A save, refused or not.                                                   *)
LEMMA Saved ==
  ASSUME Typed, NEW next \in Record, NEW step \in Steps, Save(next, step)
  PROVE  /\ UNCHANGED <<lease, out, head, safe>>
         /\ \/ Valid(next) /\ rec' = next /\ NextStep' = step
            \/ rec' = rec /\ NextStep' = "idle"
<1>1. UNCHANGED <<lease, out, head, safe>>
  BY DEF Save, world, chain
<1>2. CASE Valid(next)
  <2>1. rec' = next /\ proc' = [proc EXCEPT !.at = "follow", !.then = step]
    BY <1>2 DEF Save
  <2>2. proc \in Command
    BY DEF Typed
  <2>3. proc'.at = "follow" /\ proc'.then = step
    BY <2>1, <2>2, Going
  <2> QED BY <1>1, <1>2, <2>1, <2>3 DEF NextStep, At
<1>3. CASE ~Valid(next)
  <2>1. rec' = rec /\ proc' = Idle
    BY <1>3 DEF Save, Goto
  <2> QED BY <1>1, <2>1, Resting DEF NextStep, At
<1> QED BY <1>2, <1>3

LEMMA SaveWrites ==
  ASSUME Typed, LeaseFits, NEW next \in Record, NEW step \in Steps \ {"mark"},
         Save(next, step), Valid(next) => Grounds(next),
         lease # "none" \/ Untouched(next)
  PROVE  Writes
<1>1. step \in Steps
  OBVIOUS
<1>2. /\ UNCHANGED <<lease, out, head, safe>>
      /\ \/ Valid(next) /\ rec' = next /\ NextStep' = step
         \/ rec' = rec /\ NextStep' = "idle"
  BY <1>1, Saved
<1> QED BY <1>2 DEF Writes

(* A new state alone is an outcome only where nothing was let out.           *)
LEMMA ToWrites ==
  ASSUME Typed, LeaseFits, NEW step \in Steps \ {"mark"},
         NEW state \in States \ {"completed", "failed_confirmed_revert",
                                 "failed_permissions_invalidated"},
         Save(To(state), step)
  PROVE  Writes
<1>1. /\ To(state) \in Record /\ To(state).state = state
      /\ To(state).bootstrap = rec.bootstrap
      /\ To(state).user_operation = rec.user_operation
  BY Rewriting DEF To, Typed
<1>2. Valid(To(state)) => Grounds(To(state))
  BY <1>1 DEF Valid, Grounds
<1>3. lease # "none" \/ Untouched(To(state))
  BY <1>1 DEF LeaseFits, Untouched
<1> QED BY <1>1, <1>2, <1>3, SaveWrites

LEMMA HaltWrites ==
  ASSUME Typed, LeaseFits, Halt \/ Save(Unknown, "idle") \/ Save(Unknown, "observe")
  PROVE  Writes
<1>1. {"idle", "observe"} \subseteq Steps \ {"mark"}
  BY DEF Steps
<1>2. {"failed_before_effect", "unknown_finality"} \subseteq
        States \ {"completed", "failed_confirmed_revert", "failed_permissions_invalidated"}
  BY StateNames
<1>3. \E step \in {"idle", "observe"} :
        \E state \in {"failed_before_effect", "unknown_finality"} : Save(To(state), step)
  BY DEF Halt, Unknown
<1> QED BY <1>1, <1>2, <1>3, ToWrites

LEMMA GotoBooks ==
  ASSUME Typed, NEW step \in Steps \ {"mark"}, Goto(step)
  PROVE  NextStep' # "mark" /\ NextStep' = step
<1>1. CASE step = "idle"
  BY <1>1, Resting DEF Goto, NextStep, At
<1>2. CASE step # "idle"
  <2>1. proc' = [proc EXCEPT !.at = step] /\ proc \in Command
    BY <1>2 DEF Goto, Typed
  <2>2. step \in Steps /\ step # "follow"
    BY DEF Steps
  <2>3. proc'.at = step
    BY <2>1, <2>2, Going
  <2> QED BY <2>2, <2>3 DEF NextStep, At
<1> QED BY <1>1, <1>2

LEMMA PassBooks ==
  ASSUME Typed, NEW step \in Steps \ {"mark"}, PassTo(step)
  PROVE  Books
<1>1. NextStep' # "mark"
  BY GotoBooks DEF PassTo
<1> QED BY <1>1 DEF Books, PassTo, disk, world, chain

(* What each command writes, books or lets out, and on which grounds.        *)
LEMMA PreparingSteps ==
  ASSUME IInv, LeaseFits, Follow \/ Screen \/ Answer \/ Advance \/ Material \/ Reserve
  PROVE  CommandStep
<1>1. /\ {"material", "ask", "load", "idle", "observe"} \subseteq Steps \ {"mark"}
      /\ "mark" \in Steps /\ Typed
  BY DEF Steps, IInv
<1>2. {"failed_before_effect", "execution_pending"} \subseteq
        States \ {"completed", "failed_confirmed_revert", "failed_permissions_invalidated"}
  BY StateNames
<1>3. CASE Follow
  <2>1. /\ UNCHANGED <<rec, out, head, safe>>
        /\ \/ lease' = lease
           \/ Followable /\ lease' = Reconciled
        /\ Goto(proc.then) \/ Goto("idle")
    BY <1>3 DEF Follow, world, chain
  <2>2. NextStep' = "mark" => NextStep = "mark"
    <3>1. NextStep = proc.then /\ proc.then \in Steps
      BY <1>1, <1>3 DEF Follow, NextStep, Typed, Command
    <3> QED BY <1>1, <2>1, <3>1, GotoBooks
  <2> QED BY <2>1, <2>2 DEF CommandStep, Books
<1>4. CASE Screen
  BY <1>1, <1>4, HaltWrites, PassBooks DEF Screen, CommandStep
<1>5. CASE Answer
  BY <1>1, <1>2, <1>5, HaltWrites, ToWrites DEF Answer, CommandStep
<1>6. CASE Advance
  BY <1>1, <1>2, <1>6, HaltWrites, ToWrites, PassBooks DEF Advance, CommandStep
<1>7. CASE Material
  BY <1>1, <1>7, PassBooks DEF Material, CommandStep
<1>8. CASE Reserve
  <2>1. ASSUME lease \in {"none", "reserved"}, lease' = "reserved",
               UNCHANGED <<rec, custody, out, tries, world>>
        PROVE  Books
    BY <2>1 DEF Books, world, chain
  <2> QED BY <1>1, <1>8, <2>1, HaltWrites DEF Reserve, CommandStep
<1> QED BY <1>3, <1>4, <1>5, <1>6, <1>7, <1>8

LEMMA SigningSteps ==
  ASSUME IInv, LeaseFits, Mark \/ Seal \/ Load
  PROVE  CommandStep
<1>1. /\ {"seal", "load", "idle"} \subseteq Steps \ {"mark"} /\ Typed
      /\ Role \in Steps \ {"mark"} /\ Role \in Roles
  BY Marking DEF Steps, IInv
<1>2. ASSUME NEW phase \in {"signing_started", "sealed"}, lease # "none",
             NEW step \in Steps \ {"mark"}, Save(Marked(phase), step)
      PROVE  Writes
  <2>1. /\ Marked(phase) \in Record /\ Marked(phase).state \notin Terminal
    BY Marking DEF Terminal
  <2>2. Grounds(Marked(phase))
    BY <2>1 DEF Grounds, Terminal
  <2> QED BY <1>1, <1>2, <2>1, <2>2, SaveWrites
<1>3. CASE Mark
  <2>1. lease # "none"
    BY <1>3 DEF Mark, LeaseFits, NextStep, At
  <2> QED BY <1>1, <1>2, <1>3, <2>1, HaltWrites DEF Mark, CommandStep
<1>4. CASE Load
  <2>1. rec[Role] # "unsealed"
    BY <1>4 DEF Load, IInv, Ready, NextStep, At, Role
  <2>2. lease # "none"
    BY <1>1, <2>1 DEF LeaseFits, Untouched, Roles
  <2> QED BY <1>1, <1>2, <1>4, <2>2, HaltWrites, PassBooks DEF Load, CommandStep
<1>5. CASE Seal
  <2>1. proc' = [proc EXCEPT !.at = "load", !.fresh = TRUE] /\ proc \in Command
    BY <1>1, <1>5 DEF Seal, Typed
  <2>2. NextStep' = "load"
    BY <2>1 DEF Command, NextStep, At
  <2> QED BY <1>5, <2>2 DEF Seal, CommandStep, Books, world, chain
<1> QED BY <1>3, <1>4, <1>5

LEMMA DisclosingSteps ==
  ASSUME IInv, Evidence, Disclose \/ estimate \/ Estimated \/ Checked
  PROVE  CommandStep
<1>1. /\ {"disclose", "bootstrap", "unestimated", "estimated", "idle"} \subseteq Steps \ {"mark"}
      /\ "bootstrap_pending" \in States /\ Typed /\ rec \in Record
      /\ {"disclosure_started", "checked"} \subseteq BootstrapPhases
      /\ LeaseFits /\ Grounds(rec)
  BY StateNames DEF Steps, IInv, Typed, BootstrapPhases, Disclosed, Evidence
<1>2. CASE Disclose
  <2> DEFINE next == [To("bootstrap_pending") EXCEPT !.bootstrap = "disclosure_started"]
  <2>1. lease # "none"
    BY <1>1, <1>2 DEF Disclose, LeaseFits, Untouched
  <2>2. next \in Record /\ next.state = "bootstrap_pending"
    BY <1>1 DEF To, Record
  <2>3. ASSUME Save(next, "disclose") PROVE Writes
    <3>1. Grounds(next)
      BY <2>2 DEF Grounds
    <3> HIDE DEF next
    <3> QED BY <1>1, <2>1, <2>2, <2>3, <3>1, SaveWrites
  <2> QED BY <1>1, <1>2, <2>3, HaltWrites DEF Disclose, CommandStep
<1>3. CASE estimate
  <2>1. rec.bootstrap \in Disclosed
    BY <1>3 DEF estimate, IInv, Ready, NextStep, At, Disclosed
  <2>2. ASSUME NEW step \in {"estimated", "unestimated"}, Goto(step),
               UNCHANGED <<disk, world>>, out' = out \cup {"bootstrap"}
        PROVE  LetsOut
    <3>1. NextStep' # "mark"
      BY <1>1, <2>2, GotoBooks
    <3> QED BY <2>1, <2>2, <3>1 DEF LetsOut, disk, world, chain
  <2> QED BY <1>1, <1>3, <2>2, PassBooks DEF estimate, CommandStep
<1>4. CASE Estimated
  <2> DEFINE next == [rec EXCEPT !.bootstrap = "checked"]
  <2>1. ASSUME At("estimated"), Save(next, "bootstrap") PROVE Writes
    <3>1. rec.bootstrap = "disclosure_started"
      BY <2>1 DEF IInv, Ready, NextStep, At
    <3>2. lease # "none"
      BY <1>1, <3>1 DEF LeaseFits, Untouched
    <3>3. /\ next \in Record /\ next.state = rec.state
          /\ next.user_operation = rec.user_operation /\ next.bootstrap = "checked"
      BY <1>1 DEF Record
    <3>4. Grounds(next)
      BY <1>1, <3>1, <3>3 DEF Grounds, Undisclosed, Disclosed
    <3> HIDE DEF next
    <3> QED BY <1>1, <2>1, <3>2, <3>3, <3>4, SaveWrites
  <2> QED BY <1>1, <1>4, <2>1, HaltWrites DEF Estimated, CommandStep
<1>5. CASE Checked
  <2>1. /\ UNCHANGED <<rec, lease, out, head, safe>> /\ proc \in Command
        /\ proc' = [proc EXCEPT !.at = "material", !.role = "user_operation", !.fresh = FALSE]
    BY <1>1, <1>5 DEF Checked, disk, world, chain, Typed
  <2>2. NextStep' = "material"
    BY <2>1 DEF Command, NextStep, At
  <2> QED BY <2>1, <2>2 DEF CommandStep, Books
<1> QED BY <1>2, <1>3, <1>4, <1>5

LEMMA SubmittingWrites ==
  ASSUME IInv, LeaseFits, Save(Submitting, "send"), rec.bootstrap = "checked"
  PROVE  Writes
<1> DEFINE next == Submitting
<1>1. /\ rec \in Record /\ "user_operation_pending" \in States /\ Typed
      /\ "submitting" \in UserPhases /\ "send" \in Steps \ {"mark"}
  BY StateNames DEF IInv, Typed, UserPhases, Submitted, Steps
<1>2. next \in Record /\ next.state = "user_operation_pending"
  BY <1>1 DEF Submitting, To, Record
<1>3. Grounds(next) /\ lease # "none"
  BY <1>2 DEF Grounds, LeaseFits, Untouched
<1> HIDE DEF next
<1> QED BY <1>1, <1>2, <1>3, SaveWrites DEF next

LEMMA SendingSteps ==
  ASSUME IInv, LeaseFits, Submit \/ send \/ Sent
  PROVE  CommandStep
<1>1. /\ {"idle", "acknowledged", "unanswered"} \subseteq Steps \ {"mark"}
      /\ Typed /\ rec \in Record
  BY DEF Steps, IInv, Typed
<1>2. CASE Submit
  <2>1. rec.bootstrap = "checked"
    BY <1>2 DEF Submit, IInv, Ready, NextStep, At, Roles
  <2> QED BY <1>1, <1>2, <2>1, HaltWrites, SubmittingWrites DEF Submit, CommandStep
<1>3. CASE send
  <2>1. rec.user_operation = "submitting"
    BY <1>3 DEF send, IInv, Ready, NextStep, At
  <2>2. ASSUME NEW step \in {"acknowledged", "unanswered"}, Goto(step),
               UNCHANGED <<disk, world>>, out' = out \cup {"user_operation"}
        PROVE  LetsOut
    <3>1. NextStep' # "mark"
      BY <1>1, <2>2, GotoBooks
    <3> QED BY <2>1, <2>2, <3>1 DEF LetsOut, disk, world, chain
  <2> QED BY <1>1, <1>3, <2>2, PassBooks DEF send, CommandStep
<1>4. CASE Sent
  <2>1. ASSUME NEW answer \in {"submitted_pending", "unknown_finality"},
               Save([To(answer) EXCEPT !.user_operation = answer], "idle"),
               At("acknowledged") \/ At("unanswered")
        PROVE  Writes
    <3> DEFINE next == [To(answer) EXCEPT !.user_operation = answer]
    <3>1. answer \in States /\ answer \in UserPhases
      BY StateNames DEF UserPhases, Submitted
    <3>2. next \in Record /\ next.state = answer /\ next.user_operation = answer
      BY <1>1, <3>1 DEF To, Record
    <3>3. Grounds(next)
      BY <3>2 DEF Grounds
    <3>4. lease # "none" \/ ~Valid(next)
      <4>1. rec.user_operation = "unsealed" => answer \notin PhaseEdges[rec.user_operation]
        BY <1>1, Phase, PhasesGoOn
      <4>2. Valid(next) => next["user_operation"] = rec["user_operation"]
                           \/ next["user_operation"] \in PhaseEdges[rec["user_operation"]]
        BY DEF Valid, Roles
      <4>3. next["user_operation"] = answer /\ rec["user_operation"] = rec.user_operation
        BY <1>1, <3>2, Phase
      <4> HIDE DEF next
      <4> QED BY <4>1, <4>2, <4>3 DEF LeaseFits, Untouched
    <3> HIDE DEF next
    <3>5. CASE Valid(next)
      BY <1>1, <2>1, <3>2, <3>3, <3>4, <3>5, SaveWrites DEF next
    <3>6. CASE ~Valid(next)
      <4>1. /\ UNCHANGED <<lease, out, head, safe>>
            /\ \/ Valid(next) /\ rec' = next /\ NextStep' = "idle"
               \/ rec' = rec /\ NextStep' = "idle"
        BY <1>1, <2>1, <3>2, Saved DEF next
      <4> QED BY <3>6, <4>1 DEF Writes
    <3> QED BY <3>5, <3>6
  <2> QED BY <1>4, <2>1 DEF Sent, CommandStep
<1> QED BY <1>2, <1>3, <1>4

LEMMA LateSteps ==
  ASSUME IInv, Evidence, LateScreen \/ LateAnswer \/ LateRecheck
  PROVE  CommandStep
<1>1. /\ {"idle", "late_ask", "late_recheck"} \subseteq Steps \ {"mark"}
      /\ Typed /\ rec \in Record /\ LeaseFits /\ Grounds(rec)
  BY DEF Steps, IInv, Typed, Evidence
<1>2. ASSUME Save(rec, "late_recheck") PROVE Writes
  <2>1. lease # "none" \/ Untouched(rec)
    BY <1>1 DEF LeaseFits
  <2> QED BY <1>1, <1>2, <2>1, SaveWrites
<1>3. "unknown_finality" \in States \ {"completed", "failed_confirmed_revert",
                                       "failed_permissions_invalidated"}
  BY StateNames
<1>4. ASSUME LateGuardPasses, Save(Submitting, "send") PROVE Writes
  BY <1>1, <1>4, SubmittingWrites DEF LateGuardPasses, assertSealedFirstSend
<1> QED BY <1>1, <1>2, <1>3, <1>4, ToWrites, PassBooks
        DEF LateScreen, LateAnswer, LateRecheck, CommandStep

(* Where the outcomes come from: the safe block, and no other.               *)
LEMMA ObservingSteps ==
  ASSUME IInv, LeaseFits, observe
  PROVE  CommandStep
<1>1. /\ "idle" \in Steps \ {"mark"} /\ Typed /\ rec \in Record
      /\ "unknown_finality" \in States \ {"completed", "failed_confirmed_revert",
                                          "failed_permissions_invalidated"}
  BY StateNames DEF Steps, IInv, Typed
<1>2. ASSUME NEW state \in {"unknown_finality", "submitted_pending", "completed",
                            "failed_confirmed_revert", "failed_permissions_invalidated"},
             NEW phase \in {rec.user_operation} \cup Proven,
             Save(Observed(state, phase), "idle"),
             phase = rec.user_operation \/ rec.user_operation \in Submitted,
             state = "completed" => safe.nonce = "own_ok",
             state = "failed_confirmed_revert" => safe.nonce = "own_revert",
             state = "failed_permissions_invalidated" =>
               /\ phase = rec.user_operation /\ safe.permits = "void"
               /\ rec.user_operation = "unsealed" \/ safe.nonce = "other"
      PROVE  Writes
  <2> DEFINE next == Observed(state, phase)
  <2>1. state \in States /\ phase \in UserPhases
    BY <1>1, Phase, StateNames DEF UserPhases, Submitted
  <2>2. /\ next \in Record /\ next.state = state
        /\ next.bootstrap = rec.bootstrap /\ next.user_operation = phase
    BY <1>1, <2>1 DEF Observed, Record
  <2>3. Grounds(next)
    BY <1>2, <2>2 DEF Grounds
  <2>4. lease # "none" \/ Untouched(next)
    BY <1>2, <2>2 DEF LeaseFits, Untouched, Submitted, Proven
  <2> HIDE DEF next
  <2> QED BY <1>1, <1>2, <2>2, <2>3, <2>4, SaveWrites DEF next
<1>3. Invalidated => /\ safe.permits = "void"
                     /\ rec.user_operation = "unsealed" \/ safe.nonce = "other"
  BY DEF Invalidated, VoidAt
<1>4. "safe_success" \in Proven /\ "safe_revert" \in Proven
  BY DEF Proven
<1> QED BY <1>1, <1>2, <1>3, <1>4, ToWrites DEF observe, CommandStep

LEMMA BeginningSteps ==
  ASSUME IInv, LeaseFits, Prepare \/ Abandon \/ (\E kind \in Kinds : Begin(kind))
  PROVE  CommandStep
<1>1. Typed /\ rec \in Record /\ "abandoned_unknown" \in States
  BY StateNames DEF IInv, Typed
<1>2. CASE Prepare
  <2>1. NextStep' # "mark"
    BY <1>2 DEF Prepare, NextStep, At
  <2> QED BY <1>2, <2>1 DEF Prepare, CommandStep, Writes, world, chain
<1>3. CASE Abandon
  <2>1. NextStep' # "mark" /\ UNCHANGED <<lease, out, head, safe>>
    BY <1>3 DEF Abandon, AbandonReady, NextStep, At, world, chain
  <2>2. Valid(To("abandoned_unknown")) /\ rec' = To("abandoned_unknown")
    BY <1>3 DEF Abandon, AbandonReady
  <2> DEFINE next == To("abandoned_unknown")
  <2>3. /\ next \in Record /\ next.state = "abandoned_unknown"
        /\ next.bootstrap = rec.bootstrap /\ next.user_operation = rec.user_operation
    BY <1>1, Rewriting DEF To
  <2>4. Grounds(next) /\ (lease = "none" => Untouched(next))
    BY <2>3 DEF Grounds, LeaseFits, Untouched
  <2> HIDE DEF next
  <2> QED BY <2>1, <2>2, <2>3, <2>4 DEF CommandStep, Writes, next
<1>4. ASSUME NEW kind \in Kinds, Begin(kind) PROVE Books
  <2>1. /\ UNCHANGED <<rec, out, head, safe>> /\ Followable /\ lease' = Reconciled
    BY <1>4 DEF Begin, world, chain
  <2>2. NextStep' # "mark"
    <3>1. CASE FirstStep(kind) = "late_screen"
      BY <1>4, <3>1 DEF Begin, Idle, NextStep, At
    <3>2. CASE FirstStep(kind) # "late_screen"
      <4>1. /\ Goto(FirstStep(kind))
            /\ FirstStep(kind) \in {"screen", "advance", "observe", "idle"}
        BY <1>4, <3>2 DEF Begin, FirstStep, Kinds
      <4>2. {"screen", "advance", "observe", "idle"} \subseteq Steps \ {"mark"}
        BY DEF Steps
      <4> QED BY <1>1, <4>1, <4>2, GotoBooks
    <3> QED BY <3>1, <3>2
  <2> QED BY <2>1, <2>2 DEF Books
<1> QED BY <1>2, <1>3, <1>4 DEF CommandStep

-----------------------------------------------------------------------------
(* A settled reservation has a record that is over, and says the same.       *)
LEMMA Settled ==
  ASSUME LeaseFits, lease \in Released \cup {"finalized"}
  PROVE  /\ rec.state \in Terminal /\ rec.state # "abandoned_unknown"
         /\ lease = "finalized" => rec.state = "completed"
         /\ lease \in {"failed_before_effect", "failed_confirmed_revert"} =>
              rec.state = lease
         /\ lease = "released_unsubmitted" =>
              /\ rec.state = "failed_permissions_invalidated"
              /\ rec.user_operation \notin Submitted
BY DEF LeaseFits, Released, Target, Terminal

(* The ledger follows: a reservation that is settled says what the record    *)
(* says, and one that was settled is left alone.                             *)
LEMMA Following ==
  ASSUME LeaseFits, Followable, lease' = Reconciled, lease' # lease
  PROVE  /\ lease \in LeaseStates \ ({"none", "finalized"} \cup Released)
         /\ lease' \in LeaseStates \ {"none"} /\ lease' = Target(rec)
<1>1. lease # "none" /\ Target(rec) # "none" /\ lease' = Target(rec)
  BY DEF Reconciled
<1>2. lease \notin Released \cup {"finalized"}
  BY <1>1 DEF Followable
<1>3. Target(rec) \in LeaseStates
  BY <1>1 DEF Target, LeaseStates
<1> QED BY <1>1, <1>2, <1>3 DEF LeaseFits

LEMMA CommandsKeepEvidence ==
  ASSUME IInv, Evidence, CommandStep
  PROVE  Evidence'
<1>1. /\ ChainFits /\ OutIsRecorded /\ Grounds(rec) /\ LeaseFits
      /\ UNCHANGED <<head, safe>> /\ rec \in Record
  BY DEF Evidence, CommandStep, Writes, Books, LetsOut, IInv, Typed
<1>2. ASSUME NEW next \in Record, Valid(next), rec' = next, Grounds(next),
             lease = "none" => Untouched(next), UNCHANGED <<lease, out>>,
             NextStep' # "mark"
      PROVE  Evidence'
  <2>1. /\ next.bootstrap = rec.bootstrap \/ next.bootstrap \in PhaseEdges[rec.bootstrap]
        /\ next.user_operation = rec.user_operation
           \/ next.user_operation \in PhaseEdges[rec.user_operation]
    BY <1>1, <1>2, Phase DEF Valid, Roles
  <2>2. /\ rec.bootstrap \in Disclosed => next.bootstrap \in Disclosed
        /\ rec.user_operation \in Submitted => next.user_operation \in Submitted
    BY <1>1, <2>1, Phase, PhasesGoOn
  <2>3. OutIsRecorded'
    BY <1>1, <1>2, <2>2 DEF OutIsRecorded
  <2>4. lease \notin Released \cup {"finalized"}
    BY <1>1, <1>2, Settled DEF Valid, Over
  <2>5. LeaseFits'
    BY <1>1, <1>2, <2>4 DEF LeaseFits
  <2>6. Grounds(rec)' /\ ChainFits'
    BY <1>1, <1>2 DEF Grounds, ChainFits
  <2> QED BY <2>3, <2>5, <2>6 DEF Evidence
<1>3. CASE Writes
  <2>1. CASE rec' = rec
    <3>1. UNCHANGED <<lease, out>> /\ NextStep' # "mark"
      BY <1>3 DEF Writes
    <3> QED BY <1>1, <2>1, <3>1 DEF Evidence, ChainFits, OutIsRecorded, Grounds, LeaseFits
  <2>2. CASE rec.state = "none" /\ rec' = To("awaiting_approval")
    <3>1. /\ rec'.state = "awaiting_approval" /\ rec'.bootstrap = rec.bootstrap
          /\ rec'.user_operation = rec.user_operation
          /\ UNCHANGED <<lease, out>> /\ NextStep' # "mark"
      BY <1>1, <1>3, <2>2, Rewriting, StateNames DEF To, Writes
    <3>2. lease \notin Released \cup {"finalized"}
      BY <1>1, <2>2, Settled DEF Terminal
    <3>3. LeaseFits'
      BY <1>1, <3>1, <3>2 DEF LeaseFits, Untouched
    <3> QED BY <1>1, <3>1, <3>3 DEF Evidence, ChainFits, OutIsRecorded, Grounds
  <2> QED BY <1>2, <1>3, <2>1, <2>2 DEF Writes
<1>4. CASE Books
  <2>1. UNCHANGED <<rec, out>>
    BY <1>4 DEF Books
  <2>2. LeaseFits'
    <3>1. CASE lease' = lease /\ (NextStep' = "mark" => NextStep = "mark")
      BY <1>1, <2>1, <3>1 DEF LeaseFits
    <3>2. CASE lease' = "reserved"
      BY <3>2 DEF LeaseFits, LeaseStates, Released
    <3>3. CASE /\ Followable /\ lease' = Reconciled /\ lease' # lease
               /\ NextStep' = "mark" => NextStep = "mark"
      <4>1. lease' \in LeaseStates \ {"none"} /\ lease' = Target(rec)
        BY <1>1, <3>3, Following
      <4> QED BY <2>1, <4>1 DEF LeaseFits
    <3> QED BY <1>4, <3>1, <3>2, <3>3 DEF Books
  <2> QED BY <1>1, <2>1, <2>2 DEF Evidence, ChainFits, OutIsRecorded, Grounds
<1>5. CASE LetsOut
  <2>1. UNCHANGED <<rec, lease>> /\ NextStep' # "mark"
    BY <1>5 DEF LetsOut
  <2>2. OutIsRecorded' /\ out \subseteq out'
    BY <1>1, <1>5, <2>1 DEF LetsOut, OutIsRecorded, Submitted
  <2>3. ChainFits'
    BY <1>1, <2>2 DEF ChainFits
  <2>4. Grounds(rec)' /\ LeaseFits'
    BY <1>1, <2>1 DEF Grounds, LeaseFits
  <2> QED BY <2>2, <2>3, <2>4 DEF Evidence
<1> QED BY <1>3, <1>4, <1>5 DEF CommandStep

LEMMA WorldKeepsEvidence ==
  ASSUME Evidence, World \/ UNCHANGED vars
  PROVE  Evidence'
<1>1. /\ UNCHANGED <<rec, lease, out>>
      /\ NextStep' = "mark" => NextStep = "mark"
  <2>1. UNCHANGED <<rec, lease, out>> /\ (proc' = proc \/ proc' = Idle)
    BY DEF World, Stop, Tick, Land, Revoke, UseNonce, SafeAdvance, Reorg, Rest, disk, vars
  <2> QED BY <2>1 DEF NextStep, At, Idle
<1>2. ChainFits /\ ChainFits'
  <2>1. ChainFits
    BY DEF Evidence
  <2>2. CASE Land
    BY <1>1, <2>1, <2>2 DEF Land, Rest, ChainFits, Accounts, Own
  <2>3. CASE Revoke \/ UseNonce
    BY <1>1, <2>1, <2>3 DEF Revoke, UseNonce, Rest, ChainFits, Accounts, Own
  <2>4. CASE SafeAdvance \/ Reorg
    BY <1>1, <2>1, <2>4 DEF SafeAdvance, Reorg, ChainFits
  <2>5. CASE Stop \/ Tick \/ UNCHANGED vars
    BY <1>1, <2>1, <2>5 DEF Stop, Tick, ChainFits, vars, world, chain
  <2> QED BY <2>1, <2>2, <2>3, <2>4, <2>5 DEF World
<1>3. /\ safe.nonce # "free" => safe'.nonce = safe.nonce
      /\ safe.permits = "void" => safe'.permits = "void"
  <2>1. safe' = safe \/ safe' = head
    BY DEF World, Stop, Tick, Land, Revoke, UseNonce, SafeAdvance, Reorg, Rest, chain,
           vars, world
  <2> QED BY <1>2, <2>1 DEF ChainFits
<1>4. Grounds(rec)'
  BY <1>1, <1>3 DEF Evidence, Grounds
<1>5. OutIsRecorded' /\ LeaseFits'
  BY <1>1 DEF Evidence, OutIsRecorded, LeaseFits
<1> QED BY <1>2, <1>4, <1>5 DEF Evidence

LEMMA EvidenceInitially == Init => Evidence
<1> SUFFICES ASSUME Init PROVE Evidence
  OBVIOUS
<1>1. ChainFits /\ OutIsRecorded
  BY DEF Init, ChainFits, OutIsRecorded, Accounts, Own
<1>2. Grounds(rec)
  BY DEF Init, Grounds
<1>3. LeaseFits
  BY DEF Init, LeaseFits, LeaseStates, Untouched, Released, NextStep, At, Idle
<1> QED BY <1>1, <1>2, <1>3 DEF Evidence

LEMMA NextIsStep ==
  ASSUME IInv, Evidence, [Next]_vars
  PROVE  CommandStep \/ World \/ UNCHANGED vars
<1>1. LeaseFits
  BY DEF Evidence
<1> QED BY <1>1, PreparingSteps, SigningSteps, DisclosingSteps, SendingSteps, LateSteps,
           ObservingSteps, BeginningSteps DEF Next, Step

LEMMA EvidenceKeeps == IInv /\ Evidence /\ [Next]_vars => Evidence'
BY NextIsStep, CommandsKeepEvidence, WorldKeepsEvidence

LEMMA EvidenceProves == IInv /\ Evidence => OutcomeIsProven
<1> SUFFICES ASSUME IInv, Evidence PROVE OutcomeIsProven
  OBVIOUS
<1>1. out \subseteq Roles /\ Grounds(rec) /\ OutIsRecorded
  BY DEF IInv, Typed, Evidence
<1>2. Undisclosed(rec) => out = {}
  BY <1>1 DEF Undisclosed, OutIsRecorded, Roles
<1>3. rec.user_operation = "unsealed" => "user_operation" \notin out
  BY <1>1 DEF OutIsRecorded, Submitted, Proven
<1> QED BY <1>1, <1>2, <1>3 DEF Grounds, OutcomeIsProven

(* What the record of a gasless transfer calls an outcome is one: completed  *)
(* and reverted are read at the safe block (observation.ts), a failure       *)
(* before the effect has let nothing out, and permits are called invalid     *)
(* only where no block can use them, in all the orders in which commands     *)
(* stop, blocks are replaced and the owner's own transactions land.          *)
THEOREM GaslessOutcomesAreProven == Spec => []OutcomeIsProven
BY InitIInv, NextKeeps, EvidenceInitially, EvidenceKeeps, EvidenceProves, PTL DEF Spec

-----------------------------------------------------------------------------
(* The transfer implements HeldPayment.                                      *)
holding == [o \in {"transfer"} |-> HoldOf]
paying == IF head.nonce = "own_ok" THEN {"transfer"} ELSE {}

LEMMA HeldSteps ==
  /\ Held!Init <=> holding = [o \in {"transfer"} |-> "none"] /\ paying = {}
  /\ Held!vars = <<holding, paying>>
  /\ \A o \in {"transfer"} :
       /\ Held!Take(o) <=>
            holding[o] = "none" /\ holding' = [holding EXCEPT ![o] = "held"] /\ paying' = paying
       /\ Held!Charge(o) <=>
            o \in paying /\ holding[o] = "held"
            /\ holding' = [holding EXCEPT ![o] = "charged"] /\ paying' = paying
       /\ Held!GiveBack(o) <=>
            o \notin paying /\ holding[o] = "held"
            /\ holding' = [holding EXCEPT ![o] = "given_back"] /\ paying' = paying
       /\ Held!Pay(o) <=>
            holding[o] = "held" /\ holding' = holding
            /\ paying' \in {paying \cup {o}, paying \ {o}}
BY DEF Held!Init, Held!vars, Held!Take, Held!Charge, Held!GiveBack, Held!Pay, Held!Decide,
       holding, paying

LEMMA HeldStutters ==
  ASSUME holding' = holding, paying' = paying
  PROVE  UNCHANGED Held!vars
BY DEF Held!vars, holding, paying

LEMMA HoldNames ==
  /\ lease = "none" => HoldOf = "none"
  /\ lease \in LeaseStates \ ({"none", "finalized"} \cup Released) => HoldOf = "held"
  /\ lease = "finalized" => HoldOf = "charged"
  /\ lease \in Released => HoldOf = "given_back"
BY DEF HoldOf, Released

LEMMA HoldMoves ==
  /\ holding["transfer"] = HoldOf /\ \A o \in {"transfer"} : o = "transfer"
  /\ holding' = [holding EXCEPT !["transfer"] = HoldOf']
  /\ HoldOf' = HoldOf => holding' = holding
BY DEF holding

(* A reservation that gives the amount back belongs to a transfer that can   *)
(* not be paid, and never could be.                                          *)
LEMMA GivenBackIsUnpaid ==
  ASSUME IInv, Evidence, Target(rec) \in Released
  PROVE  head.nonce # "own_ok"
         /\ (head.nonce = "free" => "user_operation" \notin out)
<1>1. OutcomeIsProven /\ ChainFits /\ OutIsRecorded
  BY EvidenceProves DEF Evidence
<1>2. \/ rec.state = "failed_before_effect"
      \/ rec.state = "failed_confirmed_revert"
      \/ rec.user_operation \notin Submitted
  BY DEF Target, Released
<1> QED BY <1>1, <1>2 DEF OutcomeIsProven, ChainFits, OutIsRecorded, Own

LEMMA CommandsHold ==
  ASSUME IInv, Evidence, CommandStep
  PROVE  [Held!Next]_(Held!vars)
<1>1. LeaseFits /\ ChainFits /\ paying' = paying
  BY DEF Evidence, CommandStep, Writes, Books, LetsOut, paying
<1>2. CASE HoldOf' = HoldOf
  BY <1>1, <1>2, HoldMoves, HeldStutters
<1>3. CASE lease' = lease
  BY <1>2, <1>3 DEF HoldOf
<1>4. CASE lease = "none" /\ lease' = "reserved"
  <2>1. HoldOf = "none" /\ HoldOf' = "held"
    BY <1>4 DEF HoldOf, Released
  <2>2. Held!Take("transfer")
    BY <1>1, <2>1, HoldMoves, HeldSteps
  <2> QED BY <2>2 DEF Held!Next
<1>5. CASE Followable /\ lease' = Reconciled /\ lease' # lease /\ UNCHANGED rec
  <2>1. /\ HoldOf = "held" /\ lease' \in LeaseStates \ {"none"} /\ lease' = Target(rec)
    BY <1>1, <1>5, Following, HoldNames
  <2>2. CASE lease' = "finalized"
    <3>1. rec.state = "completed"
      BY <2>1, <2>2 DEF Target
    <3>2. "transfer" \in paying
      BY <1>1, <3>1, EvidenceProves DEF OutcomeIsProven, ChainFits, paying
    <3>3. HoldOf' = "charged"
      BY <2>2 DEF HoldOf, Released
    <3>4. Held!Charge("transfer")
      BY <1>1, <2>1, <3>2, <3>3, HoldMoves, HeldSteps
    <3> QED BY <3>4 DEF Held!Next
  <2>3. CASE lease' \in Released
    <3>1. "transfer" \notin paying
      BY <2>1, <2>3, GivenBackIsUnpaid DEF paying
    <3>2. HoldOf' = "given_back"
      BY <2>3 DEF HoldOf, Released
    <3>3. Held!GiveBack("transfer")
      BY <1>1, <2>1, <3>1, <3>2, HoldMoves, HeldSteps
    <3> QED BY <3>3 DEF Held!Next
  <2>4. CASE lease' \in LeaseStates \ ({"none", "finalized"} \cup Released)
    <3>1. HoldOf' = "held"
      BY <2>4 DEF HoldOf, Released
    <3> QED BY <1>2, <2>1, <3>1
  <2> QED BY <2>1, <2>2, <2>3, <2>4
<1> QED BY <1>3, <1>4, <1>5 DEF CommandStep, Writes, Books, LetsOut

(* A UserOperation reaches a block, or loses it, only under a hold.          *)
LEMMA WorldHolds ==
  ASSUME IInv, Evidence, World
  PROVE  [Held!Next]_(Held!vars)
<1>1. /\ LeaseFits /\ ChainFits /\ OutIsRecorded /\ OutcomeIsProven
      /\ holding' = holding
  BY EvidenceProves DEF Evidence, World, Stop, Tick, Land, Revoke, UseNonce, SafeAdvance,
                        Reorg, Rest, disk, holding, HoldOf
<1>2. CASE paying' = paying
  BY <1>1, <1>2, HeldStutters
<1>3. CASE paying' # paying
  <2>1. \/ head.nonce = "free" /\ "user_operation" \in out
        \/ head.nonce = "own_ok" /\ safe.nonce # "own_ok"
    <3>1. CASE Land
      BY <3>1 DEF Land
    <3>2. CASE Revoke \/ UseNonce
      <4>1. head \in Accounts
        BY <1>1 DEF ChainFits
      <4> QED BY <1>3, <3>2, <4>1 DEF Revoke, UseNonce, paying, Accounts
    <3>3. CASE Reorg
      BY <1>1, <1>3, <3>3 DEF Reorg, ChainFits, paying
    <3>4. CASE Stop \/ Tick \/ SafeAdvance
      BY <1>3, <3>4 DEF Stop, Tick, SafeAdvance, chain, paying
    <3> QED BY <3>1, <3>2, <3>3, <3>4 DEF World
  <2>2. "user_operation" \in out
    BY <1>1, <2>1 DEF ChainFits, Own
  <2>3. lease # "none"
    BY <1>1, <2>2 DEF LeaseFits, OutIsRecorded, Untouched, Submitted, Proven
  <2>4. lease # "finalized"
    BY <1>1, <2>1, Settled DEF OutcomeIsProven, ChainFits
  <2>5. lease \notin Released
    BY <1>1, <2>1, <2>2, GivenBackIsUnpaid DEF LeaseFits
  <2>6. HoldOf = "held"
    BY <1>1, <2>3, <2>4, <2>5, HoldNames DEF LeaseFits
  <2>7. paying' \in {paying \cup {"transfer"}, paying \ {"transfer"}}
    BY DEF paying
  <2>8. Held!Pay("transfer")
    BY <1>1, <2>6, <2>7, HoldMoves, HeldSteps
  <2> QED BY <2>8 DEF Held!Next
<1> QED BY <1>2, <1>3

(* The shared ledger and a gasless transfer: its amount is reserved before   *)
(* the UserOperation can land, charged when the safe block has it, given     *)
(* back only when none can, and held for as long as neither is known, also   *)
(* when the owner lets an unresolved transfer go (asset-policy.ts).          *)
THEOREM GaslessHoldsBeforePaying == Spec => HoldsPayment
<1>1. Init => Held!Init
  <2> SUFFICES ASSUME Init PROVE Held!Init
    OBVIOUS
  <2>1. HoldOf = "none" /\ head.nonce # "own_ok"
    BY HoldNames DEF Init
  <2>2. holding = [o \in {"transfer"} |-> "none"] /\ paying = {}
    BY <2>1 DEF holding, paying
  <2> QED BY <2>2, HeldSteps
<1>2. IInv /\ Evidence /\ [Next]_vars => [Held!Next]_(Held!vars)
  <2> SUFFICES ASSUME IInv, Evidence, [Next]_vars PROVE [Held!Next]_(Held!vars)
    OBVIOUS
  <2>1. CASE UNCHANGED vars
    <3>1. holding' = holding /\ paying' = paying
      BY <2>1 DEF vars, disk, world, chain, holding, HoldOf, paying
    <3> QED BY <3>1, HeldStutters
  <2> QED BY <2>1, NextIsStep, CommandsHold, WorldHolds
<1> QED BY InitIInv, NextKeeps, EvidenceInitially, EvidenceKeeps, <1>1, <1>2, PTL
        DEF Spec, HoldsPayment, Held!Spec

-----------------------------------------------------------------------------
(* The hold is no further than the record, and no further behind it than one *)
(* save: a UserOperation is sent only when the ledger has it as submitted.   *)
LeaseKnows ==
  /\ lease = "submitted" => rec.user_operation \in Submitted
  /\ lease = "unknown_finality" => ~Undisclosed(rec)
  /\ At("send") \/ "user_operation" \in out => lease \notin {"none", "reserved"}

LEMMA StepsOf ==
  ASSUME Typed, NEW step
  PROVE  /\ \A next : Save(next, step) => proc'.at \in {"follow", "idle"} /\ out' = out
         /\ Goto(step) => proc'.at = step
         /\ PassTo(step) => proc'.at = step /\ out' = out
<1>1. proc \in Command
  BY DEF Typed
<1>2. Goto(step) => proc'.at = step
  BY <1>1 DEF Goto, Idle, Command
<1>3. Goto("idle") => proc'.at = "idle"
  BY DEF Goto, Idle
<1>4. [proc EXCEPT !.at = "follow", !.then = step].at = "follow"
  BY <1>1 DEF Command
<1>5. \A next : Save(next, step) => proc'.at \in {"follow", "idle"}
  BY <1>3, <1>4 DEF Save
<1> QED BY <1>2, <1>5 DEF Save, PassTo

(* A command comes to its send only from a follow, and from its send alone   *)
(* the UserOperation leaves.                                                 *)
LEMMA SendsFollow ==
  ASSUME IInv, [Next]_vars
  PROVE  /\ At("send")' => At("send") \/ (Follow /\ proc.then = "send")
         /\ "user_operation" \in out' => "user_operation" \in out \/ At("send")
<1>1. Typed /\ proc \in Command
  BY DEF IInv, Typed
<1> DEFINE Stays == proc'.at # "send" /\ out' = out
<1>2. \A next, step : Save(next, step) => Stays
  BY <1>1, StepsOf
<1>3. \A step : PassTo(step) /\ step # "send" => Stays
  BY <1>1, StepsOf
<1>4. Halt => Stays
  BY <1>2 DEF Halt
<1> HIDE DEF Stays
<1>5. CASE Follow
  <2>1. Goto(proc.then) \/ Goto("idle")
    BY <1>5 DEF Follow
  <2>2. proc'.at = proc.then \/ proc'.at = "idle"
    BY <1>1, <2>1, StepsOf
  <2> QED BY <1>5, <2>2 DEF Follow, At
<1>6. CASE Screen \/ Answer \/ Advance \/ Material \/ Mark
  BY <1>2, <1>3, <1>4, <1>6 DEF Screen, Answer, Advance, Material, Mark, Stays, At
<1>7. CASE Reserve
  <2>1. Goto("mark") /\ out' = out => Stays
    BY <1>1, StepsOf DEF Stays
  <2> QED BY <1>4, <1>7, <2>1 DEF Reserve, Stays, At
<1>8. CASE Seal \/ Checked
  <2>1. /\ [proc EXCEPT !.at = "load", !.fresh = TRUE].at = "load"
        /\ [proc EXCEPT !.at = "material", !.role = "user_operation", !.fresh = FALSE].at
             = "material"
    BY <1>1 DEF Command
  <2> QED BY <1>8, <2>1 DEF Seal, Checked, At
<1>9. CASE Load \/ Disclose \/ Estimated
  <2>1. Role # "send"
    BY <1>1 DEF Role, Command, Roles
  <2> QED BY <1>2, <1>3, <1>4, <1>9, <2>1 DEF Load, Disclose, Estimated, Stays, At
<1>10. CASE estimate
  <2>1. proc'.at \in {"estimated", "unestimated"}
    BY <1>1, <1>10, StepsOf DEF estimate
  <2>2. out' \in {out, out \cup {"bootstrap"}}
    BY <1>10 DEF estimate, PassTo
  <2> QED BY <2>1, <2>2 DEF At
<1>11. CASE send
  <2>1. proc'.at \in {"acknowledged", "unanswered"}
    BY <1>1, <1>11, StepsOf DEF send
  <2> QED BY <1>11, <2>1 DEF send, At
<1>12. CASE Submit \/ Sent \/ LateScreen \/ LateAnswer \/ LateRecheck \/ observe
  BY <1>2, <1>3, <1>4, <1>12
     DEF Submit, Sent, LateScreen, LateAnswer, LateRecheck, observe, Stays, At
<1>13. CASE Prepare \/ Abandon \/ World \/ UNCHANGED vars
  <2>1. out' = out /\ (proc' = proc \/ proc' = Idle)
    BY <1>13 DEF Prepare, Abandon, World, Stop, Tick, Land, Revoke, UseNonce, SafeAdvance,
                 Reorg, Rest, disk, vars
  <2> QED BY <2>1 DEF At, Idle
<1>14. ASSUME NEW kind \in Kinds, Begin(kind) PROVE proc'.at # "send" /\ out' = out
  <2>1. CASE FirstStep(kind) = "late_screen"
    BY <1>14, <2>1 DEF Begin, Idle
  <2>2. CASE FirstStep(kind) # "late_screen"
    BY <1>1, <1>14, <2>2, StepsOf DEF Begin, FirstStep
  <2> QED BY <2>1, <2>2
<1> QED BY <1>5, <1>6, <1>7, <1>8, <1>9, <1>10, <1>11, <1>12, <1>13, <1>14
        DEF Next, Step, At

LEMMA TargetNames ==
  /\ Target(rec) \in LeaseStates \ {"reserved"}
  /\ Target(rec) \in {"failed_before_effect", "failed_confirmed_revert"} =>
       rec.state = Target(rec)
  /\ Target(rec) = "released_unsubmitted" => rec.user_operation \notin Submitted
  /\ Target(rec) = "submitted" => rec.user_operation \in Submitted
  /\ Target(rec) = "unknown_finality" => ~Undisclosed(rec)
  /\ Target(rec) = "none" => rec.user_operation \notin Submitted
BY DEF Target, LeaseStates, Undisclosed

LEMMA LeaseKnowsKeeps ==
  ASSUME IInv, Evidence, LeaseKnows, [Next]_vars
  PROVE  LeaseKnows'
<1>1. /\ LeaseFits /\ rec \in Record
      /\ At("send")' => At("send") \/ (Follow /\ proc.then = "send")
      /\ "user_operation" \in out' => "user_operation" \in out \/ At("send")
  BY SendsFollow DEF Evidence, IInv, Typed
<1>2. CASE UNCHANGED <<rec, lease>> /\ (At("send")' => At("send"))
  BY <1>1, <1>2 DEF LeaseKnows, Undisclosed
<1>3. CASE World \/ UNCHANGED vars
  <2>1. UNCHANGED <<rec, lease>> /\ (proc' = proc \/ proc' = Idle)
    BY <1>3 DEF World, Stop, Tick, Land, Revoke, UseNonce, SafeAdvance, Reorg, Rest, disk, vars
  <2> QED BY <1>2, <2>1 DEF At, Idle
<1>4. CASE Follow /\ proc.then = "send" /\ At("send")'
  <2>1. rec.user_operation = "submitting" /\ UNCHANGED <<rec, out>>
    BY <1>4 DEF Follow, IInv, Ready, NextStep, At
  <2>2. rec.user_operation \in Submitted /\ lease # "none"
    BY <1>1, <2>1 DEF Submitted, LeaseFits, Untouched
  <2>3. lease' = Reconciled
    BY <1>4 DEF Follow, Goto, At, Idle
  <2>4. lease' \notin {"none", "reserved"}
    BY <2>2, <2>3, TargetNames DEF Reconciled
  <2>5. lease' = lease \/ lease' = Target(rec)
    BY <2>3 DEF Reconciled
  <2> QED BY <2>1, <2>2, <2>4, <2>5, TargetNames DEF LeaseKnows, Undisclosed
<1>5. CASE CommandStep /\ (At("send")' => At("send"))
  <2>1. CASE Writes
    <3>1. lease' = lease /\ out' = out
      BY <2>1 DEF Writes
    <3>2. CASE rec.state = "none" /\ rec' = To("awaiting_approval")
      <4>1. /\ rec'.bootstrap = rec.bootstrap /\ rec'.user_operation = rec.user_operation
        BY <1>1, <3>2, Rewriting, StateNames DEF To
      <4> QED BY <1>5, <3>1, <4>1 DEF LeaseKnows, Undisclosed
    <3>3. CASE \E next \in Record : Valid(next) /\ rec' = next
      <4>1. PICK next \in Record : Valid(next) /\ rec' = next
        BY <3>3
      <4>2. /\ next.bootstrap = rec.bootstrap \/ next.bootstrap \in PhaseEdges[rec.bootstrap]
            /\ next.user_operation = rec.user_operation
               \/ next.user_operation \in PhaseEdges[rec.user_operation]
        BY <1>1, <4>1, Phase DEF Valid, Roles
      <4>3. /\ rec.bootstrap \in Disclosed => next.bootstrap \in Disclosed
            /\ rec.user_operation \in Submitted => next.user_operation \in Submitted
        BY <1>1, <4>2, Phase, PhasesGoOn
      <4> QED BY <1>5, <3>1, <4>1, <4>3 DEF LeaseKnows, Undisclosed
    <3> QED BY <1>2, <1>5, <2>1, <3>1, <3>2, <3>3 DEF Writes
  <2>2. CASE Books
    <3>1. rec' = rec /\ out' = out
      BY <2>2 DEF Books
    <3>2. CASE lease \in {"none", "reserved"} /\ lease' = "reserved"
      BY <1>5, <3>1, <3>2 DEF LeaseKnows
    <3>3. CASE Followable /\ lease' = Reconciled /\ lease' # lease
      <4>1. lease' = Target(rec) /\ lease' # "none"
        BY <1>1, <3>3, Following
      <4> QED BY <3>1, <4>1, TargetNames DEF LeaseKnows, Undisclosed
    <3> QED BY <1>2, <1>5, <2>2, <3>1, <3>2, <3>3 DEF Books
  <2>3. CASE LetsOut
    BY <1>2, <1>5, <2>3 DEF LetsOut
  <2> QED BY <1>5, <2>1, <2>2, <2>3 DEF CommandStep
<1> QED BY <1>1, <1>3, <1>4, <1>5, NextIsStep

LEMMA LeaseInductive == Spec => [](IInv /\ Evidence /\ LeaseKnows)
<1>1. Init => LeaseKnows
  BY DEF Init, LeaseKnows, Idle, At
<1> QED BY <1>1, InitIInv, NextKeeps, EvidenceInitially, EvidenceKeeps, LeaseKnowsKeeps, PTL
        DEF Spec

(* Whatever stopped, no command finds a record and a hold that reconcile     *)
(* refuses as corrupt: nothing is charged that the record has not disclosed, *)
(* nothing is released that may still be paid, and a UserOperation that left *)
(* is never still only reserved, so that even its revert can be booked.      *)
THEOREM GaslessLedgerIsNeverCorrupt == Spec => []LedgerIsNeverCorrupt
<1>1. Evidence /\ LeaseKnows => Followable
  <2> SUFFICES ASSUME Evidence, LeaseKnows PROVE Followable
    OBVIOUS
  <2>1. LeaseFits /\ ChainFits /\ Grounds(rec)
    BY DEF Evidence
  <2>2. CASE lease = "none"
    BY <2>1, <2>2 DEF Followable, LeaseFits, Untouched, Roles
  <2>3. CASE lease \in Released \cup {"finalized"}
    BY <2>1, <2>3 DEF Followable, LeaseFits, Released
  <2>4. CASE lease \in {"reserved", "submitted", "unknown_finality"}
    <3> DEFINE to == Target(rec)
    <3>1. to = "failed_before_effect" => lease = "reserved"
      BY <2>1, <2>4, TargetNames DEF Grounds, LeaseKnows, Undisclosed
    <3>2. to = "failed_confirmed_revert" => lease # "reserved"
      BY <2>1, TargetNames DEF Grounds, ChainFits, LeaseKnows, Own
    <3>3. /\ lease = "submitted" => rec.user_operation \in Submitted
          /\ lease = "unknown_finality" => ~Undisclosed(rec)
      BY DEF LeaseKnows
    <3>4. /\ to \in LeaseStates \ {"reserved"}
          /\ to \in {"released_unsubmitted", "none"} => lease # "submitted"
      BY <3>3, TargetNames
    <3> HIDE DEF to
    <3>5. \/ to \in {"none", lease} \/ (to = "submitted" /\ lease = "unknown_finality")
          \/ CanMove(lease, to)
      BY <2>4, <3>1, <3>2, <3>4 DEF CanMove, LeaseStates
    <3> QED BY <2>4, <3>1, <3>3, <3>5 DEF Followable, Released, to
  <2> QED BY <2>1, <2>2, <2>3, <2>4 DEF LeaseFits, LeaseStates, Released
<1>2. Evidence /\ LeaseKnows => LedgerIsNeverCorrupt
  BY <1>1 DEF LedgerIsNeverCorrupt
<1> QED BY <1>2, LeaseInductive, PTL

(* The ledger takes every write of the hold of a gasless transfer: once      *)
(* reserved, it only moves along assertTransition's table, and a settled     *)
(* hold stays settled.                                                       *)
THEOREM LedgerTakesGaslessTransfer == Spec => LedgerTakesEveryWrite
<1> DEFINE written == [o \in {"transfer"} |-> lease]
<1>1. Init => Ledger!Init
  BY DEF Init, Ledger!Init
<1>2. IInv /\ Evidence /\ LeaseKnows /\ [Next]_vars => [Ledger!Next]_written
  <2> SUFFICES ASSUME IInv, Evidence, LeaseKnows, [Next]_vars, lease' # lease
               PROVE  Ledger!Next
    BY DEF written
  <2>1. LeaseFits
    BY DEF Evidence
  <2>2. Books
    <3>1. ~(World \/ UNCHANGED vars)
      BY DEF World, Stop, Tick, Land, Revoke, UseNonce, SafeAdvance, Reorg, Rest, disk, vars
    <3> QED BY <3>1, NextIsStep DEF CommandStep, Writes, LetsOut
  <2>3. Ledger!Takes(lease, lease')
    <3>1. CASE lease \in {"none", "reserved"} /\ lease' = "reserved"
      BY <3>1 DEF Ledger!Takes
    <3>2. CASE Followable /\ lease' = Reconciled
      <4> DEFINE to == Target(rec)
      <4>1. /\ lease \in LeaseStates \ ({"none", "finalized"} \cup Released)
            /\ lease' = to /\ to # "none"
        BY <2>1, <3>2, Following
      <4>2. CanMove(lease, to)
        <5>1. ~(to = "submitted" /\ lease = "unknown_finality")
          BY <3>2, <4>1 DEF Reconciled
        <5> QED BY <3>2, <4>1, <5>1 DEF Followable
      <4>3. to \in LeaseStates \ {"reserved"}
        BY TargetNames
      <4> HIDE DEF to
      <4> QED BY <4>1, <4>2, <4>3 DEF CanMove, Ledger!Takes, LeaseStates, Released
    <3> QED BY <2>2, <3>1, <3>2 DEF Books
  <2>4. lease' \in Ledger!States
    BY <2>3 DEF Ledger!Takes, Ledger!States
  <2>5. written["transfer"] = lease /\ written' = [written EXCEPT !["transfer"] = lease']
    BY DEF written
  <2>6. Ledger!Write("transfer", lease')
    BY <2>3, <2>5 DEF Ledger!Write
  <2> QED BY <2>4, <2>6 DEF Ledger!Next
<1> QED BY <1>1, <1>2, LeaseInductive, PTL DEF Spec, LedgerTakesEveryWrite, Ledger!Spec

=============================================================================
