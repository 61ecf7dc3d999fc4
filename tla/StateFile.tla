------------------------------ MODULE StateFile ------------------------------
(***************************************************************************)
(* One file of the state root and the calls that read, write, create and   *)
(* remove it (secure-state-store.ts, atomic-write-temporaries.ts), down to *)
(* the names of a directory: every system call is a step, and a process    *)
(* may stop or the power may fail between any two of them.                 *)
(*                                                                         *)
(* A call makes at most one inode, so an inode is named by its call.  It   *)
(* has at most two names: the record's (target) and its own stage name.    *)
(* The checks of owners, modes, parents and symbolic links are left out:   *)
(* nobody but these calls touches the directory.                           *)
(***************************************************************************)
EXTENDS Integers, FiniteSets, FiniteSetsExt

CONSTANTS
  Calls,      \* the calls of all processes; each is made at most once
  Roles,      \* what they may be: some of "read", "write", "create", "remove"
  MaxFaults,  \* bound: processes that stop in a call, and losses of power
  None        \* the absence of an inode

ASSUME RolesAssumption ==
  Roles # {} /\ Roles \subseteq {"read", "write", "create", "remove"}
ASSUME BoundsAssumption == MaxFaults \in Nat
ASSUME NoneAssumption == None \notin Calls

VARIABLES
  dir,        \* the names now: [target: an inode, stages: the named stages]
  past,       \* the directories that a failure of the power may bring back
  content,    \* content[c] of c's inode: "none", "cached" or "durable"
  call,       \* call[c]: what the call is and how far it has come
  doomed,     \* stages that a listing has found abandoned, and takes away
  serial,     \* history: serial[c] orders the changes made to the record
  faults

files == <<dir, past, content>>
vars == <<dir, past, content, call, doomed, serial, faults>>

Links(i) == IF i \in dir.stages
              THEN IF dir.target = i THEN 2 ELSE 1
              ELSE IF dir.target = i THEN 1 ELSE 0

Ended == {"done", "absent", "occupied", "refused", "failed", "lost", "stopped"}
Steps == {"idle", "stat", "look", "unlink", "settle", "relook", "restat",
          "stage", "check", "publish", "unstage", "dirsync", "verify", "erase"}
         \cup Ended
Active(c) == call[c].at \notin Ended \cup {"idle"}
At(c, step) == call[c].at = step
Role(c) == call[c].role

(* locked: the call runs inside withLocks on the record's key.  saw: the   *)
(* inode it has open, or that its lstat of the target returned.            *)
Call == [role : Roles, at : Steps, locked : BOOLEAN, saw : Calls \cup {None}]

GotoWith(c, step, inode) ==
  call' = [call EXCEPT ![c] =
             [@ EXCEPT !.at = step, !.saw = IF step \in Ended THEN None ELSE inode]]
Goto(c, step) == GotoWith(c, step, call[c].saw)

(* A change of names is visible at once and durable after the directory is *)
(* flushed, together with all that went before it.                         *)
Names(d) == dir' = d /\ past' = past \cup {d}
Flush == past' = {dir} /\ UNCHANGED dir

Changed(c) == serial' = [serial EXCEPT ![c] =
                           1 + Max({serial[d] : d \in Calls})]

-----------------------------------------------------------------------------
(* A call begins with its first look at the directory, inside its lock if  *)
(* it has one.  A lock is free when no other locked call is under way: a   *)
(* process that dies gives its locks back.                                 *)
Begins(c, role, locked, step) ==
  /\ At(c, "idle")
  /\ locked => \A d \in Calls : Active(d) => ~call[d].locked
  /\ call' = [call EXCEPT ![c] = [role |-> role, locked |-> locked,
                                 saw |-> IF step \in Ended THEN None ELSE dir.target,
                                 at |-> step]]

(* readJson, removeFile: open the target.                                  *)
Open(c, role, locked) ==
  /\ role \in {"read", "remove"}
  /\ Begins(c, role, locked, IF dir.target = None THEN "absent" ELSE "stat")
  /\ UNCHANGED <<files, doomed, serial, faults>>

(* fstat of what was opened; a removal repairs nothing.                    *)
Stat(c) ==
  /\ At(c, "stat")
  /\ Goto(c, IF Links(call[c].saw) = 2 /\ Role(c) = "read" THEN "look"
             ELSE IF Links(call[c].saw) # 1 THEN "refused"
             ELSE IF Role(c) = "read" THEN "done" ELSE "erase")
  /\ UNCHANGED <<files, doomed, serial, faults>>

(* writeJson: lstat of the target.  A create never replaces what is there. *)
Sound(role) == IF role = "create" THEN "occupied" ELSE "stage"

(* Mutant of Lstat: two links are refused instead of repaired.             *)
Lstat_NoRepair(c, role, locked) ==
  /\ role \in {"write", "create"}
  /\ Begins(c, role, locked,
            IF dir.target = None THEN "stage"
            ELSE IF Links(dir.target) = 2 THEN "refused" ELSE Sound(role))
  /\ UNCHANGED <<files, doomed, serial, faults>>

Lstat(c, role, locked) ==
  /\ role \in {"write", "create"}
  /\ Begins(c, role, locked,
            IF dir.target = None THEN "stage"
            ELSE IF Links(dir.target) = 2 THEN "look" ELSE Sound(role))
  /\ UNCHANGED <<files, doomed, serial, faults>>

-----------------------------------------------------------------------------
(* releasePublishedTemporary: a stop between link and unlink left the      *)
(* record with two names; whoever meets it takes the stage's name away.    *)

(* readdir, and lstat of the stage: it may be gone by now.                 *)
Look(c) ==
  /\ At(c, "look")
  /\ Goto(c, IF call[c].saw \in dir.stages THEN "unlink" ELSE "relook")
  /\ UNCHANGED <<files, doomed, serial, faults>>

(* unlink of the stage, also when its writer is faster, ...                *)
Unlink(c) ==
  /\ At(c, "unlink")
  /\ Names([dir EXCEPT !.stages = @ \ {call[c].saw}])
  /\ Goto(c, "settle")
  /\ UNCHANGED <<content, doomed, serial, faults>>

(* ... and the flush of the directory.                                     *)
Settle(c) ==
  /\ At(c, "settle")
  /\ Flush /\ Goto(c, "restat")
  /\ UNCHANGED <<content, doomed, serial, faults>>

Relook(c) ==
  /\ At(c, "relook")
  /\ Goto(c, IF dir.target = call[c].saw /\ Links(call[c].saw) = 1
               THEN "restat" ELSE "refused")
  /\ UNCHANGED <<files, doomed, serial, faults>>

(* A reader asks its open file again, a writer the target.  A writer whose *)
(* target vanished keeps what it saw before, and fails its check below.    *)
Restat(c) ==
  /\ At(c, "restat")
  /\ LET inode == IF Role(c) = "read" \/ dir.target = None
                    THEN call[c].saw ELSE dir.target
         sound == Links(inode) = 1 \/ (Role(c) # "read" /\ dir.target = None)
     IN  GotoWith(c, IF ~sound THEN "refused"
                     ELSE IF Role(c) = "read" THEN "done"
                     ELSE Sound(Role(c)), inode)
  /\ UNCHANGED <<files, doomed, serial, faults>>

-----------------------------------------------------------------------------
(* writeJson                                                               *)

(* Mutant of Stage: the stage is not flushed.                              *)
Stage_NoFlush(c) ==
  /\ At(c, "stage")
  /\ Names([dir EXCEPT !.stages = @ \cup {c}])
  /\ content' = [content EXCEPT ![c] = "cached"]
  /\ Goto(c, "check")
  /\ UNCHANGED <<doomed, serial, faults>>

(* The stage is made, written and flushed.  What a stop leaves of it in    *)
(* between has no other name than the stage's.                             *)
Stage(c) ==
  /\ At(c, "stage")
  /\ Names([dir EXCEPT !.stages = @ \cup {c}])
  /\ content' = [content EXCEPT ![c] = "durable"]
  /\ Goto(c, "check")
  /\ UNCHANGED <<doomed, serial, faults>>

(* An error after the stage was made takes the stage away with it.         *)
Undo(c, result) ==
  /\ Names([dir EXCEPT !.stages = @ \ {c}])
  /\ Goto(c, result)
  /\ UNCHANGED <<content, doomed, serial, faults>>

(* The target must still be what it was when the write began.              *)
Check(c) ==
  /\ At(c, "check")
  /\ \/ /\ dir.target = call[c].saw
        /\ Goto(c, "publish")
        /\ UNCHANGED <<files, doomed, serial, faults>>
     \/ /\ dir.target # call[c].saw
        /\ Undo(c, IF Role(c) = "create" THEN "occupied" ELSE "failed")

(* Mutant of Link: the stage is renamed over whatever is there.            *)
Link_Renames(c) ==
  /\ At(c, "publish") /\ Role(c) = "create"
  /\ c \in dir.stages
  /\ Names([target |-> c, stages |-> dir.stages \ {c}])
  /\ Changed(c)
  /\ Goto(c, "unstage")
  /\ UNCHANGED <<content, doomed, faults>>

(* link: fails when the target appeared meanwhile.                         *)
Link(c) ==
  /\ At(c, "publish") /\ Role(c) = "create"
  /\ \/ /\ dir.target = None /\ c \in dir.stages
        /\ Names([dir EXCEPT !.target = c])
        /\ Changed(c)
        /\ Goto(c, "unstage")
        /\ UNCHANGED <<content, doomed, faults>>
     \/ /\ dir.target # None \/ c \notin dir.stages
        /\ Undo(c, IF c \in dir.stages THEN "occupied" ELSE "lost")

(* rename: replaces whatever is there.                                     *)
Rename(c) ==
  /\ At(c, "publish") /\ Role(c) = "write"
  /\ \/ /\ c \in dir.stages
        /\ Names([target |-> c, stages |-> dir.stages \ {c}])
        /\ Changed(c)
        /\ Goto(c, "dirsync")
        /\ UNCHANGED <<content, doomed, faults>>
     \/ /\ c \notin dir.stages
        /\ Undo(c, "lost")

(* Mutant of Unstage: the write ends here and the names are not flushed.   *)
Unstage_NoFlush(c) ==
  /\ At(c, "unstage")
  /\ Names([dir EXCEPT !.stages = @ \ {c}])
  /\ Goto(c, "verify")
  /\ UNCHANGED <<content, doomed, serial, faults>>

(* unlink after link; a reader may have done it.                           *)
Unstage(c) ==
  /\ At(c, "unstage")
  /\ Names([dir EXCEPT !.stages = @ \ {c}])
  /\ Goto(c, "dirsync")
  /\ UNCHANGED <<content, doomed, serial, faults>>

Dirsync(c) ==
  /\ At(c, "dirsync")
  /\ Flush
  /\ Goto(c, IF Role(c) = "remove" THEN "done" ELSE "verify")
  /\ UNCHANGED <<content, doomed, serial, faults>>

(* The last look at the target.  Its error takes a stage away, and tells   *)
(* the caller of a failure although the record is published.               *)
Verify(c) ==
  /\ At(c, "verify")
  /\ \/ /\ dir.target # None /\ Links(dir.target) = 1
        /\ Goto(c, "done")
        /\ UNCHANGED <<files, doomed, serial, faults>>
     \/ /\ dir.target = None
        /\ Undo(c, "failed")
     \/ /\ dir.target # None /\ Links(dir.target) # 1
        /\ Undo(c, "refused")

(* removeFile: unlink of the target, whatever file that is by now.         *)
Erase(c) ==
  /\ At(c, "erase")
  /\ IF dir.target = None
       THEN Goto(c, "failed") /\ UNCHANGED <<dir, past, serial>>
       ELSE Names([dir EXCEPT !.target = None]) /\ Changed(c) /\ Goto(c, "dirsync")
  /\ UNCHANGED <<content, doomed, faults>>

-----------------------------------------------------------------------------
(* withoutAtomicTemporaries: a listing takes a stage of one link away that *)
(* is ten minutes old, also that of a writer which a sleeping machine has  *)
(* held up.  It looks first and unlinks later.                             *)

FindAbandoned(c) ==
  /\ c \in dir.stages \ doomed /\ Links(c) = 1
  /\ doomed' = doomed \cup {c}
  /\ UNCHANGED <<files, call, serial, faults>>

Collect(c) ==
  /\ c \in dir.stages \cap doomed
  /\ Names([dir EXCEPT !.stages = @ \ {c}])
  /\ doomed' = doomed \ {c}
  /\ UNCHANGED <<content, call, serial, faults>>

-----------------------------------------------------------------------------
Stop(c) ==
  /\ Active(c) /\ faults < MaxFaults
  /\ faults' = faults + 1
  /\ Goto(c, "stopped")
  /\ UNCHANGED <<files, doomed, serial>>

(* The machine dies.  It comes back with the directory of some moment      *)
(* since the last flush, and without what no flush wrote.                  *)
PowerFails ==
  /\ faults < MaxFaults
  /\ faults' = faults + 1
  /\ dir' \in past /\ past' = {dir'}
  /\ content' = [c \in Calls |->
                   IF content[c] = "cached" THEN "none" ELSE content[c]]
  /\ call' = [c \in Calls |->
                IF Active(c) THEN [call[c] EXCEPT !.at = "stopped", !.saw = None]
                ELSE call[c]]
  /\ doomed' = {}
  /\ UNCHANGED serial

-----------------------------------------------------------------------------
NoNames == [target |-> None, stages |-> {}]

Init ==
  /\ dir = NoNames /\ past = {NoNames}
  /\ content = [c \in Calls |-> "none"]
  /\ call \in [Calls -> {[role |-> r, at |-> "idle", locked |-> FALSE,
                          saw |-> None] : r \in {CHOOSE r \in Roles : TRUE}}]
  /\ doomed = {} /\ serial = [c \in Calls |-> 0]
  /\ faults = 0

Next ==
  \/ \E c \in Calls :
       \/ \E role \in Roles, locked \in BOOLEAN :
            Open(c, role, locked) \/ Lstat(c, role, locked)
       \/ Stat(c) \/ Look(c) \/ Unlink(c) \/ Settle(c) \/ Relook(c) \/ Restat(c)
       \/ Stage(c) \/ Check(c) \/ Link(c) \/ Rename(c)
       \/ Unstage(c) \/ Dirsync(c) \/ Verify(c) \/ Erase(c)
       \/ FindAbandoned(c) \/ Collect(c) \/ Stop(c)
  \/ PowerFails

Spec == Init /\ [][Next]_vars

-----------------------------------------------------------------------------
TypeOK ==
  /\ dir.target \in Calls \cup {None} /\ dir.stages \subseteq Calls
  /\ dir \in past
  /\ \A d \in past : d.target \in Calls \cup {None} /\ d.stages \subseteq Calls
  /\ content \in [Calls -> {"none", "cached", "durable"}]
  /\ call \in [Calls -> Call]
  /\ doomed \subseteq Calls
  /\ serial \in [Calls -> 0 .. Cardinality(Calls)]
  /\ faults \in 0 .. MaxFaults

(* What the record's name shows is a whole file, also after the power has  *)
(* failed at the worst moment (the flush of the stage in writeJson).       *)
TargetIsWhole == \A d \in past : d.target # None => content[d.target] = "durable"

(* A write, a create or a removal that was reported as done is not undone: *)
(* the record shows it or a later change, also after a loss of power.      *)
Changes == {"write", "create", "remove"}
ShownSerial ==
  IF dir.target # None THEN serial[dir.target]
    ELSE Max({0} \cup {serial[c] : c \in {d \in Calls : Role(d) = "remove"}})
ReportedIsKept ==
  \A c \in Calls : At(c, "done") /\ Role(c) \in Changes =>
                     serial[c] <= ShownSerial

(* Of two creates that are told they made the record, the second comes     *)
(* after a removal, with or without locks (the link of writeJson).         *)
CreatedOnce ==
  \A a, b \in Calls :
    /\ At(a, "done") /\ Role(a) = "create"
    /\ At(b, "done") /\ Role(b) = "create"
    /\ serial[a] < serial[b]
    => \E r \in Calls : /\ Role(r) = "remove"
                        /\ serial[a] < serial[r] /\ serial[r] < serial[b]

(* Wherever earlier processes stopped, and whatever lock-free readers and  *)
(* listings do meanwhile, a read or a write under the record's lock never  *)
(* meets a refusal while every change is made under that lock.  Excepted   *)
(* are a writer that slept until its stage was taken away (lost), and a    *)
(* removal, which repairs nothing and whose callers read the file first.   *)
(* And a read, locked or not, refuses only a file that is no longer the    *)
(* record: reading again finds the record (the second look of              *)
(* releasePublishedTemporary).                                             *)
ChangesAreLocked ==
  \A c \in Calls : Role(c) \in Changes /\ ~At(c, "idle") => call[c].locked
IsRefused(c) == /\ call[c].at \notin {"refused", "failed"}
                /\ call'[c].at \in {"refused", "failed"}
RefusalIsJust ==
  [][\A c \in Calls : IsRefused(c) =>
       /\ call'[c].locked /\ call'[c].role # "remove" => ~ChangesAreLocked'
       /\ call'[c].role = "read" => dir.target # call[c].saw]_vars

=============================================================================
