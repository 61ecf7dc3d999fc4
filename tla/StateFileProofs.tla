--------------------------- MODULE StateFileProofs ---------------------------
(* The atomic write, for every number of calls, of stops between any two     *)
(* system calls, and of losses of power: what a record's name shows is       *)
(* whole, a change that was reported as done stays, and a create never       *)
(* replaces a record.                                                        *)
EXTENDS StateFile, TLAPS

(* Not the target alone: a failure of the power may bring a name back that   *)
(* no process sees any more, so each directory that may come back names only *)
(* what was flushed, the stages included, and the present one is of them.    *)
Directory == [target : Calls \cup {None}, stages : SUBSET Calls]
Durable(d) ==
  /\ d \in Directory
  /\ d.target # None => content[d.target] = "durable"
  /\ \A c \in d.stages : content[c] = "durable"

IInv ==
  /\ content \in [Calls -> {"none", "cached", "durable"}]
  /\ dir \in past
  /\ \A d \in past : Durable(d)

(* Giving a name to a flushed inode, or taking one away.                     *)
LEMMA NamingKeeps ==
  ASSUME IInv, NEW d, Durable(d), Names(d), UNCHANGED content
  PROVE  IInv'
BY DEF IInv, Durable, Names

LEMMA UnnamingKeeps ==
  ASSUME IInv, NEW c \in Calls \cup {None}, Names([dir EXCEPT !.stages = @ \ {c}]),
         UNCHANGED content
  PROVE  IInv'
<1>1. dir \in Directory /\ Durable(dir)
  BY DEF IInv, Durable
<1>2. Durable([dir EXCEPT !.stages = @ \ {c}])
  BY <1>1 DEF Durable, Directory
<1> QED BY <1>2, NamingKeeps

LEMMA FlushKeeps == ASSUME IInv, Flush, UNCHANGED content PROVE IInv'
BY DEF IInv, Flush, Durable

LEMMA InitIInv == Init => IInv
BY DEF Init, IInv, Durable, Directory, NoNames

LEMMA NextKeeps == IInv /\ [Next]_vars => IInv'
<1> SUFFICES ASSUME IInv, [Next]_vars PROVE IInv'
  OBVIOUS
<1>1. dir \in Directory /\ Durable(dir)
  BY DEF IInv, Durable
<1>2. CASE UNCHANGED files
  BY <1>2 DEF files, IInv, Durable
<1>3. ASSUME NEW c \in Calls, Unlink(c) \/ Settle(c) PROVE IInv'
  <2>1. CASE Settle(c)
    BY <2>1, FlushKeeps DEF Settle
  <2>2. CASE Unlink(c)
    <3>1. Durable([dir EXCEPT !.stages = @ \ {call[c].saw}])
      BY <1>1 DEF Durable, Directory
    <3> QED BY <2>2, <3>1, NamingKeeps DEF Unlink
  <2> QED BY <1>3, <2>1, <2>2
<1>4. ASSUME NEW c \in Calls, Stage(c) PROVE IInv'
  <2>1. /\ content' = [content EXCEPT ![c] = "durable"]
        /\ Names([dir EXCEPT !.stages = @ \cup {c}])
    BY <1>4 DEF Stage
  <2>2. \A d \in past : Durable(d)'
    BY <2>1 DEF IInv, Durable, Directory
  <2>3. Durable(dir)'
    <3>1. /\ dir' \in Directory /\ dir'.target = dir.target
          /\ dir'.stages = dir.stages \cup {c}
      BY <1>1, <2>1 DEF Names, Directory
    <3> QED BY <1>1, <2>1, <3>1 DEF IInv, Durable, Directory
  <2> QED BY <2>1, <2>2, <2>3 DEF IInv, Names
<1>5. ASSUME NEW c \in Calls, Check(c) \/ Link(c) \/ Rename(c) PROVE IInv'
  <2>1. ASSUME NEW result, Undo(c, result) PROVE IInv'
    BY <2>1, UnnamingKeeps DEF Undo
  <2>2. ASSUME c \in dir.stages, Names([dir EXCEPT !.target = c]), UNCHANGED content
        PROVE  IInv'
    <3>1. Durable([dir EXCEPT !.target = c])
      BY <1>1, <2>2 DEF Durable, Directory
    <3> QED BY <2>2, <3>1, NamingKeeps
  <2>3. ASSUME c \in dir.stages, UNCHANGED content,
               Names([target |-> c, stages |-> dir.stages \ {c}])
        PROVE  IInv'
    <3>1. Durable([target |-> c, stages |-> dir.stages \ {c}])
      BY <1>1, <2>3 DEF Durable, Directory
    <3> QED BY <2>3, <3>1, NamingKeeps
  <2>4. CASE Check(c)
    BY <1>2, <2>1, <2>4 DEF Check
  <2>5. CASE Link(c)
    BY <2>1, <2>2, <2>5 DEF Link
  <2>6. CASE Rename(c)
    BY <2>1, <2>3, <2>6 DEF Rename
  <2> QED BY <1>5, <2>4, <2>5, <2>6
<1>6. ASSUME NEW c \in Calls, Unstage(c) \/ Dirsync(c) \/ Verify(c) PROVE IInv'
  BY <1>2, <1>6, UnnamingKeeps, FlushKeeps DEF Unstage, Dirsync, Verify, Undo
<1>7. ASSUME NEW c \in Calls, Erase(c) PROVE IInv'
  <2>1. Durable([dir EXCEPT !.target = None])
    BY <1>1, NoneAssumption DEF Durable, Directory
  <2>2. UNCHANGED files \/ Names([dir EXCEPT !.target = None])
    BY <1>7 DEF Erase, files
  <2>3. UNCHANGED content
    BY <1>7 DEF Erase
  <2> QED BY <1>2, <2>1, <2>2, <2>3, NamingKeeps
<1>8. ASSUME NEW c \in Calls, Collect(c) PROVE IInv'
  BY <1>8, UnnamingKeeps DEF Collect
<1>9. CASE PowerFails
  <2>1. /\ dir' \in past /\ past' = {dir'}
        /\ content' \in [Calls -> {"none", "cached", "durable"}]
        /\ \A c \in Calls : content[c] = "durable" => content'[c] = "durable"
    BY <1>9 DEF PowerFails, IInv
  <2> QED BY <2>1 DEF IInv, Durable, Directory
<1>10. CASE UNCHANGED vars
  BY <1>2, <1>10 DEF vars, files
<1> QED BY <1>2, <1>3, <1>4, <1>5, <1>6, <1>7, <1>8, <1>9, <1>10
        DEF Next, Open, Lstat, Stat, Look, Relook, Restat, FindAbandoned, Stop

(* Whatever stops, and at whatever moment the power fails, the record's name *)
(* shows a whole file or none (the flush of the stage before its rename or   *)
(* link, writeJson).                                                         *)
THEOREM RecordIsWhole == Spec => []TargetIsWhole
<1>1. IInv => TargetIsWhole
  BY DEF IInv, Durable, TargetIsWhole
<1> QED BY <1>1, InitIInv, NextKeeps, PTL DEF Spec

-----------------------------------------------------------------------------
(* The history of the record: which change came when.                        *)
EarlySteps == {"idle", "stat", "look", "unlink", "settle", "relook", "restat",
               "stage", "check", "publish", "erase"}
Early(c) == call[c].at \in EarlySteps
Late(c) == /\ Role(c) \in Changes
           /\ call[c].at \in {"unstage", "dirsync", "verify", "done"}
Flushed(c) == Late(c) /\ call[c].at \in {"verify", "done"}

(* The directory d shows the change of c, or a later one.                    *)
Shows(d, c) ==
  IF d.target # None THEN serial[c] <= serial[d.target]
    ELSE \E r \in Calls : Role(r) = "remove" /\ serial[c] <= serial[r]

(* Serials are given once, and the last one given is the greatest.           *)
Numbered ==
  /\ serial \in [Calls -> Nat]
  /\ \A c \in Calls : \E m \in Calls : \A d \in Calls : serial[d] <= serial[m]
  /\ \E m \in Nat : /\ \A r \in Calls : Role(r) = "remove" => serial[r] <= m
                    /\ m = 0 \/ \E r \in Calls : Role(r) = "remove" /\ serial[r] = m
  /\ \A c, d \in Calls : serial[c] = serial[d] /\ serial[c] > 0 => c = d
  /\ \A c \in Calls : (Early(c) => serial[c] = 0) /\ (Late(c) => serial[c] > 0)

(* A change whose names were flushed is shown by every directory that a loss *)
(* of power may bring back, one that is not flushed yet by the present one.  *)
Shown ==
  \A c \in Calls : /\ Late(c) => Shows(dir, c)
                   /\ Flushed(c) => \A d \in past : Shows(d, c)

Between(a, b) == \E r \in Calls : /\ Role(r) = "remove"
                                  /\ serial[a] < serial[r] /\ serial[r] < serial[b]
Separated ==
  \A a, b \in Calls :
    /\ Late(a) /\ Role(a) = "create" /\ Late(b) /\ Role(b) = "create"
    /\ serial[a] < serial[b]
    => Between(a, b)

(* Only a removal unlinks the target.                                        *)
Opened == \A c \in Calls : /\ At(c, "stat") => Role(c) \in {"read", "remove"}
                           /\ At(c, "erase") => Role(c) = "remove"

History == call \in [Calls -> Call] /\ Opened /\ Numbered /\ Shown /\ Separated

(* A step that changes no record, ...                                        *)
Quiet ==
  /\ call' \in [Calls -> Call] /\ Opened'
  /\ serial' = serial /\ dir'.target = dir.target
  /\ \A d \in past' : d \in past \/ d.target = dir.target
  /\ \A c \in Calls :
       /\ Early(c)' => Early(c)
       /\ Role(c)' = Role(c) \/ serial[c] = 0
       /\ Late(c)' => Late(c)
       /\ Flushed(c)' => Flushed(c) \/ \A d \in past' : d.target = dir.target

(* ... and one that does: the link, the rename and the unlink of the target. *)
Changing(c) ==
  /\ call' \in [Calls -> Call] /\ \A d \in Calls \ {c} : call'[d] = call[d]
  /\ Opened' /\ Role(c)' = Role(c) /\ Early(c) /\ ~Early(c)' /\ ~Flushed(c)'
  /\ Changed(c) /\ past' = past \cup {dir'}
  /\ \/ Role(c) = "remove" /\ dir'.target = None
     \/ Role(c) # "remove" /\ dir'.target = c /\ (Role(c) = "create" => dir.target = None)

LEMMA NewestSerial ==
  ASSUME Numbered, NEW c \in Calls, Changed(c)
  PROVE  \E n \in Nat : /\ serial' = [serial EXCEPT ![c] = n]
                        /\ \A d \in Calls : serial[d] < n
<1> DEFINE S == {serial[d] : d \in Calls}
<1>1. PICK m \in Calls : \A d \in Calls : serial[d] <= serial[m]
  BY DEF Numbered
<1>2. S \subseteq Nat /\ \E x \in S : \A y \in S : x >= y
  BY <1>1 DEF Numbered
<1>3. Max(S) \in S /\ \A y \in S : Max(S) >= y
  BY <1>2 DEF Max
<1>4. serial' = [serial EXCEPT ![c] = 1 + Max(S)]
  BY DEF Changed
<1>5. Max(S) \in Nat /\ \A d \in Calls : serial[d] <= Max(S) /\ serial[d] \in Nat
  BY <1>2, <1>3 DEF Numbered
<1> DEFINE n == 1 + Max(S)
<1>6. n \in Nat /\ \A d \in Calls : serial[d] < n
  <2> HIDE DEF S
  <2> QED BY <1>5
<1>7. serial' = [serial EXCEPT ![c] = n]
  BY <1>4
<1> HIDE DEF n
<1> QED BY <1>6, <1>7

LEMMA QuietKeeps == ASSUME IInv, History, Quiet PROVE History'
<1>1. /\ call' \in [Calls -> Call] /\ serial' = serial /\ serial \in [Calls -> Nat]
      /\ Numbered /\ Shown /\ Separated /\ Opened'
  BY DEF Quiet, History, Numbered
<1>2. \A c \in Calls : serial[c] > 0 => Role(c)' = Role(c)
  BY <1>1 DEF Quiet
<1>3. \A c \in Calls : Late(c)' => Late(c) /\ Role(c)' = Role(c) /\ serial[c] > 0
  BY <1>1, <1>2 DEF Quiet, Numbered
<1>4. Numbered'
  <2>1. \E m \in Nat : /\ \A r \in Calls : Role(r)' = "remove" => serial[r] <= m
                       /\ m = 0 \/ \E r \in Calls : Role(r)' = "remove" /\ serial[r] = m
    <3>1. PICK m \in Nat : /\ \A r \in Calls : Role(r) = "remove" => serial[r] <= m
                           /\ m = 0 \/ \E r \in Calls : Role(r) = "remove" /\ serial[r] = m
      BY <1>1 DEF Numbered
    <3>2. \A r \in Calls : Role(r)' = "remove" => serial[r] <= m
      <4> SUFFICES ASSUME NEW r \in Calls, Role(r)' = "remove" PROVE serial[r] <= m
        OBVIOUS
      <4>1. serial[r] \in Nat
        BY <1>1
      <4> QED BY <1>2, <3>1, <4>1
    <3>3. m = 0 \/ \E r \in Calls : Role(r)' = "remove" /\ serial[r] = m
      BY <1>2, <3>1
    <3> QED BY <3>2, <3>3
  <2>2. \A c \in Calls : (Early(c)' => serial[c] = 0) /\ (Late(c)' => serial[c] > 0)
    BY <1>1, <1>3 DEF Numbered, Quiet
  <2> QED BY <1>1, <2>1, <2>2 DEF Numbered
<1>5. ASSUME NEW c \in Calls, Late(c)', NEW d, Shows(d, c) PROVE Shows(d, c)'
  <2>1. CASE d.target # None
    BY <1>1, <1>5, <2>1 DEF Shows
  <2>2. CASE d.target = None
    <3>1. PICK r \in Calls : Role(r) = "remove" /\ serial[c] <= serial[r]
      BY <1>5, <2>2 DEF Shows
    <3>2. serial[r] > 0
      BY <1>1, <1>3, <1>5, <3>1
    <3> QED BY <1>1, <1>2, <2>2, <3>1, <3>2 DEF Shows
  <2> QED BY <2>1, <2>2
<1>6. Shown'
  <2> SUFFICES ASSUME NEW c \in Calls, Late(c)'
               PROVE  /\ Shows(dir, c)'
                      /\ Flushed(c)' => \A d \in past' : Shows(d, c)'
    BY DEF Shown, Flushed
  <2>1. Shows(dir, c) /\ dir'.target = dir.target
    BY <1>1, <1>3 DEF Shown, Quiet
  <2>2. ASSUME NEW d, d.target = dir.target PROVE Shows(d, c)
    BY <2>1, <2>2 DEF Shows
  <2>3. Shows(dir, c)'
    <3>1. CASE dir.target # None
      BY <1>1, <2>1, <3>1 DEF Shows
    <3>2. CASE dir.target = None
      <4>1. PICK r \in Calls : Role(r) = "remove" /\ serial[c] <= serial[r]
        BY <2>1, <3>2 DEF Shows
      <4>2. serial[r] > 0
        BY <1>1, <1>3, <4>1
      <4> QED BY <1>1, <1>2, <2>1, <3>2, <4>1, <4>2 DEF Shows
    <3> QED BY <3>1, <3>2
  <2>4. ASSUME Flushed(c)', NEW d \in past' PROVE Shows(d, c)'
    <3>1. (Flushed(c) /\ d \in past) \/ d.target = dir.target
      BY <2>4 DEF Quiet
    <3>2. Shows(d, c)
      BY <1>1, <2>2, <3>1 DEF Shown
    <3> QED BY <1>5, <3>2
  <2> QED BY <2>3, <2>4
<1>7. Separated'
  <2> SUFFICES ASSUME NEW a \in Calls, NEW b \in Calls,
                      Late(a)', Role(a)' = "create", Late(b)', Role(b)' = "create",
                      serial[a] < serial[b]
               PROVE  Between(a, b)'
    BY <1>1 DEF Separated
  <2>1. PICK r \in Calls : /\ Role(r) = "remove"
                           /\ serial[a] < serial[r] /\ serial[r] < serial[b]
    BY <1>1, <1>3 DEF Separated, Between
  <2>2. Role(r)' = "remove"
    BY <1>1, <1>2, <2>1
  <2> QED BY <1>1, <2>1, <2>2 DEF Between
<1> QED BY <1>1, <1>4, <1>6, <1>7 DEF History

LEMMA ChangingKeeps ==
  ASSUME IInv, History, NEW c \in Calls, Changing(c)
  PROVE  History'
<1>1. /\ call' \in [Calls -> Call] /\ Opened' /\ Numbered /\ Shown /\ Separated
      /\ serial \in [Calls -> Nat] /\ serial[c] = 0
      /\ ~Early(c)' /\ ~Flushed(c)' /\ ~Late(c)
  BY DEF Changing, History, Numbered, Early, Late, EarlySteps
<1>2. PICK n \in Nat : /\ serial' = [serial EXCEPT ![c] = n]
                       /\ \A d \in Calls : serial[d] < n
  BY <1>1, NewestSerial DEF Changing
<1>3. /\ serial' \in [Calls -> Nat] /\ serial'[c] = n
      /\ \A d \in Calls \ {c} : serial'[d] = serial[d] /\ serial'[d] < n
      /\ \A d \in Calls : serial[d] <= serial'[d]
  BY <1>1, <1>2
<1>4. \A d \in Calls : Role(d)' = Role(d)
  BY DEF Changing, Role
<1>5. \A d \in Calls \ {c} : /\ Early(d)' = Early(d) /\ Late(d)' = Late(d)
                             /\ Flushed(d)' = Flushed(d)
  BY DEF Changing, Early, Late, Flushed, Role
<1>6. Numbered'
  <2>1. \A a \in Calls : \E m \in Calls : \A d \in Calls : serial'[d] <= serial'[m]
    BY <1>2, <1>3
  <2>2. \E m \in Nat : /\ \A r \in Calls : Role(r)' = "remove" => serial'[r] <= m
                       /\ m = 0 \/ \E r \in Calls : Role(r)' = "remove" /\ serial'[r] = m
    <3>1. CASE Role(c) = "remove"
      BY <1>2, <1>3, <1>4, <3>1
    <3>2. CASE Role(c) # "remove"
      <4>1. PICK m \in Nat : /\ \A r \in Calls : Role(r) = "remove" => serial[r] <= m
                             /\ m = 0 \/ \E r \in Calls : Role(r) = "remove" /\ serial[r] = m
        BY <1>1 DEF Numbered
      <4> QED BY <1>3, <1>4, <3>2, <4>1
    <3> QED BY <3>1, <3>2
  <2>3. \A a, d \in Calls : serial'[a] = serial'[d] /\ serial'[a] > 0 => a = d
    BY <1>1, <1>3 DEF Numbered
  <2>4. \A a \in Calls : (Early(a)' => serial'[a] = 0) /\ (Late(a)' => serial'[a] > 0)
    <3>1. n > 0
      BY <1>1, <1>2
    <3> QED BY <1>1, <1>3, <1>5, <3>1 DEF Numbered
  <2> QED BY <1>3, <2>1, <2>2, <2>3, <2>4 DEF Numbered
<1>7. Shown'
  <2> SUFFICES ASSUME NEW a \in Calls, Late(a)'
               PROVE  /\ Shows(dir, a)'
                      /\ Flushed(a)' => \A d \in past' : Shows(d, a)'
    BY DEF Shown, Flushed
  <2>1. serial'[a] <= n
    BY <1>2, <1>3
  <2>2. Shows(dir, a)'
    <3>1. CASE Role(c) = "remove" /\ dir'.target = None
      BY <1>3, <1>4, <2>1, <3>1 DEF Shows
    <3>2. CASE dir'.target = c
      BY <1>3, <2>1, <3>2, NoneAssumption DEF Shows
    <3> QED BY <3>1, <3>2 DEF Changing
  <2>3. ASSUME Flushed(a)', NEW d \in past PROVE Shows(d, a)'
    <3>1. a # c /\ Shows(d, a)
      BY <1>1, <1>5, <2>3 DEF Shown
    <3>2. serial'[a] = serial[a]
      BY <1>3, <3>1
    <3>3. CASE d.target # None
      <4>1. d.target \in Calls
        BY <2>3, <3>3 DEF IInv, Durable, Directory
      <4>2. serial[a] <= serial[d.target] /\ serial[d.target] <= serial'[d.target]
        BY <1>3, <3>1, <3>3, <4>1 DEF Shows
      <4>3. serial'[a] <= serial'[d.target]
        BY <1>1, <1>3, <3>2, <4>1, <4>2
      <4> QED BY <3>3, <4>3 DEF Shows
    <3>4. CASE d.target = None
      <4>1. PICK r \in Calls : Role(r) = "remove" /\ serial[a] <= serial[r]
        BY <3>1, <3>4 DEF Shows
      <4>2. serial'[a] <= serial'[r]
        BY <1>1, <1>3, <3>2, <4>1
      <4> QED BY <1>4, <3>4, <4>1, <4>2 DEF Shows
    <3> QED BY <3>3, <3>4
  <2>4. ASSUME Flushed(a)', NEW d \in past' PROVE Shows(d, a)'
    <3>1. d \in past \/ d = dir'
      BY <2>4 DEF Changing
    <3>2. CASE d = dir'
      BY <2>2, <3>2 DEF Shows
    <3> QED BY <2>3, <2>4, <3>1, <3>2
  <2> QED BY <2>2, <2>4
<1>8. Separated'
  <2> SUFFICES ASSUME NEW a \in Calls, NEW b \in Calls,
                      Late(a)', Role(a)' = "create", Late(b)', Role(b)' = "create",
                      serial'[a] < serial'[b]
               PROVE  Between(a, b)'
    BY DEF Separated
  <2>1. a # c
    BY <1>2, <1>3
  <2>2. Late(a) /\ Role(a) = "create" /\ serial'[a] = serial[a] /\ serial[a] > 0
    BY <1>1, <1>3, <1>4, <1>5, <2>1 DEF Numbered
  <2>3. CASE b # c
    <3>1. Late(b) /\ Role(b) = "create" /\ serial'[b] = serial[b]
      BY <1>3, <1>4, <1>5, <2>3
    <3>2. PICK r \in Calls : /\ Role(r) = "remove"
                             /\ serial[a] < serial[r] /\ serial[r] < serial[b]
      BY <1>1, <2>2, <3>1 DEF Separated, Between
    <3>3. r # c
      BY <1>1, <2>2, <3>2
    <3> QED BY <1>3, <1>4, <2>2, <3>1, <3>2, <3>3 DEF Between
  <2>4. CASE b = c
    <3>1. dir.target = None
      BY <1>4, <2>4 DEF Changing
    <3>2. PICK r \in Calls : Role(r) = "remove" /\ serial[a] <= serial[r]
      BY <1>1, <2>2, <3>1 DEF Shown, Shows
    <3>3. r # a /\ r # c
      BY <1>4, <2>2, <2>4, <3>2
    <3>4. serial[a] # serial[r]
      BY <1>1, <2>2, <3>3 DEF Numbered
    <3>5. serial[a] < serial[r] /\ serial[r] < n
      BY <1>1, <1>2, <3>2, <3>4
    <3> QED BY <1>3, <1>4, <2>2, <2>4, <3>2, <3>3, <3>5 DEF Between
  <2> QED BY <2>3, <2>4
<1> QED BY <1>1, <1>6, <1>7, <1>8 DEF History

(* A loss of power ends every call that is not done, and what was done was   *)
(* flushed.                                                                  *)
LEMMA PowerKeeps == ASSUME IInv, History, PowerFails PROVE History'
<1>1. /\ dir' \in past /\ past' = {dir'} /\ serial' = serial
      /\ Numbered /\ Shown /\ Separated /\ call \in [Calls -> Call]
  BY DEF PowerFails, History
<1>2. \A c \in Calls :
        /\ call'[c] \in Call /\ call'[c].role = call[c].role
        /\ (call'[c] = call[c] /\ ~Active(c)) \/ call'[c].at = "stopped"
  BY <1>1 DEF PowerFails, Call, Steps, Ended
<1>3. \A c \in Calls : /\ Role(c)' = Role(c) /\ (Early(c)' => Early(c))
                       /\ Late(c)' => Late(c) /\ Flushed(c)
  <2> TAKE c \in Calls
  <2>1. CASE call'[c] = call[c] /\ ~Active(c)
    BY <2>1 DEF Role, Early, Late, Flushed, Active, Ended
  <2>2. CASE call'[c].at = "stopped"
    BY <1>2, <2>2 DEF Role, Early, Late, EarlySteps
  <2> QED BY <1>2, <2>1, <2>2
<1>4. call' \in [Calls -> Call]
  BY <1>2 DEF PowerFails
<1>5. Numbered'
  BY <1>1, <1>3 DEF Numbered
<1>6. Shown'
  <2> SUFFICES ASSUME NEW c \in Calls, Late(c)'
               PROVE  /\ Shows(dir, c)'
                      /\ Flushed(c)' => \A d \in past' : Shows(d, c)'
    BY DEF Shown, Flushed
  <2>1. Shows(dir', c)
    BY <1>1, <1>3 DEF Shown
  <2>2. Shows(dir, c)'
    BY <1>1, <1>3, <2>1 DEF Shows
  <2>3. ASSUME NEW d \in past' PROVE Shows(d, c)'
    <3>1. d = dir'
      BY <1>1, <2>3
    <3> QED BY <1>1, <1>3, <2>1, <3>1 DEF Shows
  <2> QED BY <2>2, <2>3
<1>7. Separated'
  BY <1>1, <1>3 DEF Separated, Between
<1>8. Opened'
  BY <1>2, <1>3 DEF Opened, At, Active, Ended, History, Role
<1> QED BY <1>4, <1>5, <1>6, <1>7, <1>8 DEF History

(* How far the calls come in one step.                                       *)
LEMMA Going ==
  ASSUME call \in [Calls -> Call], NEW c \in Calls, NEW step \in Steps,
         NEW inode \in Calls \cup {None}, GotoWith(c, step, inode)
  PROVE  /\ call' \in [Calls -> Call] /\ \A d \in Calls \ {c} : call'[d] = call[d]
         /\ call'[c].at = step /\ call'[c].role = call[c].role
<1> DEFINE q == [call[c] EXCEPT !.at = step, !.saw = IF step \in Ended THEN None ELSE inode]
<1>1. q \in Call /\ q.at = step /\ q.role = call[c].role
  BY DEF Call
<1>2. call' = [call EXCEPT ![c] = q]
  BY DEF GotoWith
<1> HIDE DEF q
<1> QED BY <1>1, <1>2

LEMMA GoingOn ==
  ASSUME call \in [Calls -> Call], NEW c \in Calls, NEW step \in Steps, Goto(c, step)
  PROVE  /\ call' \in [Calls -> Call] /\ \A d \in Calls \ {c} : call'[d] = call[d]
         /\ call'[c].at = step /\ call'[c].role = call[c].role
<1>1. call[c].saw \in Calls \cup {None}
  BY DEF Call
<1> QED BY <1>1, Going DEF Goto

(* A call that goes on without a change to the record is a quiet step, ...   *)
LEMMA QuietCall ==
  ASSUME History, NEW c \in Calls, NEW step \in Steps,
         call' \in [Calls -> Call], \A d \in Calls \ {c} : call'[d] = call[d],
         call'[c].at = step, call'[c].role = call[c].role,
         serial' = serial, dir'.target = dir.target,
         \A d \in past' : d \in past \/ d.target = dir.target,
         step \in EarlySteps => Early(c),
         step # "stat", step = "erase" => Role(c) = "remove",
         Role(c) \in Changes /\ step \in {"dirsync", "verify", "done"} => Late(c),
         step # "unstage",
         Role(c) \in Changes /\ step \in {"verify", "done"} =>
           Flushed(c) \/ \A d \in past' : d.target = dir.target
  PROVE  Quiet
<1>1. \A d \in Calls : Role(d)' = Role(d)
  BY DEF Role
<1>2. \A d \in Calls \ {c} : /\ Early(d)' = Early(d) /\ Late(d)' = Late(d)
                             /\ Flushed(d)' = Flushed(d)
  BY DEF Early, Late, Flushed, Role
<1>3. (Early(c)' => Early(c)) /\ (Late(c)' => Late(c))
  BY <1>1 DEF Early, Late
<1>4. Flushed(c)' => Flushed(c) \/ \A d \in past' : d.target = dir.target
  BY <1>1 DEF Flushed, Late
<1>5. Opened'
  BY DEF Opened, At, Role, History
<1> QED BY <1>1, <1>2, <1>3, <1>4, <1>5 DEF Quiet

LEMMA QuietNames ==
  ASSUME IInv, NEW c, Names([dir EXCEPT !.stages = dir.stages \ {c}])
                      \/ Names([dir EXCEPT !.stages = dir.stages \cup {c}])
                      \/ Flush \/ UNCHANGED files
  PROVE  dir'.target = dir.target /\ \A d \in past' : d \in past \/ d.target = dir.target
<1>1. dir \in Directory
  BY DEF IInv, Durable
<1> QED BY <1>1 DEF Names, Flush, files, Directory

(* ... and so is one that begins, or a listing at work.                      *)
LEMMA BeginsQuiet ==
  ASSUME History, NEW c \in Calls, NEW role \in Roles, NEW locked \in BOOLEAN,
         Open(c, role, locked) \/ Lstat(c, role, locked), IInv
  PROVE  Quiet
<1>1. /\ UNCHANGED <<files, serial>> /\ At(c, "idle") /\ serial[c] = 0
      /\ call \in [Calls -> Call] /\ dir.target \in Calls \cup {None}
  BY DEF Open, Lstat, Begins, History, Numbered, Early, EarlySteps, At, IInv, Durable, Directory
<1>2. PICK step \in {"absent", "stat", "stage", "look", "occupied"} :
        /\ Begins(c, role, locked, step)
        /\ step = "stat" => role \in {"read", "remove"}
  BY DEF Open, Lstat, Sound
<1> DEFINE q == [role |-> role, locked |-> locked,
                 saw |-> IF step \in Ended THEN None ELSE dir.target, at |-> step]
<1>3. q \in Call /\ q.at = step
  BY <1>1 DEF Call, Steps, Ended
<1>4. call' = [call EXCEPT ![c] = q]
  BY <1>2 DEF Begins
<1> HIDE DEF q
<1>5. /\ call' \in [Calls -> Call] /\ call'[c].at = step
      /\ \A d \in Calls \ {c} : call'[d] = call[d]
  BY <1>1, <1>3, <1>4
<1>6. \A d \in Calls \ {c} : /\ Early(d)' = Early(d) /\ Late(d)' = Late(d)
                             /\ Flushed(d)' = Flushed(d) /\ Role(d)' = Role(d)
  BY <1>5 DEF Early, Late, Flushed, Role
<1>7. Early(c) /\ ~Late(c)' /\ ~Flushed(c)'
  BY <1>1, <1>5 DEF Early, EarlySteps, Late, Flushed, At
<1>8. Opened'
  <2>1. step = "stat" => role \in {"read", "remove"}
    BY <1>2
  <2>2. call'[c].role = role
    BY <1>1, <1>4 DEF q
  <2>3. At(c, "stat")' => step = "stat"
    BY <1>5 DEF At
  <2>4. ~At(c, "erase")'
    BY <1>5 DEF At
  <2> QED BY <1>5, <2>1, <2>2, <2>3, <2>4 DEF Opened, At, Role, History
<1> QED BY <1>1, <1>5, <1>6, <1>7, <1>8 DEF Quiet, files

LEMMA ListingQuiet ==
  ASSUME IInv, History,
         UNCHANGED vars \/ \E c \in Calls : FindAbandoned(c) \/ Collect(c)
  PROVE  Quiet
<1>1. call' = call /\ serial' = serial /\ call \in [Calls -> Call]
  BY DEF vars, FindAbandoned, Collect, History
<1>2. \E c \in Calls \cup {None} : UNCHANGED files
                 \/ Names([dir EXCEPT !.stages = dir.stages \ {c}])
  BY DEF vars, files, FindAbandoned, Collect
<1>3. dir'.target = dir.target /\ \A d \in past' : d \in past \/ d.target = dir.target
  BY <1>2, QuietNames
<1>4. Opened'
  BY <1>1 DEF History, Opened, At, Role
<1> QED BY <1>1, <1>3, <1>4 DEF Quiet, Early, Late, Flushed, Role

LEMMA StepNames == EarlySteps \cup Ended \cup {"unstage", "dirsync", "verify"} \subseteq Steps
BY DEF EarlySteps, Ended, Steps

(* What looks, repairs, stages, gives up or stops changes no record.         *)
LEMMA LookingQuiet ==
  ASSUME IInv, History, NEW c \in Calls,
         Stat(c) \/ Look(c) \/ Unlink(c) \/ Settle(c) \/ Relook(c) \/ Restat(c)
         \/ Stage(c) \/ Stop(c)
  PROVE  Quiet
<1>1. call \in [Calls -> Call] /\ call[c].saw \in Calls \cup {None} /\ serial' = serial
      /\ dir.target \in Calls \cup {None}
  BY DEF History, Call, Stat, Look, Unlink, Settle, Relook, Restat, Stage, Stop,
         IInv, Durable, Directory
<1>2. \E x : \/ Names([dir EXCEPT !.stages = dir.stages \ {x}])
             \/ Names([dir EXCEPT !.stages = dir.stages \cup {x}])
             \/ Flush \/ UNCHANGED files
  BY DEF Stat, Look, Unlink, Settle, Relook, Restat, Stage, Stop
<1>3. dir'.target = dir.target /\ \A d \in past' : d \in past \/ d.target = dir.target
  BY <1>2, QuietNames
<1>4. \E step \in Steps, inode \in Calls \cup {None} :
        /\ GotoWith(c, step, inode)
        /\ step \in EarlySteps => Early(c)
        /\ step \notin {"unstage", "dirsync", "verify", "stat"}
        /\ step = "erase" => Role(c) = "remove"
        /\ step = "done" => Role(c) \notin Changes
  <2>1. CASE Stat(c)
    <3>1. Role(c) \in {"read", "remove"}
      BY <2>1 DEF Stat, History, Opened
    <3>2. PICK step \in {"look", "refused", "done", "erase"} :
            /\ Goto(c, step)
            /\ step = "done" => Role(c) = "read"
            /\ step = "erase" => Role(c) = "remove"
      BY <2>1, <3>1 DEF Stat
    <3>3. Early(c)
      BY <2>1 DEF Stat, At, Early, EarlySteps
    <3> QED BY <1>1, <3>2, <3>3, StepNames DEF Goto, EarlySteps, Ended, Changes
  <2>2. CASE Look(c) \/ Unlink(c) \/ Settle(c) \/ Stage(c)
    BY <1>1, <2>2, StepNames
       DEF Look, Unlink, Settle, Stage, Goto, At, Early, EarlySteps, Ended
  <2>3. CASE Relook(c)
    BY <1>1, <2>3, StepNames DEF Relook, Goto, At, Early, EarlySteps, Ended
  <2>4. CASE Restat(c)
    <3>1. PICK step \in {"refused", "done", "occupied", "stage"}, inode \in Calls \cup {None} :
            GotoWith(c, step, inode) /\ (step = "done" => Role(c) = "read")
      BY <1>1, <2>4 DEF Restat, Sound
    <3>2. Early(c)
      BY <2>4 DEF Restat, At, Early, EarlySteps
    <3> QED BY <3>1, <3>2, StepNames DEF EarlySteps, Ended, Changes
  <2>5. CASE Stop(c)
    BY <1>1, <2>5, StepNames DEF Stop, Goto, EarlySteps, Ended
  <2> QED BY <2>1, <2>2, <2>3, <2>4, <2>5
<1>5. PICK step \in Steps, inode \in Calls \cup {None} :
        /\ GotoWith(c, step, inode)
        /\ step \in EarlySteps => Early(c)
        /\ step \notin {"unstage", "dirsync", "verify", "stat"}
        /\ step = "erase" => Role(c) = "remove"
        /\ step = "done" => Role(c) \notin Changes
  BY <1>4
<1>6. /\ call' \in [Calls -> Call] /\ \A d \in Calls \ {c} : call'[d] = call[d]
      /\ call'[c].at = step /\ call'[c].role = call[c].role
  BY <1>1, <1>5, Going
<1> QED BY <1>1, <1>3, <1>5, <1>6, QuietCall

LEMMA UndoQuiet ==
  ASSUME IInv, History, NEW c \in Calls,
         NEW result \in {"occupied", "failed", "lost", "refused"}, Undo(c, result)
  PROVE  Quiet
<1>1. call \in [Calls -> Call] /\ serial' = serial /\ Goto(c, result)
      /\ Names([dir EXCEPT !.stages = dir.stages \ {c}])
  BY DEF History, Undo
<1>2. dir'.target = dir.target /\ \A d \in past' : d \in past \/ d.target = dir.target
  BY <1>1, QuietNames
<1>3. result \in Steps /\ result \notin EarlySteps
      /\ result \notin {"unstage", "dirsync", "verify", "done"}
  BY DEF Steps, Ended, EarlySteps
<1>4. /\ call' \in [Calls -> Call] /\ \A d \in Calls \ {c} : call'[d] = call[d]
      /\ call'[c].at = result /\ call'[c].role = call[c].role
  BY <1>1, <1>3, GoingOn
<1> QED BY <1>1, <1>2, <1>3, <1>4, QuietCall

(* What is published is flushed before it is called done.                    *)
LEMMA PublishedQuiet ==
  ASSUME IInv, History, NEW c \in Calls, Unstage(c) \/ Dirsync(c) \/ Verify(c)
  PROVE  Quiet
<1>1. call \in [Calls -> Call]
  BY DEF History
<1>2. ASSUME NEW step \in {"dirsync", "verify", "done"}, Goto(c, step), serial' = serial,
             Role(c) \in Changes => Late(c),
             \/ Names([dir EXCEPT !.stages = dir.stages \ {c}]) \/ Flush \/ UNCHANGED files,
             step \in {"verify", "done"} /\ Role(c) \in Changes => Flushed(c) \/ Flush
      PROVE  Quiet
  <2>1. dir'.target = dir.target /\ \A d \in past' : d \in past \/ d.target = dir.target
    BY <1>2, QuietNames
  <2>2. step \in Steps /\ step \notin EarlySteps
    BY DEF Steps, Ended, EarlySteps
  <2>3. /\ call' \in [Calls -> Call] /\ \A d \in Calls \ {c} : call'[d] = call[d]
        /\ call'[c].at = step /\ call'[c].role = call[c].role
    BY <1>1, <1>2, <2>2, GoingOn
  <2>4. Flush => \A d \in past' : d.target = dir.target
    BY DEF Flush
  <2> QED BY <1>2, <2>1, <2>2, <2>3, <2>4, QuietCall
<1>3. CASE Unstage(c)
  BY <1>2, <1>3 DEF Unstage, At, Late
<1>4. CASE Dirsync(c)
  BY <1>2, <1>4 DEF Dirsync, At, Late
<1>5. CASE Verify(c)
  <2>1. Role(c) \in Changes => Late(c) /\ Flushed(c)
    BY <1>5 DEF Verify, At, Late, Flushed
  <2>2. ASSUME Goto(c, "done"), UNCHANGED <<files, doomed, serial, faults>> PROVE Quiet
    BY <1>2, <2>1, <2>2
  <2> QED BY <1>5, <2>2, UndoQuiet DEF Verify
<1> QED BY <1>3, <1>4, <1>5

LEMMA PublishSteps ==
  ASSUME IInv, History, NEW c \in Calls, Check(c) \/ Link(c) \/ Rename(c) \/ Erase(c)
  PROVE  Quiet \/ Changing(c)
<1>1. call \in [Calls -> Call] /\ dir \in Directory /\ Early(c)
  BY DEF History, IInv, Durable, Check, Link, Rename, Erase, At, Early, EarlySteps
<1>2. ASSUME NEW step \in {"unstage", "dirsync"}, Goto(c, step), Changed(c),
             NEW d, Names(d),
             \/ Role(c) = "remove" /\ d.target = None
             \/ Role(c) # "remove" /\ d.target = c /\ (Role(c) = "create" => dir.target = None)
      PROVE  Changing(c)
  <2>1. step \in Steps
    BY DEF Steps
  <2>2. /\ call' \in [Calls -> Call] /\ \A b \in Calls \ {c} : call'[b] = call[b]
        /\ call'[c].at = step /\ call'[c].role = call[c].role
    BY <1>1, <1>2, <2>1, GoingOn
  <2>3. ~Early(c)' /\ ~Flushed(c)' /\ Role(c)' = Role(c) /\ Opened'
    BY <2>2 DEF Early, EarlySteps, Flushed, Role, History, Opened, At
  <2>4. dir' = d /\ past' = past \cup {d}
    BY <1>2 DEF Names
  <2> QED BY <1>1, <1>2, <2>2, <2>3, <2>4 DEF Changing
<1>3. ASSUME NEW step \in {"publish", "failed"}, Goto(c, step), UNCHANGED <<dir, past, serial>>
      PROVE  Quiet
  <2>1. step \in Steps /\ step \notin {"unstage", "dirsync", "verify", "done", "stat", "erase"}
    BY DEF Steps, Ended
  <2>2. /\ call' \in [Calls -> Call] /\ \A b \in Calls \ {c} : call'[b] = call[b]
        /\ call'[c].at = step /\ call'[c].role = call[c].role
    BY <1>1, <1>3, <2>1, GoingOn
  <2> QED BY <1>1, <1>3, <2>1, <2>2, QuietCall
<1>4. CASE Check(c)
  BY <1>3, <1>4, UndoQuiet DEF Check, files
<1>5. CASE Link(c)
  <2>1. [dir EXCEPT !.target = c].target = c
    BY <1>1 DEF Directory
  <2> QED BY <1>2, <1>5, <2>1, UndoQuiet DEF Link
<1>6. CASE Rename(c)
  <2>1. [target |-> c, stages |-> dir.stages \ {c}].target = c
    OBVIOUS
  <2> QED BY <1>2, <1>6, <2>1, UndoQuiet DEF Rename
<1>7. CASE Erase(c)
  <2>1. [dir EXCEPT !.target = None].target = None
    BY <1>1 DEF Directory
  <2>2. Role(c) = "remove"
    BY <1>7 DEF Erase, History, Opened
  <2> QED BY <1>2, <1>3, <1>7, <2>1, <2>2 DEF Erase
<1> QED BY <1>4, <1>5, <1>6, <1>7

LEMMA InitHistory == Init => History
<1> SUFFICES ASSUME Init PROVE History
  OBVIOUS
<1> DEFINE first == CHOOSE r \in Roles : TRUE
           q == [role |-> first, at |-> "idle", locked |-> FALSE, saw |-> None]
<1>1. first \in Roles
  BY RolesAssumption
<1>2. q \in Call /\ q.at = "idle"
  BY <1>1, StepNames DEF Call, EarlySteps
<1>3. call \in [Calls -> {q}]
  BY DEF Init
<1> HIDE DEF q
<1>4. call \in [Calls -> Call] /\ \A c \in Calls : call[c].at = "idle"
  BY <1>2, <1>3
<1>5. \A c \in Calls : Early(c) /\ ~Late(c) /\ serial[c] = 0
  BY <1>4 DEF Early, EarlySteps, Late, Init
<1>6. Numbered
  <2>1. serial \in [Calls -> Nat]
    BY DEF Init
  <2>2. \E m \in Nat : /\ \A r \in Calls : Role(r) = "remove" => serial[r] <= m
                       /\ m = 0 \/ \E r \in Calls : Role(r) = "remove" /\ serial[r] = m
    BY <1>5
  <2> QED BY <1>5, <2>1, <2>2 DEF Numbered
<1>7. Shown /\ Separated
  BY <1>5 DEF Shown, Separated, Flushed
<1>8. Opened
  BY <1>4 DEF Opened, At
<1> QED BY <1>4, <1>6, <1>7, <1>8 DEF History

LEMMA HistoryKeeps == IInv /\ History /\ [Next]_vars => History'
<1> SUFFICES ASSUME IInv, History, [Next]_vars PROVE History'
  OBVIOUS
<1>1. ASSUME NEW c \in Calls, NEW role \in Roles, NEW locked \in BOOLEAN,
             Open(c, role, locked) \/ Lstat(c, role, locked)
      PROVE  History'
  BY <1>1, BeginsQuiet, QuietKeeps
<1>2. ASSUME NEW c \in Calls,
             \/ Stat(c) \/ Look(c) \/ Unlink(c) \/ Settle(c) \/ Relook(c) \/ Restat(c)
             \/ Stage(c) \/ Stop(c) \/ Unstage(c) \/ Dirsync(c) \/ Verify(c)
      PROVE  History'
  BY <1>2, LookingQuiet, PublishedQuiet, QuietKeeps
<1>3. ASSUME NEW c \in Calls, Check(c) \/ Link(c) \/ Rename(c) \/ Erase(c)
      PROVE  History'
  BY <1>3, PublishSteps, QuietKeeps, ChangingKeeps
<1>4. CASE UNCHANGED vars \/ \E c \in Calls : FindAbandoned(c) \/ Collect(c)
  BY <1>4, ListingQuiet, QuietKeeps
<1> QED BY <1>1, <1>2, <1>3, <1>4, PowerKeeps DEF Next

LEMMA Histories == Spec => [](IInv /\ History)
BY InitIInv, NextKeeps, InitHistory, HistoryKeeps, PTL DEF Spec

(* A change that was reported as done is not undone: at any later moment,    *)
(* also after any number of losses of power, the record shows it or a later  *)
(* change (the flush of the directory before the report, writeJson and       *)
(* removeFile).                                                              *)
THEOREM ReportsAreKept == Spec => []ReportedIsKept
<1>1. IInv /\ History => ReportedIsKept
  <2> SUFFICES ASSUME IInv, History, NEW c \in Calls, At(c, "done"), Role(c) \in Changes
               PROVE  serial[c] <= ShownSerial
    BY DEF ReportedIsKept
  <2>1. Shows(dir, c)
    BY DEF History, Shown, Late, At
  <2>2. CASE dir.target # None
    BY <2>1, <2>2 DEF Shows, ShownSerial
  <2>3. CASE dir.target = None
    <3> DEFINE S == {0} \cup {serial[r] : r \in {d \in Calls : Role(d) = "remove"}}
    <3>1. S \subseteq Nat
      BY DEF History, Numbered
    <3>2. \E x \in S : \A y \in S : x >= y
      <4>1. PICK m \in Nat : /\ \A r \in Calls : Role(r) = "remove" => serial[r] <= m
                             /\ m = 0 \/ \E r \in Calls : Role(r) = "remove" /\ serial[r] = m
        BY DEF History, Numbered
      <4>2. m \in S /\ \A y \in S : m >= y
        BY <4>1 DEF History, Numbered
      <4> QED BY <4>2
    <3>3. Max(S) \in S /\ \A y \in S : Max(S) >= y
      BY <3>2 DEF Max
    <3>4. PICK r \in Calls : Role(r) = "remove" /\ serial[c] <= serial[r]
      BY <2>1, <2>3 DEF Shows
    <3>5. serial[r] \in S
      BY <3>4
    <3>6. ShownSerial = Max(S)
      BY <2>3 DEF ShownSerial
    <3>7. serial[c] \in Nat /\ serial[r] \in Nat /\ Max(S) \in Nat /\ serial[r] <= Max(S)
      <4>1. Max(S) \in Nat /\ Max(S) >= serial[r]
        BY <3>1, <3>3, <3>5
      <4> HIDE DEF S
      <4> QED BY <4>1 DEF History, Numbered
    <3> HIDE DEF S
    <3> QED BY <3>4, <3>6, <3>7
  <2> QED BY <2>2, <2>3
<1> QED BY <1>1, Histories, PTL

(* Of two creates that are told they made the record, the second comes after *)
(* a removal, with or without locks: link never replaces what is there.      *)
THEOREM CreatesAreSeparated == Spec => []CreatedOnce
<1>1. IInv /\ History => CreatedOnce
  BY DEF History, Separated, Between, CreatedOnce, Late, At, Changes
<1> QED BY <1>1, Histories, PTL

-----------------------------------------------------------------------------
(* Refusals.  A call that repairs knows that the inode it saw has no second  *)
(* name any more, since a stage's name is given once; and while every change *)
(* is made under the lock, what a locked call saw is still the record.       *)
Repairing == {"look", "unlink", "settle", "relook", "restat"}
Publishing == {"unstage", "dirsync", "verify"}
Unmade == {"idle", "stat", "stage"} \cup Repairing
Made(i) == call[i].at \notin Unmade
Holding(c) == Active(c) /\ call[c].locked

RoleFits(q) ==
  /\ q.at \in Repairing => q.role # "remove"
  /\ q.at \in {"stage", "check", "publish", "unstage", "verify"} =>
       q.role \in {"write", "create"}
  /\ q.at = "dirsync" => q.role # "read"
SingleNamed(q, d) == q.at \in {"settle", "relook", "restat"} => q.saw \notin d.stages
Relies(q, c, d) ==
  /\ q.at \in {"stat", "stage", "check", "publish", "erase"} \cup Repairing =>
       d.target = q.saw
  /\ q.at \in Publishing /\ q.role # "remove" => d.target = c
  /\ q.at \in {"dirsync", "verify"} /\ q.role # "remove" => c \notin d.stages

Orderly ==
  /\ \A d \in past : d.target # None => Made(d.target)
  /\ \A c \in Calls : /\ call[c].saw # None => Made(call[c].saw)
                      /\ RoleFits(call[c]) /\ SingleNamed(call[c], dir)
  /\ \A c, d \in Calls : Holding(c) /\ Holding(d) => c = d
  /\ ChangesAreLocked => \A c \in Calls : Holding(c) => Relies(call[c], c, dir)

LEMMA InitOrderly == Init => Orderly
<1> SUFFICES ASSUME Init PROVE Orderly
  OBVIOUS
<1>1. \A c \in Calls : call[c].at = "idle" /\ call[c].saw = None
  BY DEF Init
<1> QED BY <1>1 DEF Init, Orderly, NoNames, RoleFits, SingleNamed, Holding, Active,
                    Repairing

(* A call that was under way keeps its role and its lock.                    *)
LEMMA LockedBefore ==
  ASSUME ChangesAreLocked',
         \A d \in Calls : \/ At(d, "idle")
                         \/ /\ call'[d].role = call[d].role /\ call'[d].at # "idle"
                            /\ call'[d].locked = call[d].locked
  PROVE  ChangesAreLocked
BY DEF ChangesAreLocked, Role, At

(* The step of one call, ...                                                 *)
LEMMA StepOrderly ==
  ASSUME IInv, History, Orderly, NEW c \in Calls, NEW q \in Call,
         call' = [call EXCEPT ![c] = q], q.at # "idle",
         \/ At(c, "idle") /\ (q.locked => \A d \in Calls : ~Holding(d))
         \/ Active(c) /\ q.role = Role(c) /\ q.locked = call[c].locked,
         Made(c) => q.at \notin Unmade,
         \A d \in past' : \/ d \in past \/ d.target \in {dir.target, None}
                          \/ d.target = c /\ q.at \notin Unmade,
         dir'.stages \subseteq dir.stages \cup {c},
         At(c, "stage") \/ dir'.stages \subseteq dir.stages,
         dir'.target = dir.target \/ (Active(c) /\ Role(c) \in Changes),
         q.saw # None => Made(q.saw), RoleFits(q), SingleNamed(q, dir'),
         ChangesAreLocked /\ q.locked /\ q.at \notin Ended => Relies(q, c, dir')
  PROVE  Orderly'
<1>1. /\ call \in [Calls -> Call] /\ dir \in Directory /\ dir \in past
      /\ \A d \in past : d.target \in Calls \cup {None}
  BY DEF History, IInv, Durable, Directory
<1>2. /\ call'[c] = q /\ \A d \in Calls \ {c} : call'[d] = call[d]
      /\ \A d \in Calls : call[d].saw \in Calls \cup {None}
      /\ q.saw \in Calls \cup {None}
  BY <1>1 DEF Call
<1>3. \A i \in Calls : Made(i) => Made(i)'
  BY <1>2 DEF Made
<1>4. ASSUME NEW d \in past', d.target # None PROVE Made(d.target)'
  <2>1. CASE d.target = c /\ q.at \notin Unmade
    BY <1>2, <2>1 DEF Made
  <2>2. CASE d \in past \/ d.target = dir.target
    BY <1>1, <1>3, <1>4, <2>2 DEF Orderly
  <2> QED BY <1>4, <2>1, <2>2
<1>5. ASSUME NEW d \in Calls
      PROVE  /\ (call[d].saw # None => Made(call[d].saw))'
             /\ RoleFits(call[d])' /\ SingleNamed(call[d], dir)'
  <2>1. CASE d = c
    BY <1>2, <1>3, <2>1
  <2>2. CASE d # c
    <3>1. /\ call'[d] = call[d] /\ RoleFits(call[d]) /\ SingleNamed(call[d], dir)
          /\ call[d].saw # None => Made(call[d].saw)
      BY <1>2, <2>2 DEF Orderly
    <3>2. At(c, "stage") => call[d].saw # c
      BY <3>1, NoneAssumption DEF Made, Unmade, At
    <3>3. SingleNamed(call[d], dir')
      BY <3>1, <3>2 DEF SingleNamed
    <3> QED BY <1>2, <1>3, <3>1, <3>3
  <2> QED BY <2>1, <2>2
<1>6. \A d \in Calls \ {c} : Holding(d)' = Holding(d)
  BY <1>2 DEF Holding, Active
<1>7. Holding(c)' => q.locked /\ q.at \notin Ended
                     /\ (Holding(c) \/ \A d \in Calls : ~Holding(d))
  BY <1>2 DEF Holding, Active
<1>8. \A d, e \in Calls : Holding(d)' /\ Holding(e)' => d = e
  BY <1>6, <1>7 DEF Orderly
<1>9. ChangesAreLocked' => ChangesAreLocked
  BY <1>2, LockedBefore DEF Role, At, Active
<1>10. ASSUME ChangesAreLocked', NEW d \in Calls, Holding(d)'
       PROVE  Relies(call[d], d, dir)'
  <2>1. CASE d = c
    BY <1>2, <1>7, <1>9, <1>10, <2>1
  <2>2. CASE d # c
    <3>1. /\ Holding(d) /\ call'[d] = call[d] /\ Relies(call[d], d, dir)
          /\ ChangesAreLocked
      BY <1>2, <1>6, <1>9, <1>10, <2>2 DEF Orderly
    <3>2. ~Holding(c)
      BY <2>2, <3>1 DEF Orderly
    <3>3. dir'.target = dir.target
      BY <3>1, <3>2 DEF ChangesAreLocked, Holding, Active, At
    <3> QED BY <2>2, <3>1, <3>3 DEF Relies
  <2> QED BY <2>1, <2>2
<1> QED BY <1>4, <1>5, <1>8, <1>10 DEF Orderly

(* ... which is what each system call is.                                    *)
LEMMA MoveOrderly ==
  ASSUME IInv, History, Orderly, NEW c \in Calls, NEW step \in Steps \ {"idle"},
         NEW inode \in Calls \cup {None}, GotoWith(c, step, inode), Active(c),
         Made(c) => step \notin Unmade,
         \A d \in past' : \/ d \in past \/ d.target \in {dir.target, None}
                          \/ d.target = c /\ step \notin Unmade,
         dir'.stages \subseteq dir.stages \cup {c},
         At(c, "stage") \/ dir'.stages \subseteq dir.stages,
         dir'.target = dir.target \/ Role(c) \in Changes,
         inode # None => Made(inode),
         step \in Repairing => Role(c) # "remove",
         step \in {"stage", "check", "publish", "unstage", "verify"} =>
           Role(c) \in {"write", "create"},
         step = "dirsync" => Role(c) # "read",
         step \in {"settle", "relook", "restat"} => inode \notin dir'.stages,
         ChangesAreLocked /\ call[c].locked =>
           /\ step \in {"stat", "stage", "check", "publish", "erase"} \cup Repairing =>
                dir'.target = inode
           /\ step \in Publishing /\ Role(c) # "remove" => dir'.target = c
           /\ step \in {"dirsync", "verify"} /\ Role(c) # "remove" => c \notin dir'.stages
  PROVE  Orderly'
<1> DEFINE r == [call[c] EXCEPT !.at = step, !.saw = IF step \in Ended THEN None ELSE inode]
<1>1. call \in [Calls -> Call]
  BY DEF History
<1>2. PICK q \in Call : q = r
  BY <1>1 DEF Call
<1>3. /\ q.at = step /\ q.role = Role(c) /\ q.locked = call[c].locked
      /\ q.saw = IF step \in Ended THEN None ELSE inode
  BY <1>1, <1>2 DEF Call, Role
<1>4. call' = [call EXCEPT ![c] = q]
  BY <1>2 DEF GotoWith
<1> HIDE DEF r
<1>5. q.saw # None => Made(q.saw)
  BY <1>3
<1>6. RoleFits(q)
  BY <1>3 DEF RoleFits
<1>7. SingleNamed(q, dir')
  BY <1>3 DEF SingleNamed, Ended
<1>8. ChangesAreLocked /\ q.locked /\ q.at \notin Ended => Relies(q, c, dir')
  BY <1>3 DEF Relies
<1> QED BY <1>3, <1>4, <1>5, <1>6, <1>7, <1>8, StepOrderly

LEMMA StageNames ==
  ASSUME IInv, NEW x, Names([dir EXCEPT !.stages = dir.stages \ {x}])
  PROVE  /\ dir'.target = dir.target /\ dir'.stages = dir.stages \ {x}
         /\ \A d \in past' : d \in past \/ d.target = dir.target
<1>1. dir \in Directory
  BY DEF IInv, Durable
<1> QED BY <1>1 DEF Names, Directory

(* What a call that is under way knows.                                      *)
LEMMA Known ==
  ASSUME IInv, History, Orderly, NEW c \in Calls
  PROVE  /\ call[c] \in Call /\ call[c].saw \in Calls \cup {None}
         /\ dir.target \in Calls \cup {None} /\ dir.stages \subseteq Calls
         /\ call[c].saw # None => Made(call[c].saw)
         /\ dir.target # None => Made(dir.target)
         /\ RoleFits(call[c]) /\ SingleNamed(call[c], dir)
         /\ ChangesAreLocked /\ call[c].locked /\ Active(c) => Relies(call[c], c, dir)
BY DEF IInv, Durable, Directory, History, Call, Orderly, Holding

LEMMA BeginsOrderly ==
  ASSUME IInv, History, Orderly, NEW c \in Calls, NEW role \in Roles, NEW locked \in BOOLEAN,
         Open(c, role, locked) \/ Lstat(c, role, locked)
  PROVE  Orderly'
<1>1. UNCHANGED files /\ At(c, "idle")
  BY DEF Open, Lstat, Begins
<1>2. PICK step \in {"absent", "stat", "stage", "look", "occupied"} :
        /\ Begins(c, role, locked, step)
        /\ step = "look" => role # "remove"
        /\ step = "stage" => role \in {"write", "create"}
  BY RolesAssumption DEF Open, Lstat, Sound
<1> DEFINE r == [role |-> role, locked |-> locked,
                 saw |-> IF step \in Ended THEN None ELSE dir.target, at |-> step]
<1>3. dir.target \in Calls \cup {None} /\ (dir.target # None => Made(dir.target))
  BY Known
<1>4. PICK q \in Call : q = r
  <2>1. step \in Steps
    BY DEF Steps, Ended
  <2>2. r.role = role /\ r \in Call
    BY <1>3, <2>1 DEF Call
  <2> QED BY <2>2
<1>5. /\ q.at = step /\ q.role = role /\ q.locked = locked
      /\ q.saw = IF step \in Ended THEN None ELSE dir.target
  BY <1>4
<1>6. call' = [call EXCEPT ![c] = q]
  BY <1>2, <1>4 DEF Begins
<1> HIDE DEF r
<1>7. ~Made(c)
  BY <1>1 DEF Made, Unmade, At
<1>8. q.saw # None => Made(q.saw)
  BY <1>3, <1>5
<1>9. RoleFits(q)
  BY <1>2, <1>5 DEF RoleFits, Repairing
<1>10. SingleNamed(q, dir')
  BY <1>5 DEF SingleNamed
<1>11. q.at \notin Ended => Relies(q, c, dir')
  BY <1>1, <1>5 DEF Relies, Publishing, files
<1>12. q.locked => \A d \in Calls : ~Holding(d)
  BY <1>2, <1>5 DEF Begins, Holding
<1>13. dir' = dir /\ past' = past
  BY <1>1 DEF files
<1> QED BY <1>1, <1>5, <1>6, <1>7, <1>8, <1>9, <1>10, <1>11, <1>12, <1>13, StepOrderly

LEMMA LookingOrderly ==
  ASSUME IInv, History, Orderly, NEW c \in Calls,
         Stat(c) \/ Look(c) \/ Unlink(c) \/ Settle(c) \/ Relook(c) \/ Restat(c) \/ Stop(c)
  PROVE  Orderly'
<1>1. /\ call[c].saw \in Calls \cup {None} /\ dir.target \in Calls \cup {None}
      /\ call[c].saw # None => Made(call[c].saw)
      /\ dir.target # None => Made(dir.target)
      /\ RoleFits(call[c]) /\ SingleNamed(call[c], dir)
      /\ ChangesAreLocked /\ call[c].locked /\ Active(c) => Relies(call[c], c, dir)
  BY Known
<1>2. Role(c) \in {"read", "write", "create", "remove"}
  BY Known, RolesAssumption DEF Call, Role
<1>3. CASE Stat(c)
  <2>1. PICK step \in {"look", "refused", "done", "erase"} :
          /\ Goto(c, step) /\ (step = "look" => Role(c) = "read")
          /\ step = "erase" => Role(c) # "read"
    BY <1>3 DEF Stat
  <2>2. Active(c) /\ ~Made(c) /\ step \in Steps \ {"idle"}
    BY <1>3 DEF Stat, At, Active, Ended, Made, Unmade, Steps
  <2>3. ChangesAreLocked /\ call[c].locked => dir.target = call[c].saw
    BY <1>1, <1>3, <2>2 DEF Relies, Stat, At
  <2>4. dir' = dir /\ past' = past
    BY <1>3 DEF Stat, files
  <2> QED BY <1>1, <2>1, <2>2, <2>3, <2>4, MoveOrderly DEF Goto, Publishing, Repairing
<1>4. CASE Look(c) \/ Unlink(c) \/ Settle(c) \/ Relook(c)
  <2>1. PICK step \in {"unlink", "relook", "settle", "restat", "refused"} :
          /\ GotoWith(c, step, call[c].saw)
          /\ step \in {"settle", "relook", "restat"} => call[c].saw \notin dir'.stages
    <3>1. CASE Look(c)
      BY <3>1 DEF Look, Goto, files
    <3>2. CASE Unlink(c)
      BY <3>2, StageNames DEF Unlink, Goto
    <3>3. CASE Settle(c)
      BY <1>1, <3>3 DEF Settle, Goto, Flush, SingleNamed, At
    <3>4. CASE Relook(c)
      BY <1>1, <3>4 DEF Relook, Goto, files, SingleNamed, At
    <3> QED BY <1>4, <3>1, <3>2, <3>3, <3>4
  <2>2. /\ Active(c) /\ ~Made(c) /\ step \in Steps \ {"idle"} /\ call[c].at \in Repairing
    BY <1>4 DEF Look, Unlink, Settle, Relook, At, Active, Ended, Made, Unmade, Steps, Repairing
  <2>3. Role(c) # "remove" /\ (ChangesAreLocked /\ call[c].locked => dir.target = call[c].saw)
    BY <1>1, <2>2 DEF RoleFits, Relies, Role
  <2>4. /\ dir'.target = dir.target /\ dir'.stages \subseteq dir.stages
        /\ \A d \in past' : d \in past \/ d.target = dir.target
    BY <1>4, StageNames DEF Look, Unlink, Settle, Relook, Flush, files
  <2> QED BY <1>1, <2>1, <2>2, <2>3, <2>4, MoveOrderly DEF Publishing
<1>5. CASE Restat(c)
  <2>1. PICK step \in {"refused", "done", "occupied", "stage"},
             inode \in {call[c].saw, dir.target} :
          /\ GotoWith(c, step, inode)
          /\ step = "stage" => Role(c) = "write" \/ Role(c) \notin {"read", "create"}
    BY <1>5 DEF Restat, Sound
  <2>2. Active(c) /\ ~Made(c) /\ step \in Steps \ {"idle"} /\ call[c].at \in Repairing
    BY <1>5 DEF Restat, At, Active, Ended, Made, Unmade, Steps, Repairing
  <2>3. Role(c) # "remove" /\ (ChangesAreLocked /\ call[c].locked => dir.target = call[c].saw)
    BY <1>1, <2>2 DEF RoleFits, Relies, Role
  <2>4. dir' = dir /\ past' = past
    BY <1>5 DEF Restat, files
  <2> QED BY <1>1, <1>2, <2>1, <2>2, <2>3, <2>4, MoveOrderly DEF Publishing, Repairing
<1>6. CASE Stop(c)
  <2>1. GotoWith(c, "stopped", call[c].saw) /\ Active(c) /\ dir' = dir /\ past' = past
    BY <1>6 DEF Stop, Goto, files
  <2>2. "stopped" \in Steps \ {"idle"}
    BY DEF Steps, Ended
  <2> QED BY <1>1, <2>1, <2>2, MoveOrderly DEF Publishing, Repairing, Unmade
<1> QED BY <1>3, <1>4, <1>5, <1>6

LEMMA WritingOrderly ==
  ASSUME IInv, History, Orderly, NEW c \in Calls,
         Stage(c) \/ Check(c) \/ Link(c) \/ Rename(c)
  PROVE  Orderly'
<1>1. /\ call[c].saw \in Calls \cup {None} /\ dir \in Directory
      /\ call[c].saw # None => Made(call[c].saw)
      /\ RoleFits(call[c])
      /\ ChangesAreLocked /\ call[c].locked /\ Active(c) => Relies(call[c], c, dir)
  BY Known DEF IInv, Durable
<1>2. /\ Active(c) /\ call[c].at \in {"stage", "check", "publish"}
      /\ Role(c) \in {"write", "create"}
  BY <1>1 DEF Stage, Check, Link, Rename, At, Active, Ended, RoleFits, Role
<1>3. ChangesAreLocked /\ call[c].locked => dir.target = call[c].saw
  BY <1>1, <1>2 DEF Relies
<1>4. ASSUME NEW result \in {"occupied", "failed", "lost"}, Undo(c, result) PROVE Orderly'
  <2>1. GotoWith(c, result, call[c].saw) /\ result \in Steps \ {"idle"}
    BY <1>4 DEF Undo, Goto, Steps, Ended
  <2>2. /\ dir'.target = dir.target /\ dir'.stages = dir.stages \ {c}
        /\ \A d \in past' : d \in past \/ d.target = dir.target
    BY <1>4, StageNames DEF Undo
  <2> QED BY <1>1, <1>2, <2>1, <2>2, MoveOrderly DEF Publishing, Repairing, Unmade
<1>5. CASE Stage(c)
  <2>1. GotoWith(c, "check", call[c].saw) /\ "check" \in Steps \ {"idle"}
    BY <1>5 DEF Stage, Goto, Steps
  <2>2. /\ dir'.target = dir.target /\ dir'.stages = dir.stages \cup {c}
        /\ \A d \in past' : d \in past \/ d.target = dir.target
    BY <1>1, <1>5 DEF Stage, Names, Directory
  <2>3. At(c, "stage") /\ ~Made(c)
    BY <1>5 DEF Stage, At, Made, Unmade
  <2> QED BY <1>1, <1>2, <1>3, <2>1, <2>2, <2>3, MoveOrderly DEF Publishing, Repairing, Unmade
<1>6. CASE Check(c)
  <2>1. CASE Goto(c, "publish") /\ UNCHANGED files
    <3>1. GotoWith(c, "publish", call[c].saw) /\ "publish" \in Steps \ {"idle"}
      BY <2>1 DEF Goto, Steps
    <3> QED BY <1>1, <1>2, <1>3, <2>1, <3>1, MoveOrderly DEF Publishing, Repairing, Unmade, files
  <2> QED BY <1>4, <1>6, <2>1 DEF Check, files
<1>7. ASSUME NEW step \in {"unstage", "dirsync"}, Goto(c, step),
             NEW d, Names(d), d.target = c, d.stages \subseteq dir.stages,
             step = "dirsync" => c \notin d.stages
      PROVE  Orderly'
  <2>1. GotoWith(c, step, call[c].saw) /\ step \in Steps \ {"idle"}
    BY <1>7 DEF Goto, Steps
  <2>2. /\ dir'.target = c /\ dir'.stages \subseteq dir.stages
        /\ step = "dirsync" => c \notin dir'.stages
        /\ \A e \in past' : e \in past \/ e.target = c
    BY <1>7 DEF Names
  <2>3. Role(c) \in Changes /\ step \notin Unmade
    BY <1>2 DEF Changes, Unmade, Repairing
  <2> QED BY <1>1, <1>2, <2>1, <2>2, <2>3, MoveOrderly DEF Publishing, Repairing
<1>8. CASE Link(c)
  <2>1. [dir EXCEPT !.target = c].target = c /\ [dir EXCEPT !.target = c].stages = dir.stages
    BY <1>1 DEF Directory
  <2> QED BY <1>4, <1>7, <1>8, <2>1 DEF Link
<1>9. CASE Rename(c)
  BY <1>4, <1>7, <1>9 DEF Rename
<1> QED BY <1>5, <1>6, <1>8, <1>9

LEMMA PublishedOrderly ==
  ASSUME IInv, History, Orderly, NEW c \in Calls,
         Unstage(c) \/ Dirsync(c) \/ Verify(c) \/ Erase(c)
  PROVE  Orderly'
<1>1. /\ call[c].saw \in Calls \cup {None} /\ dir \in Directory
      /\ call[c].saw # None => Made(call[c].saw)
      /\ RoleFits(call[c])
      /\ ChangesAreLocked /\ call[c].locked /\ Active(c) => Relies(call[c], c, dir)
  BY Known DEF IInv, Durable
<1>2. Active(c) /\ call[c].at \in Publishing \cup {"erase"}
  BY DEF Unstage, Dirsync, Verify, Erase, At, Active, Ended, Publishing
<1>3. Role(c) \in {"read", "write", "create", "remove"}
  BY Known, RolesAssumption DEF Call, Role
<1>4. ASSUME NEW step \in {"dirsync", "verify", "done", "failed", "refused"},
             Goto(c, step), Role(c) # "read",
             step = "verify" => Role(c) # "remove",
             dir'.target = dir.target \/ (Role(c) = "remove" /\ dir'.target = None),
             dir'.stages \subseteq dir.stages,
             \A d \in past' : d \in past \/ d.target \in {dir.target, None},
             step = "verify" => At(c, "dirsync"),
             step = "dirsync" => c \notin dir'.stages \/ Role(c) = "remove"
      PROVE  Orderly'
  <2>1. GotoWith(c, step, call[c].saw) /\ step \in Steps \ {"idle"}
    BY <1>4 DEF Goto, Steps, Ended
  <2>2. step = "verify" => Role(c) \in {"write", "create"}
    BY <1>3, <1>4
  <2>3. ASSUME ChangesAreLocked, call[c].locked, step \in Publishing, Role(c) # "remove"
        PROVE  /\ dir'.target = c
               /\ step \in {"dirsync", "verify"} => c \notin dir'.stages
    <3>1. call[c].at \in Publishing
      BY <1>2, <2>3 DEF History, Opened, At
    <3>2. dir.target = c /\ (At(c, "dirsync") => c \notin dir.stages)
      BY <1>1, <1>2, <2>3, <3>1 DEF Relies, Role, At
    <3> QED BY <1>4, <2>3, <3>2 DEF Publishing
  <2>4. step \notin Unmade /\ step \notin {"stat", "stage", "check", "publish", "erase", "unstage"}
        /\ step \notin Repairing
    BY DEF Unmade, Repairing
  <2>5. dir'.target = dir.target \/ Role(c) \in Changes
    BY <1>4 DEF Changes
  <2>6. step \in {"dirsync", "verify"} => step \in Publishing
    BY DEF Publishing
  <2> QED BY <1>1, <1>2, <1>4, <2>1, <2>2, <2>3, <2>4, <2>5, <2>6, MoveOrderly DEF Repairing
<1>5. CASE Unstage(c)
  <2>1. Role(c) \in {"write", "create"}
    BY <1>1, <1>5 DEF Unstage, At, RoleFits, Role
  <2>2. /\ dir'.target = dir.target /\ dir'.stages = dir.stages \ {c}
        /\ \A d \in past' : d \in past \/ d.target = dir.target
    BY <1>5, StageNames DEF Unstage
  <2> QED BY <1>4, <1>5, <2>1, <2>2 DEF Unstage
<1>6. CASE Dirsync(c)
  <2>1. Role(c) # "read" /\ At(c, "dirsync")
    BY <1>1, <1>6 DEF Dirsync, At, RoleFits, Role
  <2>2. dir' = dir /\ \A d \in past' : d.target = dir.target
    BY <1>6 DEF Dirsync, Flush
  <2> QED BY <1>4, <1>6, <2>1, <2>2 DEF Dirsync
<1>7. CASE Verify(c)
  <2>1. Role(c) \in {"write", "create"}
    BY <1>1, <1>7 DEF Verify, At, RoleFits, Role
  <2>2. ASSUME NEW result \in {"failed", "refused"}, Undo(c, result) PROVE Orderly'
    <3>1. /\ dir'.target = dir.target /\ dir'.stages = dir.stages \ {c}
          /\ \A d \in past' : d \in past \/ d.target = dir.target
      BY <2>2, StageNames DEF Undo
    <3> QED BY <1>4, <2>1, <2>2, <3>1 DEF Undo
  <2>3. CASE Goto(c, "done") /\ UNCHANGED files
    BY <1>4, <2>1, <2>3 DEF files
  <2> QED BY <1>7, <2>2, <2>3 DEF Verify, files
<1>8. CASE Erase(c)
  <2>1. Role(c) = "remove"
    BY <1>8 DEF Erase, History, Opened
  <2>2. CASE Goto(c, "failed") /\ UNCHANGED <<dir, past, serial>>
    BY <1>4, <2>1, <2>2
  <2>3. CASE Names([dir EXCEPT !.target = None]) /\ Goto(c, "dirsync")
    <3>1. /\ dir'.target = None /\ dir'.stages = dir.stages
          /\ \A d \in past' : d \in past \/ d.target = None
      BY <1>1, <2>3 DEF Names, Directory
    <3> QED BY <1>4, <2>1, <2>3, <3>1
  <2> QED BY <1>8, <2>2, <2>3 DEF Erase
<1> QED BY <1>5, <1>6, <1>7, <1>8

LEMMA ListingOrderly ==
  ASSUME IInv, History, Orderly,
         UNCHANGED vars \/ \E c \in Calls : FindAbandoned(c) \/ Collect(c)
  PROVE  Orderly'
<1>1. call' = call
  BY DEF vars, FindAbandoned, Collect
<1>2. \E x : UNCHANGED files \/ Names([dir EXCEPT !.stages = dir.stages \ {x}])
  BY DEF vars, files, FindAbandoned, Collect
<1>3. /\ dir'.target = dir.target /\ dir'.stages \subseteq dir.stages
      /\ \A d \in past' : d \in past \/ d.target = dir.target
  BY <1>2, StageNames DEF files
<1>4. \A i : Made(i)' = Made(i)
  BY <1>1 DEF Made
<1>5. \A c \in Calls : Holding(c)' = Holding(c) /\ Role(c)' = Role(c) /\ At(c, "idle")' = At(c, "idle")
  BY <1>1 DEF Holding, Active, Role, At
<1>6. \A d \in past' : d.target # None => Made(d.target)'
  BY <1>3, <1>4 DEF Orderly, IInv
<1>7. \A c \in Calls : /\ (call[c].saw # None => Made(call[c].saw))'
                       /\ RoleFits(call[c])' /\ SingleNamed(call[c], dir)'
  <2> TAKE c \in Calls
  <2>1. SingleNamed(call[c], dir')
    BY <1>3 DEF Orderly, SingleNamed
  <2> QED BY <1>1, <1>4, <2>1 DEF Orderly
<1>8. ASSUME ChangesAreLocked', NEW c \in Calls, Holding(c)' PROVE Relies(call[c], c, dir)'
  <2>1. ChangesAreLocked /\ Holding(c)
    BY <1>1, <1>5, <1>8 DEF ChangesAreLocked
  <2>2. Relies(call[c], c, dir')
    BY <1>3, <2>1 DEF Orderly, Relies
  <2> QED BY <1>1, <2>2
<1> QED BY <1>5, <1>6, <1>7, <1>8 DEF Orderly

LEMMA PowerOrderly == ASSUME IInv, History, Orderly, PowerFails PROVE Orderly'
<1>1. dir' \in past /\ past' = {dir'} /\ call \in [Calls -> Call]
  BY DEF PowerFails, History
<1>2. \A c \in Calls :
        \/ call'[c] = call[c] /\ ~Active(c)
        \/ call'[c].at = "stopped" /\ call'[c].saw = None
  BY <1>1 DEF PowerFails, Call
<1>3. \A c \in Calls : ~Holding(c)'
  BY <1>2 DEF Holding, Active, Ended
<1>4. \A i \in Calls : Made(i) => Made(i)'
  BY <1>2 DEF Made, Unmade, Repairing
<1>5. \A d \in past' : d.target # None => Made(d.target)'
  BY <1>1, <1>4 DEF Orderly, IInv, Durable, Directory
<1>6. ASSUME NEW c \in Calls
      PROVE  /\ (call[c].saw # None => Made(call[c].saw))'
             /\ RoleFits(call[c])' /\ SingleNamed(call[c], dir)'
  <2>1. CASE call'[c] = call[c] /\ ~Active(c)
    <3>1. call[c].at \in Ended \cup {"idle"} /\ call[c].saw \in Calls \cup {None}
      BY <1>1, <2>1 DEF Active, Call
    <3>2. /\ call[c].saw # None => Made(call[c].saw)
          /\ RoleFits(call[c])
      BY DEF Orderly
    <3>3. SingleNamed(call[c], dir')
      BY <3>1 DEF SingleNamed, Ended
    <3> QED BY <1>4, <2>1, <3>1, <3>2, <3>3
  <2>2. CASE call'[c].at = "stopped" /\ call'[c].saw = None
    BY <2>2 DEF RoleFits, SingleNamed, Repairing
  <2> QED BY <1>2, <2>1, <2>2
<1> QED BY <1>3, <1>5, <1>6 DEF Orderly

LEMMA NextOrderly == IInv /\ History /\ Orderly /\ [Next]_vars => Orderly'
<1> SUFFICES ASSUME IInv, History, Orderly, [Next]_vars PROVE Orderly'
  OBVIOUS
<1>1. ASSUME NEW c \in Calls, NEW role \in Roles, NEW locked \in BOOLEAN,
             Open(c, role, locked) \/ Lstat(c, role, locked)
      PROVE  Orderly'
  BY <1>1, BeginsOrderly
<1>2. ASSUME NEW c \in Calls,
             \/ Stat(c) \/ Look(c) \/ Unlink(c) \/ Settle(c) \/ Relook(c) \/ Restat(c)
             \/ Stop(c)
      PROVE  Orderly'
  BY <1>2, LookingOrderly
<1>3. ASSUME NEW c \in Calls, Stage(c) \/ Check(c) \/ Link(c) \/ Rename(c)
      PROVE  Orderly'
  BY <1>3, WritingOrderly
<1>4. ASSUME NEW c \in Calls, Unstage(c) \/ Dirsync(c) \/ Verify(c) \/ Erase(c)
      PROVE  Orderly'
  BY <1>4, PublishedOrderly
<1> QED BY <1>1, <1>2, <1>3, <1>4, ListingOrderly, PowerOrderly DEF Next

LEMMA InitOfAll == Init => IInv /\ History /\ Orderly
BY InitIInv, InitHistory, InitOrderly

LEMMA NextOfAll == IInv /\ History /\ Orderly /\ [Next]_vars => (IInv /\ History /\ Orderly)'
BY NextKeeps, HistoryKeeps, NextOrderly

(* Who is refused looked at the record in this step, ...                     *)
LEMMA RefusedByOwnLook ==
  ASSUME History, [Next]_vars, NEW c \in Calls, IsRefused(c)
  PROVE  Stat(c) \/ Relook(c) \/ Restat(c) \/ Check(c) \/ Verify(c) \/ Erase(c)
<1>1. call \in [Calls -> Call] /\ call'[c] # call[c]
  BY DEF History, IsRefused
<1>2. ~UNCHANGED vars /\ ~\E d \in Calls : FindAbandoned(d) \/ Collect(d)
  BY <1>1 DEF vars, FindAbandoned, Collect
<1>3. ~PowerFails
  <2> SUFFICES ASSUME PowerFails PROVE FALSE
    OBVIOUS
  <2>1. \/ call'[c] = call[c]
        \/ call'[c] = [call[c] EXCEPT !.at = "stopped", !.saw = None]
    BY DEF PowerFails
  <2>2. [call[c] EXCEPT !.at = "stopped", !.saw = None].at = "stopped"
    BY <1>1 DEF Call
  <2> QED BY <1>1, <2>1, <2>2 DEF IsRefused
<1>4. ASSUME NEW d \in Calls, NEW role \in Roles, NEW locked \in BOOLEAN
      PROVE  ~(Open(d, role, locked) \/ Lstat(d, role, locked))
  <2>1. ASSUME NEW step \in {"absent", "stat", "stage", "look", "occupied"},
               Begins(d, role, locked, step)
        PROVE  FALSE
    BY <1>1, <2>1 DEF Begins, IsRefused
  <2> QED BY <2>1 DEF Open, Lstat, Sound
<1>5. ASSUME NEW d \in Calls, NEW step, NEW inode, GotoWith(d, step, inode)
      PROVE  d = c /\ step \in {"refused", "failed"}
  BY <1>1, <1>5 DEF GotoWith, IsRefused, Call
<1>6. ASSUME NEW d \in Calls,
             Look(d) \/ Unlink(d) \/ Settle(d) \/ Stage(d) \/ Unstage(d) \/ Dirsync(d) \/ Stop(d)
      PROVE  FALSE
  BY <1>5, <1>6 DEF Look, Unlink, Settle, Stage, Unstage, Dirsync, Stop, Goto
<1>7. ASSUME NEW d \in Calls, Link(d) \/ Rename(d) PROVE FALSE
  BY <1>5, <1>7 DEF Link, Rename, Undo, Goto
<1>8. ASSUME NEW d \in Calls,
             Stat(d) \/ Relook(d) \/ Restat(d) \/ Check(d) \/ Verify(d) \/ Erase(d)
      PROVE  d = c
  BY <1>5, <1>8 DEF Stat, Relook, Restat, Check, Verify, Erase, Undo, Goto
<1> QED BY <1>2, <1>3, <1>4, <1>6, <1>7, <1>8 DEF Next

(* ... and what it saw is not the record any more.                           *)
LEMMA RefusedOfAnother ==
  ASSUME IInv, History, Orderly, NEW c \in Calls, IsRefused(c), Role(c) # "remove",
         Stat(c) \/ Relook(c) \/ Restat(c) \/ Check(c) \/ Verify(c)
  PROVE  /\ Active(c) /\ ~Relies(call[c], c, dir)
         /\ Role(c) = "read" => dir.target # call[c].saw
<1>1. /\ call \in [Calls -> Call] /\ call[c].saw \in Calls \cup {None}
      /\ RoleFits(call[c]) /\ SingleNamed(call[c], dir)
  BY Known DEF History
<1>2. ASSUME NEW step, NEW inode, GotoWith(c, step, inode) PROVE step \in {"refused", "failed"}
  BY <1>1, <1>2 DEF GotoWith, IsRefused, Call
<1>3. CASE Stat(c)
  <2>1. Role(c) = "read"
    BY <1>3 DEF Stat, Opened, History
  <2>2. Links(call[c].saw) # 1 /\ Links(call[c].saw) # 2
    BY <1>2, <1>3, <2>1 DEF Stat, Goto
  <2>3. dir.target # call[c].saw
    BY <2>2 DEF Links
  <2> QED BY <1>3, <2>3 DEF Stat, At, Active, Ended, Relies
<1>4. CASE Relook(c)
  <2>1. ~(dir.target = call[c].saw /\ Links(call[c].saw) = 1)
    BY <1>2, <1>4 DEF Relook, Goto
  <2>2. call[c].saw \notin dir.stages
    BY <1>1, <1>4 DEF Relook, At, SingleNamed
  <2>3. dir.target # call[c].saw
    BY <2>1, <2>2 DEF Links
  <2> QED BY <1>4, <2>3 DEF Relook, At, Active, Ended, Relies, Repairing
<1>5. CASE Restat(c)
  <2>1. call[c].saw \notin dir.stages
    BY <1>1, <1>5 DEF Restat, At, SingleNamed
  <2>2. dir.target # call[c].saw
    <3> SUFFICES ASSUME dir.target = call[c].saw PROVE FALSE
      OBVIOUS
    <3>1. Links(call[c].saw) = 1
      BY <2>1 DEF Links
    <3>2. \E step \in {"done", "occupied", "stage"} : \E inode : GotoWith(c, step, inode)
      BY <1>5, <3>1 DEF Restat, Sound
    <3> QED BY <1>2, <3>2
  <2> QED BY <1>5, <2>2 DEF Restat, At, Active, Ended, Relies, Repairing
<1>6. CASE Check(c)
  <2>1. Role(c) # "read" /\ dir.target # call[c].saw
    BY <1>1, <1>2, <1>6 DEF Check, At, RoleFits, Role, Goto
  <2> QED BY <1>6, <2>1 DEF Check, At, Active, Ended, Relies
<1>7. CASE Verify(c)
  <2>1. Role(c) # "read"
    BY <1>1, <1>7 DEF Verify, At, RoleFits, Role
  <2>2. ~(dir.target # None /\ Links(dir.target) = 1)
    BY <1>2, <1>7 DEF Verify, Goto
  <2>3. dir.target # c \/ c \in dir.stages
    BY <2>2, NoneAssumption DEF Links
  <2> QED BY <1>7, <2>1, <2>3 DEF Verify, At, Active, Ended, Relies, Publishing, Role
<1> QED BY <1>3, <1>4, <1>5, <1>6, <1>7

(* Whatever stops and whatever runs without a lock meanwhile: a locked read  *)
(* or write is refused only where some change is made without the lock, and  *)
(* a read only refuses what is no longer the record (the second look of      *)
(* releasePublishedTemporary).                                               *)
THEOREM RefusalsAreJust == Spec => RefusalIsJust
<1> DEFINE Just == \A c \in Calls : IsRefused(c) =>
              /\ call'[c].locked /\ call'[c].role # "remove" => ~ChangesAreLocked'
              /\ call'[c].role = "read" => dir.target # call[c].saw
<1>1. IInv /\ History /\ Orderly /\ [Next]_vars => [Just]_vars
  <2> SUFFICES ASSUME IInv, History, Orderly, [Next]_vars, NEW c \in Calls, IsRefused(c)
               PROVE  /\ call'[c].locked /\ call'[c].role # "remove" => ~ChangesAreLocked'
                      /\ call'[c].role = "read" => dir.target # call[c].saw
    OBVIOUS
  <2>1. Stat(c) \/ Relook(c) \/ Restat(c) \/ Check(c) \/ Verify(c) \/ Erase(c)
    BY RefusedByOwnLook
  <2>2. \E step, inode : GotoWith(c, step, inode)
    BY <2>1 DEF Stat, Relook, Restat, Check, Verify, Erase, Undo, Goto
  <2>3. /\ call'[c].role = Role(c) /\ call'[c].locked = call[c].locked
        /\ \A d \in Calls : /\ call'[d].role = call[d].role
                            /\ call'[d].locked = call[d].locked
                            /\ d # c => call'[d].at = call[d].at
    BY <2>2 DEF GotoWith, History, Call, Role
  <2>4. CASE Role(c) = "remove"
    BY <2>3, <2>4
  <2>5. CASE Role(c) # "remove"
    <3>1. ~Erase(c)
      BY <2>5 DEF Erase, History, Opened
    <3>2. /\ Active(c) /\ ~Relies(call[c], c, dir)
          /\ Role(c) = "read" => dir.target # call[c].saw
      BY <2>1, <2>5, <3>1, RefusedOfAnother
    <3>3. ASSUME call[c].locked, ChangesAreLocked' PROVE FALSE
      <4>1. \A d \in Calls : At(d, "idle") \/ call'[d].at # "idle"
        BY <2>3 DEF At, IsRefused
      <4>2. ChangesAreLocked
        BY <2>3, <3>3, <4>1, LockedBefore
      <4> QED BY <3>2, <3>3, <4>2, Known
    <3> QED BY <2>3, <3>2, <3>3
  <2> QED BY <2>4, <2>5
<1>2. Spec => [][Just]_vars
  BY <1>1, InitOfAll, NextOfAll, PTL DEF Spec
<1> QED BY <1>2 DEF RefusalIsJust

=============================================================================
