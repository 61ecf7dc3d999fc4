--------------------------- MODULE OperationIndex ---------------------------
(***************************************************************************)
(* The operation index (operation-index/index.ts, store.ts, reconcile.ts): *)
(* a derived cache over the operation journals with one entry per          *)
(* operation, a copy of it in open/ while it holds claims, and a pointer   *)
(* per idempotency key.  It admits a new operation only while no other     *)
(* unresolved operation holds the same account.                            *)
(*                                                                         *)
(* Any number of processes use it.  Preparers are those that prepare an    *)
(* operation (one for each where the family's prepare holds a lock, more   *)
(* where it holds none); Collector stands for all others that meet an      *)
(* entry: status reads, settlements, the amortized collection, the owner's *)
(* release.  Only claimUnderLock and forget hold the leaf lock; their      *)
(* sections are atomic but for a crash between two files.  Walks, checks   *)
(* and inspections are lock-free: one read or one file write at a time.    *)
(***************************************************************************)
EXTENDS Naturals

CONSTANTS
  Ops,            \* operations
  Keys,           \* idempotency hashes
  Requests,       \* each says what account and key every operation asks for
  Preparers,      \* processes that prepare an operation
  Prepares,       \* Prepares[p]: the operation p prepares
  Collector,      \* the process of everyone who only collects
  MaxAdmissions   \* bound: MaxAdmissions[o] admissions of o

ASSUME ProcessAssumption ==
  /\ Prepares \in [Preparers -> Ops]
  /\ Collector \notin Preparers \cup Ops
ASSUME RequestAssumption ==
  \A w \in Requests : DOMAIN w = Ops /\ \A o \in Ops : w[o].key \in Keys
ASSUME AdmissionsAssumption == MaxAdmissions \in [Ops -> Nat]

VARIABLES
  wanted,      \* wanted[o]: account (its claim) and key; never changes
  rec,         \* rec[o]: the journal record, the only source of truth
  entry,       \* entry[o]: its file in entries/
  open,        \* open[o]: its file in open/
  pointer,     \* pointer[k]: the operations bound to key k
  admissions,  \* admissions[o]: how often o was admitted
  lapsed,      \* lapsed[o]: newest admission of o older than the lease
  cutShort,    \* admissions that lapsed or were released while still in use
  at           \* at[p]: where process p is

records == <<wanted, rec, admissions, lapsed, cutShort>>
index == <<entry, open, pointer>>
vars == <<records, index, at>>

Procs == Preparers \cup {Collector}
Key(o) == wanted[o].key
Colliding(o) == {q \in Ops \ {o} : wanted[q].account = wanted[o].account}

(* An index file.  no stands for admittedAt, which tells one admission of  *)
(* an operation from the next; it is 0 unless the state is "admitted".     *)
Absent == [state |-> "none", no |-> 0]
Admission(n) == [state |-> "admitted", no |-> n]

(* fromRecord: what the record yields now.                                 *)
Derived(o) ==
  [state |-> IF rec[o] = "open" THEN "active" ELSE "terminal", no |-> 0]

Lapsed(o, e) == e.no <= lapsed[o]

-----------------------------------------------------------------------------
(* Processes.                                                              *)

(* step: the next thing p does; todo: the operations of the loop it is in; *)
(* seen: the copies it read of their entries; of, new: the operation and   *)
(* entry it writes; then: where it goes after that; clear: the operations  *)
(* its check found harmless; again: it is in the second attempt.           *)
Idle == [step |-> "idle", todo |-> {}, seen |-> [o \in Ops |-> Absent],
         of |-> Collector, new |-> Absent, then |-> "idle", clear |-> {},
         again |-> FALSE]

Become(p, s) == at' = [at EXCEPT ![p] = s]
Stop(p) == Become(p, Idle)

(* p is done with what it was doing to operation q.                        *)
Done(p, q) ==
  LET s == [at[p] EXCEPT !.todo = @ \ {q}, !.seen[q] = Absent,
                         !.of = Collector, !.new = Absent, !.then = "idle"]
  IN CASE at[p].then = "walk" -> [s EXCEPT !.step = "walk"]
       [] at[p].then = "check" ->
            [s EXCEPT !.step = "check", !.clear = @ \cup {q}]
       [] OTHER -> Idle

(* reconciler.write of e: pointer first, then open/, then entries/.  The   *)
(* pointer's merge needs no step of its own: it only adds q, for good.     *)
Writing(p, q, e, then) ==
  /\ pointer' = [pointer EXCEPT ![Key(q)] = @ \cup {q}]
  /\ Become(p, [at[p] EXCEPT !.step = "put_open", !.of = q, !.new = e,
                             !.then = then])
  /\ UNCHANGED <<records, entry, open>>

(* Mutant of PutOpen: the copy in open/ is only brought up to date.        *)
PutOpen_IfThere(p) ==
  LET q == at[p].of IN
  /\ at[p].step = "put_open"
  /\ open' = [open EXCEPT
                ![q] = IF at[p].new.state = "terminal" \/ @ = Absent
                       THEN Absent ELSE at[p].new]
  /\ Become(p, [at[p] EXCEPT !.step = "put_entry"])
  /\ UNCHANGED <<records, entry, pointer>>

(* Only an entry that holds claims is in open/.                            *)
PutOpen(p) ==
  LET q == at[p].of IN
  /\ at[p].step = "put_open"
  /\ open' = [open EXCEPT
                ![q] = IF at[p].new.state = "terminal" THEN Absent ELSE at[p].new]
  /\ Become(p, [at[p] EXCEPT !.step = "put_entry"])
  /\ UNCHANGED <<records, entry, pointer>>

PutEntry(p) ==
  LET q == at[p].of IN
  /\ at[p].step = "put_entry"
  /\ entry' = [entry EXCEPT ![q] = at[p].new]
  /\ Become(p, Done(p, q))
  /\ UNCHANGED <<records, open, pointer>>

(* forgetLocked: three files; a crash may keep the last ones.              *)
Drop(p, q, goOn) ==
  \E files \in 1 .. 3 :
    /\ open' = [open EXCEPT ![q] = Absent]
    /\ entry' = IF files >= 2 THEN [entry EXCEPT ![q] = Absent] ELSE entry
    /\ pointer' = IF files = 3 /\ pointer[Key(q)] = {q}
                    THEN [pointer EXCEPT ![Key(q)] = {}] ELSE pointer
    /\ Become(p, IF files = 3 THEN goOn ELSE Idle)

(* Mutant of Forget: whatever the entry is by now.                         *)
Forget_Anything(p) ==
  /\ at[p].step = "forget"
  /\ Drop(p, at[p].of, Done(p, at[p].of))
  /\ UNCHANGED records

(* forget: drops the entry unless it changed since p read it.              *)
Forget(p) ==
  LET q == at[p].of IN
  /\ at[p].step = "forget"
  /\ \/ entry[q] = at[p].seen[q] /\ entry[q] # Absent
        /\ Drop(p, q, Done(p, q))
     \/ entry[q] # at[p].seen[q]
        /\ Become(p, Done(p, q))
        /\ UNCHANGED index
  /\ UNCHANGED records

(* A prepare body runs on an admission of o.                               *)
InUse(o) ==
  \E p \in Preparers : Prepares[p] = o /\ at[p].step \in {"work", "after"}

-----------------------------------------------------------------------------
(* inspect: an entry p read before is verified against its record now.     *)
InspectRecordless(p, q) ==
  /\ at[p].step = "check"
  /\ q \in at[p].todo
  /\ rec[q] = "none"
  /\ IF at[p].seen[q].state = "admitted" /\ ~Lapsed(q, at[p].seen[q])
     THEN Stop(p)
     ELSE Become(p, [at[p] EXCEPT !.step = "forget", !.of = q,
                                  !.then = IF p = Collector THEN "idle" ELSE "check"])
  /\ UNCHANGED <<records, index>>

(* An unresolved record blocks the admission that met it; its admitted     *)
(* entry becomes the one the record yields.                                *)
InspectOpen(p, q) ==
  /\ at[p].step = "check"
  /\ q \in at[p].todo
  /\ rec[q] = "open"
  /\ IF at[p].seen[q].state = "active"
     THEN Stop(p) /\ UNCHANGED <<records, index>>
     ELSE Writing(p, q, Derived(q), "idle")

InspectTerminal(p, q) ==
  /\ at[p].step = "check"
  /\ q \in at[p].todo
  /\ rec[q] = "terminal"
  /\ Writing(p, q, Derived(q), IF p = Collector THEN "idle" ELSE "check")

(* refresh, settle and the amortized collection of others' checks.         *)
Collect(q) ==
  /\ at[Collector].step = "idle"
  /\ \E e \in {entry[q], open[q]} :
       /\ e.state \in {"admitted", "active"}
       /\ Become(Collector, [Idle EXCEPT !.step = "check", !.todo = {q},
                                         !.seen[q] = e])
  /\ UNCHANGED <<records, index>>

(* releaseByOwner of an orphaned admission: read, then the owner consents. *)
OwnerReleases(q) ==
  /\ at[Collector].step = "idle"
  /\ entry[q].state = "admitted" /\ rec[q] = "none"
  /\ Become(Collector, [Idle EXCEPT !.step = "forget", !.of = q,
                                    !.seen[q] = entry[q]])
  /\ cutShort' = IF InUse(q) THEN cutShort \cup {q} ELSE cutShort
  /\ UNCHANGED <<wanted, rec, admissions, lapsed, index>>

-----------------------------------------------------------------------------
(* admit, in process p for its operation.                                  *)

(* reconcile lists entries/ first ...                                      *)
ListEntries(p) ==
  LET o == Prepares[p] IN
  /\ at[p].step = "idle"
  /\ admissions[o] < MaxAdmissions[o]
  /\ Become(p, [Idle EXCEPT !.step = "names",
                            !.todo = {q \in Ops : entry[q] = Absent}])
  /\ UNCHANGED <<records, index>>

(* ... and then the records.                                               *)
ListRecords(p) ==
  /\ at[p].step = "names"
  /\ Become(p, [at[p] EXCEPT !.step = "walk",
                             !.todo = {q \in @ : rec[q] # "none"}])
  /\ UNCHANGED <<records, index>>

Walk(p, q) ==
  /\ at[p].step = "walk"
  /\ q \in at[p].todo
  /\ Writing(p, q, Derived(q), "walk")

(* resolvePrepare finds nothing of the same key, or an admission of o that *)
(* left no record; anything else is a conflict, or a replay.               *)
Resolve(p) ==
  LET o == Prepares[p]
      bound == {q \in pointer[Key(o)] : entry[q] # Absent} IN
  /\ at[p].step = "walk" /\ at[p].todo = {}
  /\ IF /\ bound \subseteq {o}
        /\ \A q \in pointer[Key(o)] : pointer[Key(o)] = {q}
        /\ bound = {} => entry[o] = Absent
        /\ bound = {o} => entry[o].state = "admitted" /\ rec[o] = "none"
     THEN Become(p, [Idle EXCEPT !.step = "list"])
     ELSE Stop(p)
  /\ UNCHANGED <<records, index>>

(* check reads the open entries of its account, then inspects each.        *)
ListOpen(p) ==
  LET o == Prepares[p]
      held == {q \in Colliding(o) : open[q] # Absent} IN
  /\ at[p].step = "list"
  /\ Become(p, [at[p] EXCEPT !.step = "check", !.todo = held, !.clear = {},
                 !.seen = [q \in Ops |-> IF q \in held THEN open[q] ELSE Absent]])
  /\ UNCHANGED <<records, index>>

(* Mutant of Grown: the check is not repeated under the lock.              *)
Grown_NotAsked(p) == FALSE

Grown(p) ==
  LET o == Prepares[p] IN
  ~({q \in Colliding(o) : open[q] # Absent} \subseteq at[p].clear)

(* Mutant of Bindable: whatever the pointer says.                          *)
Bindable_AnyPointer(p) ==
  LET o == Prepares[p] IN
  entry[o].state \in {"none", "admitted"}

Bindable(p) ==
  LET o == Prepares[p] IN
  /\ entry[o].state \in {"none", "admitted"}
  /\ pointer[Key(o)] \subseteq {o}

(* claimUnderLock found an operation it had not verified: one more attempt.*)
ClaimAgain(p) ==
  /\ at[p].step = "check" /\ at[p].todo = {}
  /\ Grown(p)
  /\ IF at[p].again THEN Stop(p)
     ELSE Become(p, [Idle EXCEPT !.step = "list", !.again = TRUE])
  /\ UNCHANGED <<records, index>>

ClaimConflict(p) ==
  /\ at[p].step = "check" /\ at[p].todo = {}
  /\ ~Grown(p) /\ ~Bindable(p)
  /\ Stop(p)
  /\ UNCHANGED <<records, index>>

(* The write of claimUnderLock: three files; a crash may lose the last.    *)
Claim(p) ==
  LET o == Prepares[p]
      e == Admission(admissions[o] + 1) IN
  /\ at[p].step = "check" /\ at[p].todo = {}
  /\ ~Grown(p) /\ Bindable(p)
  /\ \E files \in 1 .. 3 :
       /\ pointer' = [pointer EXCEPT ![Key(o)] = {o}]
       /\ open' = IF files >= 2 THEN [open EXCEPT ![o] = e] ELSE open
       /\ entry' = IF files = 3 THEN [entry EXCEPT ![o] = e] ELSE entry
       /\ Become(p, IF files = 3 THEN [Idle EXCEPT !.step = "work"] ELSE Idle)
  /\ admissions' = [admissions EXCEPT ![o] = @ + 1]
  /\ UNCHANGED <<wanted, rec, lapsed, cutShort>>

(* The family's prepare body writes the record (create-only), or throws    *)
(* before or after that.                                                   *)
Work(p) ==
  LET o == Prepares[p] IN
  /\ at[p].step = "work"
  /\ \/ /\ rec[o] = "none"
        /\ rec' = [rec EXCEPT ![o] = "open"]
        /\ at' \in {[at EXCEPT ![p].step = "after"], [at EXCEPT ![p] = Idle]}
     \/ /\ UNCHANGED rec
        /\ Become(p, [at[p] EXCEPT !.step = "after"])
  /\ UNCHANGED <<wanted, admissions, lapsed, cutShort, index>>

(* dropIfRecordless; otherwise the entry follows the record.               *)
After(p) ==
  LET o == Prepares[p] IN
  /\ at[p].step = "after"
  /\ IF entry[o].state = "admitted" /\ rec[o] = "open"
     THEN Writing(p, o, Derived(o), "idle")
     ELSE /\ Become(p, IF rec[o] = "none" /\ entry[o].state = "admitted"
                       THEN [Idle EXCEPT !.step = "forget", !.of = o,
                                         !.seen[o] = entry[o]]
                       ELSE Idle)
          /\ UNCHANGED <<records, index>>

-----------------------------------------------------------------------------
(* Around the index.                                                       *)

(* A later command of the operation ends it.                               *)
Close(o) ==
  /\ rec[o] = "open"
  /\ \A p \in Preparers : Prepares[p] = o => at[p].step = "idle"
  /\ rec' = [rec EXCEPT ![o] = "terminal"]
  /\ UNCHANGED <<wanted, admissions, lapsed, cutShort, index, at>>

(* ADMISSION_LEASE_MS passes; the prepare may even be still running.       *)
Lapse(o) ==
  /\ lapsed[o] < admissions[o]
  /\ lapsed' = [lapsed EXCEPT ![o] = admissions[o]]
  /\ cutShort' = IF InUse(o) THEN cutShort \cup {o} ELSE cutShort
  /\ UNCHANGED <<wanted, rec, admissions, index, at>>

Crash(p) ==
  /\ at[p].step # "idle"
  /\ Stop(p)
  /\ UNCHANGED <<records, index>>

(* Records an earlier release left have no entry yet; it kept its own      *)
(* operations apart.                                                       *)
Init ==
  /\ wanted \in Requests
  /\ rec \in [Ops -> {"none", "open", "terminal"}]
  /\ \A o, q \in Ops : o # q =>
       /\ q \in Colliding(o) => "open" \notin {rec[o]} \cap {rec[q]}
       /\ Key(o) = Key(q) => "none" \in {rec[o], rec[q]}
  /\ entry = [o \in Ops |-> Absent]
  /\ open = [o \in Ops |-> Absent]
  /\ pointer = [k \in Keys |-> {}]
  /\ admissions = [o \in Ops |-> 0]
  /\ lapsed = [o \in Ops |-> 0]
  /\ cutShort = {}
  /\ at = [p \in Procs |-> Idle]

Admit(p) ==
  \/ ListEntries(p) \/ ListRecords(p) \/ Resolve(p) \/ ListOpen(p)
  \/ ClaimAgain(p) \/ ClaimConflict(p) \/ Claim(p) \/ Work(p) \/ After(p)
  \/ \E q \in Ops : Walk(p, q)

Next ==
  \/ \E p \in Preparers : Admit(p)
  \/ \E o \in Ops : Collect(o) \/ OwnerReleases(o) \/ Close(o) \/ Lapse(o)
  \/ \E p \in Procs :
       \/ PutOpen(p) \/ PutEntry(p) \/ Forget(p)
       \/ \E q \in Ops : \/ InspectRecordless(p, q) \/ InspectOpen(p, q)
                         \/ InspectTerminal(p, q)
       \/ Crash(p)

Spec == Init /\ [][Next]_vars

-----------------------------------------------------------------------------
(* Properties.                                                             *)

(* Every variable keeps its type, and an index file carries an admittedAt  *)
(* exactly when it is an admission (validateIndexEntry).                   *)
Entries == {Absent} \cup {Admission(n) : n \in UNION {1 .. MaxAdmissions[o] : o \in Ops}}
             \cup {[state |-> s, no |-> 0] : s \in {"active", "terminal"}}
TypeOK ==
  /\ wanted \in Requests
  /\ rec \in [Ops -> {"none", "open", "terminal"}]
  /\ entry \in [Ops -> Entries]
  /\ open \in [Ops -> Entries]
  /\ pointer \in [Keys -> SUBSET Ops]
  /\ \A o \in Ops : /\ admissions[o] \in 0 .. MaxAdmissions[o]
                     /\ lapsed[o] \in 0 .. admissions[o]
  /\ cutShort \in SUBSET Ops

(* The README's rule that an operation that is not terminal blocks new     *)
(* operations on its account, as far as claimUnderLock keeps it: two       *)
(* records of one account are open together only if one of them was        *)
(* admitted again after its first admission was left without a record, or  *)
(* lost its admission while its prepare was still running.                 *)
OpenTogether(o, q) == q \in Colliding(o) /\ rec[o] = "open" /\ rec[q] = "open"
ExclusiveUnlessReadmitted ==
  \A o, q \in Ops : OpenTogether(o, q) =>
    \E r \in {o, q} : admissions[r] > 1 \/ r \in cutShort

(* An idempotency key never names two operations with a record, whatever   *)
(* crashed between the pointer and the record (resolvePrepare, admit).     *)
KeyBoundOnce ==
  \A o, q \in Ops :
    o # q /\ Key(o) = Key(q) /\ rec[o] # "none" /\ rec[q] # "none"
      => {o, q} \cap cutShort # {}

(* An operation holds its claim for as long as its prepare body runs: no   *)
(* process that met an older admission of it, or that failed to prepare    *)
(* it, drops the one in use (forget, dropIfRecordless).                    *)
ClaimIsHeld ==
  \A p \in Preparers : LET o == Prepares[p] IN
    at[p].step = "work" /\ o \notin cutShort =>
      entry[o] # Absent /\ open[o] # Absent

(* "Presence in entries/ means fully indexed": the walk skips what has an  *)
(* entry, so an unresolved operation with an entry is in open/, where the  *)
(* checks of others look (write, claimUnderLock, forgetLocked).            *)
OpenRecordIsListed ==
  \A o \in Ops : rec[o] = "open" /\ entry[o] # Absent =>
    open[o] # Absent \/ o \in cutShort

=============================================================================
