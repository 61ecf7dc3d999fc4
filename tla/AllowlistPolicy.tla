--------------------------- MODULE AllowlistPolicy ---------------------------
(***************************************************************************)
(* The allowlist of one profile: the revisions its owner stages, the chain *)
(* of the owner's decisions about them (allowlist-policy-store.ts and      *)
(* allowlist-policy-command.ts), and the money operations that are         *)
(* admitted under the active revision (allowlist-active-policy.ts with     *)
(* direct-allowlist-gate.ts and gasless/asset-policy.ts).                  *)
(*                                                                         *)
(* Each read and each write of the store is one section under the          *)
(* profile's lock; the owner writes a policy file, or thinks about a       *)
(* screen, between two of them and outside the lock.  Revisions and        *)
(* entries are create-only files, so an entry's digest stands for the      *)
(* whole chain up to it and is named by its sequence number (0: none).     *)
(***************************************************************************)
EXTENDS Integers, Sequences

CONSTANTS
  Commands,      \* the owner's processes
  Ops,           \* money operations
  LaneOf,        \* LaneOf[o]: "direct", or "gasless", which keeps the lock
  OwnerOf,       \* OwnerOf[o]: the account o pays from
  Files,         \* policy files the owner may stage
  Families,      \* network families
  Accounts,      \* accounts the files name
  None,          \* a family that a file does not name
  Instants,      \* instants: no clock is kept, each call has any
  MaxRevisions,  \* bound: staged revisions
  MaxEntries     \* bound: decisions

ASSUME FilesAssumption ==
  \A f \in Files : /\ f.accounts \in [Families -> Accounts \cup {None}]
                   /\ f.expiresAt \in Int
ASSUME LaneOfAssumption == LaneOf \in [Ops -> {"direct", "gasless"}]
ASSUME OwnerAssumption == OwnerOf \in [Ops -> [family : Families, account : Accounts]]
ASSUME BoundsAssumption == MaxRevisions \in Nat /\ MaxEntries \in Nat /\ Instants \subseteq Int

VARIABLES
  records,   \* records[n]: revision n, with the revision its author saw
  entries,   \* entries[n]: the nth decision, with the head its owner saw
  run,       \* run[c]: what command c is in the middle of
  bound,     \* bound[o]: the activation o was prepared under, 0 for none
  held,      \* held[o]: o has its reservation
  busy       \* busy[o]: how far an approval of o has come

policyVars == <<records, entries, run, bound, held, busy>>

Idle == [at |-> "idle", status |-> "active", revision |-> 0, saw |-> 0]
Revision == [file : Files, over : Nat]
Entry == [status : {"active", "revoked"}, revision : Nat, shown : Nat]
Run == [at : {"idle", "author", "ask"}, status : {"active", "revoked"},
        revision : Nat, saw : Nat]

(* activeAllowlistPolicy: the chain's head when it is an activation.       *)
Active == IF entries = << >> \/ entries[Len(entries)].status = "revoked"
            THEN 0 ELSE entries[Len(entries)].revision

Expired(n, now) == now >= records[n].file.expiresAt
Account(n, family) == records[n].file.accounts[family]

(* The profile's lock is free: only an approval of the gasless lane keeps  *)
(* it from its reading of the policy to its reservation.                   *)
Free == \A o \in Ops : busy[o] = "confirmed" => LaneOf[o] # "gasless"

-----------------------------------------------------------------------------
(* Staging                                                                 *)

(* The owner reads the status and writes the next file.                    *)
Author(c) ==
  /\ Free /\ run[c] = Idle
  /\ run' = [run EXCEPT ![c] = [at |-> "author", status |-> "active",
                                revision |-> 0, saw |-> Len(records)]]
  /\ UNCHANGED <<records, entries, bound, held, busy>>

(* Mutant of Unbound: only the latest revision is compared.                *)
Unbound_Latest(file) ==
  \A n \in {Len(records)} \cap DOMAIN records, family \in Families :
    \/ Account(n, family) = None \/ file.accounts[family] = None
    \/ Account(n, family) = file.accounts[family]

(* A family's account is bound by the first revision that names it.        *)
Unbound(file) ==
  \A n \in DOMAIN records, family \in Families :
    \/ Account(n, family) = None \/ file.accounts[family] = None
    \/ Account(n, family) = file.accounts[family]

NewVersion(file) == \A n \in DOMAIN records : records[n].file.version # file.version

(* stage, prepare: writeRevision, if the latest revision is the expected.  *)
Stage(c, file) ==
  /\ Free /\ run[c].at = "author" /\ run[c].saw = Len(records)
  /\ Unbound(file) /\ NewVersion(file) /\ Len(records) < MaxRevisions
  /\ records' = Append(records, [file |-> file, over |-> run[c].saw])
  /\ run' = [run EXCEPT ![c] = Idle]
  /\ UNCHANGED <<entries, bound, held, busy>>

-----------------------------------------------------------------------------
(* Deciding                                                                *)

(* activate: a staged revision that is neither active nor expired.         *)
Activate(c, n, now) ==
  /\ Free /\ run[c] = Idle
  /\ n \in DOMAIN records /\ n # Active /\ ~Expired(n, now)
  /\ run' = [run EXCEPT ![c] = [at |-> "ask", status |-> "active",
                                revision |-> n, saw |-> Len(entries)]]
  /\ UNCHANGED <<records, entries, bound, held, busy>>

(* revoke: the active revision.                                            *)
Revoke(c) ==
  /\ Free /\ run[c] = Idle
  /\ Active # 0
  /\ run' = [run EXCEPT ![c] = [at |-> "ask", status |-> "revoked",
                                revision |-> Active, saw |-> Len(entries)]]
  /\ UNCHANGED <<records, entries, bound, held, busy>>

(* Mutant of AppendDecision: the head is not compared with the one shown.  *)
AppendDecision_AnyHead(c) ==
  /\ Free /\ run[c].at = "ask" /\ Len(entries) < MaxEntries
  /\ entries' = Append(entries, [status |-> run[c].status, shown |-> run[c].saw,
                                 revision |-> run[c].revision])
  /\ run' = [run EXCEPT ![c] = Idle]
  /\ UNCHANGED <<records, bound, held, busy>>

(* appendDecision, when the owner has approved: the head must be the one   *)
(* that the screen showed.                                                 *)
AppendDecision(c) ==
  /\ Free /\ run[c].at = "ask" /\ run[c].saw = Len(entries)
  /\ Len(entries) < MaxEntries
  /\ entries' = Append(entries, [status |-> run[c].status, shown |-> run[c].saw,
                                 revision |-> run[c].revision])
  /\ run' = [run EXCEPT ![c] = Idle]
  /\ UNCHANGED <<records, bound, held, busy>>

(* A refusal, by the owner or by a comparison above, or the process' end.  *)
GiveUp(c) ==
  /\ run[c] # Idle
  /\ run' = [run EXCEPT ![c] = Idle]
  /\ UNCHANGED <<records, entries, bound, held, busy>>

-----------------------------------------------------------------------------
(* Money operations                                                        *)

(* The active revision admits o at now: it names o's account.              *)
Admits(o, now) ==
  /\ Active # 0 /\ ~Expired(Active, now)
  /\ Account(Active, OwnerOf[o].family) = OwnerOf[o].account

(* admit, prepare: o is prepared, and bound to the head, an activation.    *)
Prepare(o, now) ==
  /\ Free /\ bound[o] = 0 /\ Admits(o, now)
  /\ bound' = [bound EXCEPT ![o] = Len(entries)]
  /\ UNCHANGED <<records, entries, run, held, busy>>

(* Mutant of Unchanged: the gasless lane, too, compares the revision only. *)
Unchanged_Revision(o) == Active = entries[bound[o]].revision

(* The policy that o was prepared under is still the active one.  Gasless  *)
(* compares the activation as well, so a policy that was revoked and       *)
(* activated again is another one; direct compares revision and digest.    *)
Unchanged(o) ==
  IF LaneOf[o] = "gasless" THEN Len(entries) = bound[o]
  ELSE Active = entries[bound[o]].revision

(* confirm, assert: an approval reads the policy before its reservation.   *)
Confirm(o, now) ==
  /\ Free /\ bound[o] # 0 /\ ~held[o] /\ busy[o] = "no"
  /\ Admits(o, now) /\ Unchanged(o)
  /\ busy' = [busy EXCEPT ![o] = "confirmed"]
  /\ UNCHANGED <<records, entries, run, bound, held>>

(* reserve: the ledger takes the hold under the caps of that revision.     *)
ReserveUnder(o) ==
  /\ busy[o] = "confirmed"
  /\ held' = [held EXCEPT ![o] = TRUE]
  /\ busy' = [busy EXCEPT ![o] = "no"]
  /\ UNCHANGED <<records, entries, run, bound>>

(* An approval ends before its reservation.                                *)
Stop(o) ==
  /\ busy[o] = "confirmed"
  /\ busy' = [busy EXCEPT ![o] = "no"]
  /\ UNCHANGED <<records, entries, run, bound, held>>

-----------------------------------------------------------------------------
PolicyInit ==
  /\ records = << >> /\ entries = << >>
  /\ run = [c \in Commands |-> Idle]
  /\ bound = [o \in Ops |-> 0]
  /\ held = [o \in Ops |-> FALSE]
  /\ busy = [o \in Ops |-> "no"]

PolicyNext ==
  \/ \E c \in Commands :
       \/ Author(c) \/ \E file \in Files : Stage(c, file)
       \/ \E n \in DOMAIN records, now \in Instants : Activate(c, n, now)
       \/ Revoke(c) \/ AppendDecision(c) \/ GiveUp(c)
  \/ \E o \in Ops :
       \/ \E now \in Instants : Prepare(o, now) \/ Confirm(o, now)
       \/ ReserveUnder(o) \/ Stop(o)

PolicySpec == PolicyInit /\ [][PolicyNext]_policyVars

-----------------------------------------------------------------------------
(* The store loads (load, validateChain): a decision names a staged        *)
(* revision, and an operation is bound to a decision that was made.        *)
PolicyTypeOK ==
  /\ records \in Seq(Revision) /\ entries \in Seq(Entry)
  /\ run \in [Commands -> Run]
  /\ bound \in [Ops -> Nat] /\ held \in [Ops -> BOOLEAN]
  /\ busy \in [Ops -> {"no", "confirmed"}]
  /\ \A n \in DOMAIN entries : entries[n].revision \in DOMAIN records
  /\ \A c \in Commands : run[c].at = "ask" => run[c].revision \in DOMAIN records
  /\ \A o \in Ops : bound[o] \in 0..Len(entries)

(* Two owners at two terminals overlook nothing of each other: no revision *)
(* is written by an author who had not seen the one before it, and every   *)
(* decision replaces exactly what its screen showed.  What is revoked is   *)
(* what was active, and what is activated was not (stage and               *)
(* expectedHeadDigest of appendDecision).                                  *)
ActiveAfter(n) == IF n = 0 \/ entries[n].status = "revoked" THEN 0 ELSE entries[n].revision
NothingIsOverlooked ==
  /\ \A n \in DOMAIN records : records[n].over = n - 1
  /\ \A n \in DOMAIN entries :
       (entries[n].status = "revoked") = (ActiveAfter(n - 1) = entries[n].revision)

(* Over all revisions, staged from whatever terminal, a family has one     *)
(* account: a revision that leaves the family out does not unbind it.      *)
FamilyHasOneAccount ==
  \A m, n \in DOMAIN records, family \in Families :
    Account(m, family) # None /\ Account(n, family) # None =>
      Account(m, family) = Account(n, family)

(* An operation takes its reservation only under the policy it was         *)
(* prepared under, which names the account it pays from.  The gasless lane *)
(* takes it while that very activation is the head of the chain, so no     *)
(* decision of the owner lies between prepare and reservation; the direct  *)
(* lane when the revision was active at the approval's last reading, and   *)
(* the owner may have revoked it since.                                    *)
HeldUnderOwnRevision ==
  [][\A o \in Ops : held'[o] /\ ~held[o] =>
       /\ bound'[o] = bound[o] /\ entries[bound[o]].status = "active"
       /\ Account(entries[bound[o]].revision, OwnerOf[o].family) = OwnerOf[o].account
       /\ LaneOf[o] = "gasless" => Len(entries) = bound[o]]_policyVars

=============================================================================
