-------------------------- MODULE AssetUsageLedger --------------------------
(***************************************************************************)
(* One bucket of the shared daily usage ledger (asset-usage-ledger.ts and  *)
(* asset-usage-ledger-record.ts): the reservations of one paying account,  *)
(* chain and asset, shared by every money rail.                            *)
(*                                                                         *)
(* Every mutating operation of the code runs start to end under the one    *)
(* bucket lock, so each is one atomic action here.  `rows` is the bucket   *)
(* directory: a file per idempotency key.  A call that the code refuses,   *)
(* or that replays a stored row, changes nothing and is a stuttering step. *)
(*                                                                         *)
(* There is no clock variable.  Callers read the wall clock before they    *)
(* wait for the lock and the wall clock itself may be set back, so the     *)
(* instant `now` of each call is any element of Times.                     *)
(***************************************************************************)
EXTENDS Integers, FiniteSets, Functions

CONSTANTS
  Keys,               \* idempotency keys (one possible row each)
  Lane,               \* Lane[k]: the namespace, hence the operations, of key k
  AllowlistPolicies,  \* policyDigests of allowlist registries
  ProfilePolicies,    \* policyDigests of profile x402 policies (no daily cap)
  PerTransfer,        \* PerTransfer[p]: per-transfer (per-request) cap
  DailyLimit,         \* DailyLimit[p]: daily cap of an allowlist policy
  ExpiresAt,          \* ExpiresAt[p]: first instant at which p is expired
  Amounts,            \* amounts a caller may ask to reserve
  MaxTime,            \* last instant of the model
  DayLength           \* instants per UTC day

Policies == AllowlistPolicies \cup ProfilePolicies
Times == 0 .. MaxTime
Lanes == {"direct", "bridge", "owner_cap", "permit2", "merchant_native",
          "metamask_native", "metamask_token"}

ASSUME LaneAssumption == Lane \in [Keys -> Lanes]
ASSUME AmountAssumption == Amounts \subseteq Nat \ {0}
ASSUME TimeAssumption == MaxTime \in Nat /\ DayLength \in Nat \ {0}
ASSUME CapAssumption ==
  /\ PerTransfer \in [Policies -> Nat]
  /\ DailyLimit \in [AllowlistPolicies -> Nat]
  /\ ExpiresAt \in [AllowlistPolicies -> Nat]
  /\ AllowlistPolicies \cap ProfilePolicies = {}

VARIABLE rows
vars == <<rows>>

Null == -1                     \* a null effectAt, an absent consumedAtomic
Stored == DOMAIN rows
Day(t) == t \div DayLength

States == {"reserved", "submitted", "unknown_finality", "finalized",
           "failed_before_effect", "released_unsubmitted",
           "failed_confirmed_revert"}
Terminal == {"finalized", "failed_before_effect", "released_unsubmitted",
             "failed_confirmed_revert"}
Open == States \ Terminal

(* actualFee: the row carries merchantNativeActualFee or                   *)
(* metamaskNativeActualFee, a proof that replaces the reserved amount.     *)
Row == [state : States, policy : Policies, amount : Nat,
        consumed : Nat \cup {Null}, actualFee : BOOLEAN,
        reservedAt : Times, updatedAt : Times, effectAt : Times \cup {Null}]

Init == rows = << >>

-----------------------------------------------------------------------------
(* Reading the bucket                                                      *)

Charge(r) == IF r.state = "failed_confirmed_revert" \/ r.actualFee
               THEN r.consumed ELSE r.amount

(* Mutant of Counted: only effects stamped on exactly this day count.      *)
Counted_SameDayOnly(r, now) ==
  /\ r.state \notin {"failed_before_effect", "released_unsubmitted"}
  /\ r.state = "failed_confirmed_revert" => r.consumed # Null
  /\ r.state \in {"finalized", "failed_confirmed_revert"} =>
       Day(r.effectAt) = Day(now)

(* The open holds of every day, and the spends whose effect is stamped on  *)
(* now's day or later (a stamp after the clock is never dropped).          *)
Counted(r, now) ==
  /\ r.state \notin {"failed_before_effect", "released_unsubmitted"}
  /\ r.state = "failed_confirmed_revert" => r.consumed # Null
  /\ r.state \in {"finalized", "failed_confirmed_revert"} =>
       Day(r.effectAt) >= Day(now)

Charges == [k \in Stored |-> Charge(rows[k])]
SumUsage(now) == SumFunctionOnSet(Charges, {k \in Stored : Counted(rows[k], now)})

(* Mutant of BucketStamp: the bare wall clock.                             *)
BucketStamp_WallClock(at, now) == at = now

(* at is the stamp of a write made at now: the newest of now and of the    *)
(* stamps already in the bucket.                                           *)
BucketStamp(at, now) ==
  /\ at \in {now} \cup {rows[k].updatedAt : k \in Stored}
  /\ now <= at
  /\ \A k \in Stored : rows[k].updatedAt <= at

(* evaluateAssetPolicy: expiry, per-transfer cap and daily cap.            *)
Admitted(p, a, usage, now) ==
  /\ now < ExpiresAt[p]
  /\ a <= PerTransfer[p]
  /\ usage + a <= DailyLimit[p]

AssertReplay(k, p, a) == rows[k].policy = p /\ rows[k].amount = a

(* Mutant of AssertTransition: an unknown send may be called a failure     *)
(* before any effect.                                                      *)
AssertTransition_UnknownFails(from, to) ==
  CASE from = "reserved" ->
         to \in {"submitted", "unknown_finality", "finalized",
                 "failed_before_effect", "released_unsubmitted"}
    [] from = "submitted" ->
         to \in {"unknown_finality", "finalized", "failed_confirmed_revert"}
    [] from = "unknown_finality" ->
         to \in {"finalized", "failed_confirmed_revert",
                 "failed_before_effect", "released_unsubmitted"}
    [] OTHER -> FALSE

AssertTransition(from, to) ==
  CASE from = "reserved" ->
         to \in {"submitted", "unknown_finality", "finalized",
                 "failed_before_effect", "released_unsubmitted"}
    [] from = "submitted" ->
         to \in {"unknown_finality", "finalized", "failed_confirmed_revert"}
    [] from = "unknown_finality" ->
         to \in {"finalized", "failed_confirmed_revert", "released_unsubmitted"}
    [] OTHER -> FALSE

-----------------------------------------------------------------------------
(* Writing the bucket                                                      *)

Write(k, r) ==
  rows' = [j \in Stored \cup {k} |-> IF j = k THEN r ELSE rows[j]]

Reserved(p, a, at) ==
  [state |-> "reserved", policy |-> p, amount |-> a, consumed |-> Null,
   actualFee |-> FALSE, reservedAt |-> at, updatedAt |-> at, effectAt |-> Null]

(* The stored row with a new state, stamp and effect time, ...             *)
Rewritten(r, s, at, effect) ==
  [r EXCEPT !.state = s, !.updatedAt = at, !.effectAt = effect]

(* ... with what the proof says was consumed, ...                          *)
Consumed(r, s, at, effect, amount) ==
  [Rewritten(r, s, at, effect) EXCEPT !.consumed = amount]

(* ... or finalized at the fee that its actual-fee proof states.           *)
ChargedFee(r, at, fee) ==
  [Consumed(r, "finalized", at, at, fee) EXCEPT !.actualFee = TRUE]

(* reserve, reserveMetaMaskNative: a new allowlisted hold.                 *)
Reserve(k, p, a, now, at) ==
  /\ Lane[k] # "owner_cap"
  /\ p \in AllowlistPolicies
  /\ k \notin Stored
  /\ BucketStamp(at, now)
  /\ Admitted(p, a, SumUsage(now), now)
  /\ Write(k, Reserved(p, a, at))

(* reserve with retryFailedBeforeEffect (Relay only): the released row is  *)
(* opened again, as a fresh hold against today's cap.                      *)
ReopenFailed(k, p, a, now, at) ==
  /\ Lane[k] = "bridge"
  /\ p \in AllowlistPolicies
  /\ k \in Stored
  /\ AssertReplay(k, p, a)
  /\ rows[k].state = "failed_before_effect"
  /\ BucketStamp(at, now)
  /\ Admitted(p, a, SumUsage(now), now)
  /\ Write(k, [Rewritten(rows[k], "reserved", at, Null) EXCEPT !.reservedAt = at])

(* reserveWithinOwnerCap: local x402, no daily cap of its own.             *)
ReserveWithinOwnerCap(k, p, a, now, at) ==
  /\ Lane[k] = "owner_cap"
  /\ p \in ProfilePolicies
  /\ a <= PerTransfer[p]
  /\ k \notin Stored
  /\ BucketStamp(at, now)
  /\ Write(k, Reserved(p, a, at))

(* Mutant of EffectStamp: the proven instant as the caller gave it.        *)
EffectStamp_Unclamped(r, proven, at) == IF proven = Null THEN at ELSE proven

(* A proven effect is stamped within [the hold's last write, this write].  *)
EffectStamp(r, proven, at) ==
  IF proven = Null \/ proven > at THEN at
  ELSE IF proven < r.updatedAt THEN r.updatedAt ELSE proven

(* transition.  A MetaMask hold settles by its own proof below and leaves  *)
(* through here only while exposed or as a failure before any effect.      *)
Transition(k, s, consumed, proven, now, at) ==
  /\ k \in Stored
  /\ Lane[k] \in {"metamask_native", "metamask_token"} =>
       s \in {"submitted", "unknown_finality", "failed_before_effect"}
  /\ consumed # Null =>
       s = "failed_confirmed_revert" /\ consumed <= rows[k].amount
  /\ proven # Null => s = "finalized"
  /\ AssertTransition(rows[k].state, s)
  /\ BucketStamp(at, now)
  /\ Write(k, IF s = "finalized"
                THEN Rewritten(rows[k], s, at, EffectStamp(rows[k], proven, at))
              ELSE IF consumed # Null THEN Consumed(rows[k], s, at, at, consumed)
              ELSE Rewritten(rows[k], s, at, Null))

(* releaseDirectReservedAfter: the owner's failure outcome is durable, then *)
(* the hold it left untouched is released.                                 *)
ReleaseDirectReservedAfter(k, now, at) ==
  /\ Lane[k] = "direct"
  /\ k \in Stored
  /\ rows[k].state = "reserved"
  /\ BucketStamp(at, now)
  /\ Write(k, Rewritten(rows[k], "failed_before_effect", at, Null))

(* Mutant of CancelUnsubmittedReservation: whatever state the row is in.   *)
CancelUnsubmittedReservation_AnyState(k, p, a, now, at) ==
  /\ Lane[k] = "permit2"
  /\ BucketStamp(at, now)
  /\ \/ /\ k \in Stored
        /\ AssertReplay(k, p, a)
        /\ Write(k, Rewritten(rows[k], "released_unsubmitted", at, Null))
     \/ /\ k \notin Stored
        /\ Write(k, Rewritten(Reserved(p, a, at), "released_unsubmitted", at, Null))

(* cancelUnsubmittedReservation: releases the hold, or leaves a released    *)
(* row behind for a reserve that has not arrived yet.                      *)
CancelUnsubmittedReservation(k, p, a, now, at) ==
  /\ Lane[k] = "permit2"
  /\ BucketStamp(at, now)
  /\ \/ /\ k \in Stored
        /\ AssertReplay(k, p, a)
        /\ rows[k].state = "reserved"
        /\ Write(k, Rewritten(rows[k], "released_unsubmitted", at, Null))
     \/ /\ k \notin Stored
        /\ Write(k, Rewritten(Reserved(p, a, at), "released_unsubmitted", at, Null))

(* settleMerchantNativeActualFee: the receipt's fee replaces the reserve.  *)
SettleMerchantNativeActualFee(k, fee, now, at) ==
  /\ Lane[k] = "merchant_native"
  /\ k \in Stored
  /\ rows[k].state \in {"submitted", "unknown_finality"}
  /\ fee <= rows[k].amount
  /\ BucketStamp(at, now)
  /\ Write(k, ChargedFee(rows[k], at, fee))

(* settleMetaMaskNativeActual: the native hold keeps the fee it cost; the  *)
(* token hold is spent, or charged nothing when the transfer reverted.     *)
SettleMetaMaskNativeActual(k, fee, transferAccepted, now, at) ==
  /\ k \in Stored
  /\ rows[k].state \in {"submitted", "unknown_finality"}
  /\ BucketStamp(at, now)
  /\ \/ /\ Lane[k] = "metamask_native"
        /\ fee \in 1 .. rows[k].amount
        /\ Write(k, ChargedFee(rows[k], at, fee))
     \/ /\ Lane[k] = "metamask_token"
        /\ transferAccepted
        /\ Write(k, Rewritten(rows[k], "finalized", at, at))
     \/ /\ Lane[k] = "metamask_token"
        /\ ~transferAccepted
        /\ Write(k, Consumed(rows[k], "failed_confirmed_revert", at, at, 0))

(* Each call runs with the stamp its clock gives.                          *)
Next ==
  \E k \in Keys, now \in Times, at \in Times :
    /\ BucketStamp(at, now)
    /\ \/ \E p \in Policies, a \in Amounts :
            \/ Reserve(k, p, a, now, at)
            \/ ReopenFailed(k, p, a, now, at)
            \/ ReserveWithinOwnerCap(k, p, a, now, at)
            \/ CancelUnsubmittedReservation(k, p, a, now, at)
       \/ \E s \in States \ {"reserved"} :
            \/ \E c \in Amounts \cup {0, Null} : Transition(k, s, c, Null, now, at)
            \/ \E proven \in Times : Transition(k, s, Null, proven, now, at)
       \/ ReleaseDirectReservedAfter(k, now, at)
       \/ \E fee \in Amounts \cup {0} :
            \/ SettleMerchantNativeActualFee(k, fee, now, at)
            \/ \E accepted \in BOOLEAN :
                 SettleMetaMaskNativeActual(k, fee, accepted, now, at)

Spec == Init /\ [][Next]_vars

-----------------------------------------------------------------------------
(* Properties                                                              *)

(* Every stored row has its type.                                          *)
TypeOK == Stored \subseteq Keys /\ rows \in [Stored -> Row]

(* validateBody: every write of seal passes the validation that every later *)
(* read applies.  A row that did not would make the bucket unreadable, and  *)
(* with it every reserve and every settlement of the account.              *)
RowValid(r) ==
  /\ r.reservedAt <= r.updatedAt
  /\ r.state = "finalized" =>
       r.reservedAt <= r.effectAt /\ r.effectAt <= r.updatedAt
  /\ r.state = "failed_confirmed_revert" =>
       r.effectAt = IF r.consumed = Null THEN Null ELSE r.updatedAt
  /\ r.state \notin {"finalized", "failed_confirmed_revert"} => r.effectAt = Null
  /\ r.consumed <= r.amount
  /\ r.consumed # Null => r.state = "failed_confirmed_revert" \/ r.actualFee
  /\ r.actualFee => r.state = "finalized" /\ r.consumed # Null
RowsValid == \A k \in Stored : RowValid(rows[k])

(* Rule R9 with the daily cap.  On every UTC day, the allowlisted money     *)
(* charged to that day together with the holds that may still be charged to *)
(* it is within the daily cap of the last of them to be admitted, however   *)
(* the clock moves, however late a spend is finalized and whatever else     *)
(* (policies, owner-capped x402) shares the bucket.                        *)
MayChargeDay(d) ==
  {k \in Stored :
     /\ rows[k].policy \in AllowlistPolicies
     /\ \/ rows[k].state \in Open /\ Day(rows[k].updatedAt) <= d
        \/ rows[k].effectAt # Null /\ Day(rows[k].effectAt) = d}
DailyCap ==
  \A d \in {Day(t) : t \in Times} :
    LET charged == MayChargeDay(d)
    IN  charged # {} =>
          \E k \in charged :
            SumFunctionOnSet(Charges, charged) <= DailyLimit[rows[k].policy]

(* bucketStamp: a write never carries a stamp older than one already in the *)
(* bucket, even when the clock has been set back between the two.          *)
StampsNeverGoBack ==
  [][\A k \in DOMAIN rows' : (k \in Stored => rows'[k] # rows[k]) =>
       \A j \in Stored : rows[j].updatedAt <= rows'[k].updatedAt]_vars

(* A settled or released hold is never rewritten or removed, except that    *)
(* Relay's retry opens a hold that failed before any effect.  In particular *)
(* a reserve that arrives after its cancellation finds it released.        *)
TerminalIsFinal ==
  [][\A k \in Stored : rows[k].state \in Terminal =>
       /\ k \in DOMAIN rows'
       /\ \/ rows'[k] = rows[k]
          \/ /\ rows[k].state = "failed_before_effect"
             /\ Lane[k] = "bridge"
             /\ rows'[k].state = "reserved"]_vars

(* Once a hold's money may have been sent the hold is never again treated   *)
(* as untouched: it is not reserved anew and not failed before its effect. *)
MaybeSent(k) == k \in Stored /\ rows[k].state \in {"submitted", "unknown_finality"}
ExposureIsRemembered ==
  \A k \in Keys :
    [](MaybeSent(k) =>
         [](/\ k \in Stored
            /\ rows[k].state \notin {"reserved", "failed_before_effect"}))

(* The bucket keeps every hold to the table that the money rails count on   *)
(* (assertTransition), whichever call settles it: from one reservation to   *)
(* one outcome.  Only Relay's holds, which may be opened again, and         *)
(* Permit2's, which may be released before they are taken, do not.          *)
Ordinary == {k \in Keys : Lane[k] \notin {"bridge", "permit2"}}
HoldState(k) == IF k \in Stored THEN rows[k].state ELSE "none"
Table == INSTANCE LedgerRows WITH
  Ops <- Ordinary, row <- [k \in Ordinary |-> HoldState(k)]
HoldsFollowTheTable == Table!Spec

=============================================================================
