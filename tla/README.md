# Agent Payment Node: a verification development

APN is a local-first payment runtime: a command line tool and an MCP server over
one secure directory. There is no daemon. Every command is a process of its own
that reads the directory, does one thing and ends; several may run at a time.
Money can leave by many routes ("rails" and "lanes": EVM transfers, x402
payments, provider wallets, Solana and TRON, gasless relays, bridges, swaps),
and all of them are built in the same way:

1. **prepare** freezes what will be paid into a durable operation record, under
   an idempotency key, after the operation index has admitted it;
2. **approve** asks the owner in the foreground and reserves the amount in the
   shared daily usage ledger;
3. a **durable marker** is written before the signature, and another before the
   bytes leave;
4. the bytes are **sent once**; an answer that is missing or ambiguous is
   resolved by observing the chain, never by paying again;
5. the operation ends by **proof** (receipt, finalized nonce, expiry), or the
   owner **abandons** it, and the ledger follows the operation.

What must be right is therefore not one algorithm but the relation between four
things that no transaction spans: the operation's record, the ledger, the
signed bytes, and the chain, across stops between any two writes and commands
that meet each other's half-finished work. The modules here are about that.

Paths below are relative to `src/src/` unless they start with `src/`.

## 1. Inventory

| Component | State it keeps | Operations | What makes it correct | Here |
|---|---|---|---|---|
| Shared usage ledger (`asset-usage-ledger*.ts`, `asset-policy-registry.ts`) | one directory per paying account, chain and asset, one row per idempotency key | reserve, reopen, transition, release, cancel, settle at the actual fee | daily cap; rows every later read accepts; a hold that may be spent is never given back | `AssetUsageLedger` |
| Local EVM direct transfer (`evm-transfer-prepare.ts`, `transfer-service*.ts`, `direct-public-effect.ts`, `evm-direct-submission.ts`, `direct-transfer-settle.ts`, `evm-finalized-proof.ts`, `evm-transfer-evidence.ts`) | operation record, public-effect journal, dispatch fence, encrypted custody | prepare, approve, resume, observe-only resume, settle as a blocker, abandon, retire | sent at most one payment; outcome is what the chain shows; the ledger agrees with it; it ends | `DirectTransfer` |
| Ledger follow (`direct-allowlist-gate.ts`, `evm-direct-allowlist.ts`) | none of its own | reserve, follow | the ledger can always be brought to the record's target | `DirectTransfer` |
| Operation index (`operation-index/`) | `entries/`, `open/`, idempotency pointers, all derived from the journals | admit, walk, inspect, forget, refresh, release by owner | one unresolved operation per account; one operation per key; an index that lags is repaired, never trusted | `OperationIndex` |
| Secure state store (`secure-state-store.ts`, `macos-advisory-lock.ts`, `atomic-write-temporaries.ts`) | the directory itself, lock files | atomic write, create-only write, read, remove, listing, `withLocks` | what is reported survives; a record is whole or absent; a stop leaves nothing a later call cannot repair | `StateFile` |
| Allowlist policies (`allowlist-policy-*.ts`, `allowlist-active-policy.ts`) | staged revisions, the chain of the owner's decisions | stage, activate, revoke, admit, reserve | no decision overlooks another; a payment is judged by the policy it was prepared under or refused | `AllowlistPolicy` |
| Operation service and auto-settle (`operation-service.ts`, `operation-auto-settle.ts`) | none | settle the blocker of a refused prepare once and run the prepare again | only a blocker the index confirms is settled; the retry answers for itself | its two halves, in `DirectTransfer` and `OperationIndex` |
| x402 from a local wallet (`x402-*.ts`) | authorization, paid-attempt markers, result, receipt | prepare, approve, resume, wait, abandon | a served request is not paid twice; the receipt is the outcome; it ends | `X402Payment` |
| x402 Permit2, merchant and Solana lanes | own journals | the same life cycle | the same | ledger side only |
| Provider wallets (`provider-direct-*.ts`, `awal-direct-adapter.ts`, `metamask-*-direct*.ts`) | record, receipt, sealed effect of the delegated lane | prepare, approve, resume, recover the provider's request, abandon | an invocation is never repeated; one request belongs to one transfer | `ProviderTransfer` |
| Rail operations (`rail-operation-*.ts`, `solana/`, `tron/`, `operation-abandon-service.ts`) | record, prepare and approval claims, sealed effect | prepare, approve, resume, abandon, concurrently | one submission; evidence for the record it was read for; it ends | `RailOperation` |
| Gasless lane (`gasless/`, `operation-abandon-gasless.ts`) | record with two effects, sealed material, ledger lease | prepare, approve, resume, observe elsewhere, approve-sealed, abandon | each effect is signed and let out once, also under fresh consent; it ends | `GaslessTransfer` |
| MetaMask lanes, bridges, swaps | one journal each | the pattern above, in two or more steps | the pattern above; destination proofs | ledger side of MetaMask fees and of Relay's reopened holds |
| Allowance revokes, portfolio | a journal; nothing | a revoke has the direct transfer's life cycle | as above | no |
| RPC ports, commands, MCP, consent, custody encryption, native signer | none, or keys | input and output, parsing, prompts, cryptography | outside these models | as choices of the environment |

How they interact: a lane's prepare runs as the body of `OperationIndex.admit`
while its family's lock is held (two families hold none, see section 5), reads
the active revision of `AllowlistPolicy` and freezes it; its approval reads the
policy again and calls the ledger under the bucket's lock; every later
transition writes the record first, through `StateFile`'s protocol, and lets the
ledger follow; the index derives its entries from the journals, whoever meets
them next. `HeldPayment` is what every rail owes the ledger, whatever its own
steps are; four rails are shown to implement it. `LedgerRows` is what the ledger
owes them: the same four are shown to ask it for nothing else, and the ledger to
do nothing else with their holds.

What is hard to test, line by line, is the `hazards` list of `PROJECT.json`.
The groups are: stops between two durable writes; network answers that are late,
lost, pruned or contradictory; a clock that goes back; two commands that share
an operation, an account or a key; what is read without a lock and used later;
and work that must end although nobody but the owner's next command drives it.

## 2. Modules

| Module | What it is |
|---|---|
| `HeldPayment` | the abstract promise of a rail to the ledger: hold, then pay; charge only what was paid; give back only what never pays |
| `LedgerRows` | the abstract contract of the ledger's rows: one hold per operation, moved only along the table of `assertTransition` |
| `AssetUsageLedger` | one bucket of the ledger; every call is one action, because the code runs each under the bucket's lock |
| `DirectTransfer` | the EVM direct transfer with its stops, its network and its ledger rows; implements `HeldPayment` |
| `OperationIndex` | the index files, the prepares and collectors that use them concurrently, and the records they are derived from |
| `X402Payment` | a purchase with an EIP-3009 authorization, its merchant and its chain; implements `HeldPayment` |
| `ProviderTransfer` | a transfer that a wallet provider sends, on three lanes, with the provider's requests |
| `RailOperation` | a Solana or TRON transfer and the processes at work on it at the same time; implements `HeldPayment` |
| `GaslessTransfer` | a gasless transfer with its two sealed effects; implements `HeldPayment` |
| `StateFile` | one file of the state root at the grain of system calls, with stops and losses of power |
| `AllowlistPolicy` | revisions, the owner's decisions and the lanes that are admitted under them |
| `AllowanceProofs` | theorems about `AssetUsageLedger` and `AllowlistPolicy`, which together bound what an operation may spend, section 4 |
| `OperationIndexProofs`, `DirectTransferProofs`, `X402PaymentProofs`, `ProviderTransferProofs`, `RailOperationProofs`, `GaslessTransferProofs`, `StateFileProofs` | theorems about the module of that name, section 4 |
| `MC...` | constants of the small instances, and their symmetries |

### AssetUsageLedger

`rows` is the bucket directory, a partial function from keys to rows. A row
keeps what the code's rules read: state, policy digest, amount, consumed amount,
whether a proof of the actual fee replaced the amount, and the three stamps.
There is no clock: callers take the time before they wait for the lock, and the
wall clock may be set back, so each call's `now` is any instant.
`at` is the stamp that `bucketStamp` computes from it. `Lane[k]` is the namespace
of a key, which fixes the calls it can meet: `direct`, `bridge` (reopening, as
Relay does), `owner_cap` (x402 of a profile, no daily cap), `permit2`
(cancellation before the reservation), `merchant_native` and the two MetaMask
lanes (settlement at the actual fee). A call that is refused or replays a stored
row changes nothing, and is a stuttering step.

| Action | Code |
|---|---|
| `Reserve`, `ReopenFailed` | `reserve` and its `retryFailedBeforeEffect`, `reserveMetaMaskNative` |
| `ReserveWithinOwnerCap` | `reserveWithinOwnerCap` |
| `Transition` | `transition`, with `assertTransition` and the clamped effect stamp |
| `ReleaseDirectReservedAfter` | `releaseDirectReservedAfter` |
| `CancelUnsubmittedReservation` | `cancelUnsubmittedReservation` |
| `SettleMerchantNativeActualFee`, `SettleMetaMaskNativeActual` | the methods of those names |

### DirectTransfer

Every command of the transfer holds the profile's lock from its first read to
its last write, so at most one runs: `proc` is its next step. Each step is one
durable write, one network exchange or one answer of the owner, and `Stop` may
fall between any two: the process dies or the call throws. What survives is
`op` (the record's state), `nonce`, `journal` (files of the public-effect
journal), `fence` and `row` (the reservation). The two reasons of an abandoned
operation are told apart as `abandoned_undispatched` and `abandoned_sent`,
because the ledger treats them differently.

`Transition` is the code's `transition()`: the record is written, then the
ledger is told to follow, which is a step of its own (`FollowUsage`). The
environment is explicit: `sent` (bytes that reached the network), `taker` (which
transaction consumed a nonce; `Other` is one APN did not send), `head` and
`final` (the account's nonce at the head and at the finalized block),
`reverted`, and `rule`, the finality rule of the network, fixed at `Init`.
Nodes lag and prune: `PendingNonces`, `ObserveNothing` and `Answers` are what
one node may reply, restricted only by what the proof in
`evm-finalized-proof.ts` establishes (a node whose index reaches back to the
block read at prepare and that sees a finalized nonce beyond the frozen one
knows the transaction if it was included).

| Actions | Code |
|---|---|
| `Prepare`, `JournalPrepare` | `prepareEvmTransfer`, `DirectPublicEffectJournal.prepare` |
| `RetireExpired` | `retireExpiredDirectTransfers` |
| `ApproveReserves`, `ApproveFails`, `Start`, `BeginSigning`, `Prompt`, `Sign`, `PublishSigned`, `Bind`, `RecordNoPrivateEntry` | `approve`, the journal's phases, `approveAndSign` of `local-wallet-native.ts` |
| `Submit`, `Dispatch`, `Accepted`, `Ambiguous` | `submitAndInspect`, `dispatchAndInspect` |
| `ObserveNothing`, `ObserveUnproven`, `ObserveProven` | `observeReceipt`, `classifyReceipt` |
| `SettleUnlanded` | `settleUnlanded` with `checkNeverLands` |
| `Resume...`, `SettleDispatched`, `Abandon...` | `resume` and its observe-only form, `settleDispatchedDirect`, `abandonLocal` |

Merged on purpose: the receipt file and the operation record are one step. The
receipt is written first, carries the integrity hash of the record to come, and
is only shown beside that record; no command decides by it.

### OperationIndex

The records (`rec`) are the only truth, the files (`entry`, `open`, `pointer`)
are derived. A process reads and writes one file at a time without a lock,
except in `claimUnderLock` and `forget`, which hold the leaf lock: those are one
step each, but may be cut short by a crash after any of their files. An
admission is told from the next one of the same operation by its number, which
stands for `admittedAt`. `Collector` is everybody who meets an entry without
preparing (status reads, settlements, the amortized collection, the owner's
release). `Requests` fixes which account and key each operation asks for, so
that one run covers two operations on one account and two under one key.
`Init` includes records an earlier release wrote, which have no entries yet.

| Actions | Code |
|---|---|
| `ListEntries`, `ListRecords`, `Walk` | `reconcile` |
| `Resolve` | `resolvePrepare` |
| `ListOpen`, `InspectRecordless`, `InspectOpen`, `InspectTerminal` | `check`, `inspect` |
| `PutOpen`, `PutEntry` (after the pointer, in `Writing`) | `reconciler.write` |
| `ClaimAgain`, `ClaimConflict`, `Claim` | `claimUnderLock` and the write `admit` gives it |
| `Work`, `After`, `Forget` | the body of `admit`, `dropIfRecordless`, `follow`, `forget` |
| `Collect`, `OwnerReleases` | `refresh` and the callers of `inspect`; `releaseByOwner` |
| `Close`, `Lapse`, `Crash` | a later command of the operation; `ADMISSION_LEASE_MS`; the death of a process |

### X402Payment

One command at a time (`proc`), one durable write, signature, HTTP call or chain
read per step, a stop before any of them. Durable are the record (`op`), the
number of times material was asked for, `attempts` (paid requests, each written
before it is sent, with their outcome), the merchant's named transaction
(`hint`), chain evidence (`proof`), the paid body (`result`), the terminal
receipt file and the ledger row. The merchant may answer anything or nothing,
and may use an authorization after it stopped answering (`exposed`, `leaked`);
the chain settles it, replaces the block, or lets `validBefore` pass.

| Actions | Code |
|---|---|
| `Prepare`, `ApproveExpired`, `ApproveReserves`, `Pend` | `prepare`, `approve`, the reservation in `x402-usage.ts` |
| `Authorized`, `AuthorizeLater`, `AuthorizeNotFound`, `AuthorizeRefused`, `AuthorizeExpired` | creation and recovery of the authorization, local or by a provider |
| `ResumeReceipt`, `ResumeAuthorization`, `ResumeMarked`, `ResumeRead`, `Wait`, `RecoverOrphan` | `resume` with and without a wait, `recoverOrphanReceipt` |
| `BeginAttempt`, `Http`, `Answered...`, `KeepResult`, `LinkResult` | `x402-paid-request.ts` |
| `Finish`, `ReadUsed`, `ReadNeverUsed`, `ReadNothing`, `Act`, `SendTooLate` | the reconciler and the expiry proof |
| `WriteReceipt`, `Close`, `Follow` | `commitTerminal`, the ledger's follow at a command's end (one ledger transition a step: a submitted hold is released in two) |
| `Abandon...` | `x402-abandon.ts` |

### ProviderTransfer

Three lanes: `awal` (a child process per send, nothing to ask afterwards),
`guard` (a provider request that may wait for its owner) and `delegated` (APN
signs with a session key, seals the bytes, sends them itself, twice at most).
All transfers are of one account, to one recipient, for one amount, so that a
provider's answer for one would satisfy the checks of another: `rec[p].token`
and `.hash` say whose request and transaction the record names. A transition
writes the receipt, then the record; `RecoverOrphanTerminal` is the repair of a
stop between them, and `Corrupt` the state in which the receipt speaks of a
record that another command has overtaken.

### RailOperation

A TRON command holds the profile's and the operation's lock from its first step
to its last; a Solana command takes them only for short sections and waits for
node and owner without them. Its narrow locks (prepare, approval, abandon) and
its claim files bridge the sections. `run[c].seen` is what process `c` read in
an earlier section, `Moved(c)` the comparison the code makes when it comes back.
`Section(c)` is the guard of a section, `Move` the write of a record after which
the ledger follows (`Follow`). The record's state stands for its integrity hash:
no state is ever entered twice. `active` may change at any time, because another
lock guards the policy.

| Actions | Code |
|---|---|
| `Stage`, `Replay`, `ReadChain`, `Freeze`, `DropPrepareClaim` | `prepareLocalSolana` |
| `PrepareTron`, `FreezeTron` | the TRON branch of `prepare` |
| `Approve`, `Ask`, `Refuse`, `Commit`, `Start` | `approve`, the approval claim, the reservation |
| `Recover`, `Revalidate`, `Unsealed`, `Seal`, `Sealed`, `Recheck`, `Unsendable`, `Intend`, `Send`, `Acknowledge` | `executeLocalSolanaClaimed`; on TRON `finishLocalApproval`, `firstLocalSubmit`, `submit` |
| `Resume`, `Claim`, `Phase`, `InspectFinds`, `InspectNothing`, `Conclude` | `resume` and its phases |
| `Abandon`, `Height`, `Status`, `StatusMissing`, `Consent`, `Release` | `operation-abandon-service.ts` |

### GaslessTransfer

Two effects are signed, sealed in custody and then leave: the bootstrap
(disclosed to the bundler for an estimate) and the UserOperation. `rec` holds
the state and the phase of each effect; a phase stands for the counters and
hashes of the record. `Edges` and `PhaseEdges` are the tables the code validates
each save against (`Valid`). `lease` is the ledger row; a save writes the record
and `Follow` the row. The account is its nonce and its permits, at the head
(`head`) and at the safe block (`safe`). The clock is open, closing (consent
may still be taken) and closed. `Screen`, `Answer` are the foreground approval;
`LateScreen`, `LateAnswer`, `LateRecheck` the fresh consent of `approve-sealed`.

### StateFile

A system call is a step. `dir` is the directory as it is, `past` every
directory a loss of power may bring back (emptied by `Flush`, the directory's
`fsync`), `content[c]` whether the bytes of an inode reached the disk. A call
has a role, may hold the record's lock, and ends as done, absent, occupied,
refused, failed, lost or stopped. `Stage` to `Dirsync` and `Verify` are
`writeJson`; `Lstat`, `Look`, `Unlink`, `Settle`, `Relook`, `Restat` the repair
of abandoned links; `FindAbandoned` and `Collect` a listing's.

### AllowlistPolicy

`records` are the staged revisions, `entries` the owner's decisions. An author
or owner reads under the profile's lock, thinks without it (`at = "author"`,
`at = "ask"`), and comes back: `saw` is the digest of the head they saw, which
the sequence number stands for. `Prepare`, `Confirm`, `ReserveUnder` are a
lane's reads of the active revision; the gasless lane keeps the lock from
`Confirm` to `ReserveUnder`, the direct lane does not. The specification is
`PolicySpec`, so that one module can prove about it and about the ledger.

## 3. Runs

All runs use two workers and end within their five minutes.

| Run | Instance | What it shows |
|---|---|---|
| `ledger` | any two of seven lanes in a bucket, two days of two instants, one amount, two policies with caps 3 and 2 | the daily cap, over late spends, reopened holds, a lowered cap and a clock that goes back; rows stay readable after every settlement; a hold that may have been sent is never again treated as untouched; stamps and terminal rows do not go back |
| `direct_safe` | two transfers, two nonces, two stops, both finality rules, replaced blocks where the rule waits for finality | the ledger, the outcome and the chain agree; a closed transfer stays closed; `HeldPayment` |
| `direct_settles` | one transfer, one stop, a competing transaction | a dispatched transfer is decided or abandoned in the end |
| `index_admission` | two prepares, on one account under two keys or under one key on two accounts; the first may be admitted twice | exclusion unless one of the two was readmitted or lost its admission in use; one record per key; an admission in use is never dropped; an open record with an entry is listed |
| `x402_purchase` | one purchase, either signer, one stop | outcomes are proven and keep the paid body; no header is out without marker and hold, and a request is paid for once and resent once; a receipt that was written stays the outcome; `HeldPayment`; an approved purchase ends |
| `provider_transfer` | one transfer, any lane, two stops, one replaced block | one send; outcomes are proven; every terminal record has its receipt; transfers of the provider's own lanes end |
| `provider_requests` | two transfers of one account, one stop | one request for one transfer; only the owner lets a second transfer start while the first may still pay |
| `rail_operation` | two processes, two stops, one policy change, both rails | one submission; evidence only for what is final; Solana is frozen under the active revision; `HeldPayment` |
| `rail_ends` | one process, one stop, one policy change | a transfer that may be signed ends while its policy stays active; the ledger catches up with every outcome |
| `state_file` | three calls of any role, locked or not, one stop or loss of power | the record is whole, what was reported is kept, one creator wins, and a refusal is never the fault of an earlier stop |
| `allowlist_policy` | two terminals, four files, three revisions, three decisions, one direct and one gasless operation | no decision or revision overlooks another; a family keeps its account; a reservation is taken under the operation's own revision |
| `gasless` | one transfer, two stops, one replaced block | each effect is signed once and leaves once; outcomes are of safe blocks; `HeldPayment`; an approved transfer ends |

`TypeOK` of each module is not a property of a run of its own: where it carries
meaning it is part of the inductive invariants of section 4.

**Bounds, and why they are enough.** For every invariant, step property and
refinement of these runs section 4 has a theorem without the bounds, so the
bounds matter for the liveness properties only; the others are chosen so that
every case the code tells apart happens, and a wrong model or property would
show before it is proved. *Ledger:* caps and amounts are chosen so
that one hold fits, two need not, and two fit under the higher cap; four
instants give a stamp before, within and after a day's end; every rule of a
bucket is about one row and the sum of the others, and every pair of lanes
meets. *Direct transfer:* two transfers are needed for a released nonce to be
taken by the next one, two nonces for one that a foreign transaction consumes,
two stops for a repair that is itself interrupted. `Reorgs` leaves out replaced
blocks under the `inclusion` rule: there the code takes a receipt at the head as
the end of the matter (a property of the network it was configured for), and
the run would only say so. *Index:* exclusion and key binding are about pairs,
and the third party of every interleaving is the collector; two admissions of
one operation are what a stale reader needs to meet the wrong one. *x402:* one
purchase, because two share nothing but the ledger's sum; one stop, because
every repair here begins a new command whose own stop is again the first of the
following ones, and the resend is in the instance without it. *Provider:* two
transfers only where the question is about requests, which are what they share.
*Rails:* two processes are what each lock and each claim is about, two stops let
both die with their claims left behind. *State file:* three calls give a reader or repairer beside two
writers. *Policies:* two terminals, because every
comparison is between one owner and whoever came between; three revisions, so
that one may leave a family out between two that name it. *Gasless:* the effects
are two and the commands exclude each other; two stops interrupt a repair.
Symmetries are declared only in runs of invariants and step properties, and
permute transfers, calls or terminals that differ in nothing.

`CHECK_DEADLOCK FALSE` where the system may really stop, because its bounded
nonces, stops, admissions or calls are used up or everything is decided.
`gasless`, `rail_operation` and `rail_ends` check for deadlock.

**Fairness.** The code has no scheduler; the owner is one. Everywhere: a command
at work takes its next step (weak fairness), the owner runs `resume` again and
again (strong, since other commands may be under way when they try), and
deadlines pass. Beside that:

- `DirectTransfer`: a broadcast that the pool holds is mined when its nonce is
  next, blocks finalize, the owner prepares other transfers (which retires
  expired ones), and the RPC does not for ever withhold a receipt, its absence,
  the nonce proof or the delivery of a re-send. Nothing assumes that a given
  call is answered, that a broadcast arrives the first time, or that the owner
  abandons. There are no replaced blocks in `direct_settles`: with them a finite
  run cannot say that blocks finalize faster than they are replaced.
- `X402Payment`: a node now and then answers with what its proof block says
  (`Learn`). The merchant owes nothing.
- `ProviderTransfer`: an owner in the end acknowledges what stays unresolved.
  The provider and the chain owe nothing. The delegated lane is excepted
  (section 5), and so is a receipt that another command overtook.
- `RailOperation`: nodes answer some of the time (`InspectFinds`, a completed
  `Recheck`), a transaction is final or too late in the end, and the owner
  abandons what may be abandoned.
- `GaslessTransfer`: an owner who keeps resuming lets the transfer go at last.
  `Stranded` is excepted (section 5).

## 4. Proofs

Eight modules hold the proofs, forty-six theorems a reader should know of. Each
is `Spec => []P`, an action property or a refinement, from an inductive
invariant that TLC checked on the small instance before it was proved (the
number of states is given below). Every safety and every step property that a
run checks is a theorem for all values of the constants. The theorems rest on
the named assumptions of the modules (kinds and ranges of the constants) and, in
two places, on one hypothesis more, which the theorem states.

**`AllowanceProofs`**, in two parts. Of the ledger, for all keys, lanes,
policies, caps, amounts and times: `RowsStayReadable`, `StampsAreMonotone`,
`TerminalStays`, `SentIsRemembered` (`ExposureIsRemembered`), `DailyCapHolds`.
The invariant is `TypeOK /\ RowsValid`. Neither will do alone: that a rewritten row is valid
depends on the stored row having been valid (an open row has no effect stamp and
has consumed nothing, lemma `OpenRow`; its reservation is no later than its last
write), and every arithmetic step needs the types. One lemma per operation shows
that it writes one row that is valid, no older than any stamp of the bucket, and
only from a state that may change; the theorems follow from that single notion,
`Writes`. `DailyCap` is not inductive: when the row whose cap bounds the day's
sum is settled away from the day, another row's cap must bound what is left. The
stronger fact (`CapInv`, 73,507 states) is that there is an order of admission
in which each row's own cap bounds what it and its predecessors may charge. A
row that enters comes last in the order and was checked against all that may be
charged to that day or later (`ChargedIsCounted`, `EnteringKeepsCap`); a row
that is rewritten never charges a day more than before (`FollowingShrinks`,
`FollowingKeepsCap`). The cap of the last admitted is the one `DailyCap` names
(`LastAdmitted`). The rules of sums it needs (a sum over a set is that over the
set without one element plus that element; sums of naturals grow with their
set) are proved from the definition of the fold, by the smallest finite set on
which one fails (`FamilyHasSmallest`, from the well-foundedness of strict
inclusion), since the library's induction theorems cannot be instantiated.

Of the allowlist, for any number of terminals, operations, files, families and
accounts and chains of any length: `FamilyStaysBound` (`FamilyHasOneAccount`),
`OwnersOverlookNothing` (`NothingIsOverlooked`), `ReservedUnderOwnRevision`
(`HeldUnderOwnRevision`). `ScreensFit` says what a screen that waits for its
owner shows of the chain as it was; only the comparison in `appendDecision`
turns it into a fact about the chain the decision joins. `BindingsFit` says what
a prepared operation is bound to, and that a gasless approval keeps the chain
from growing.

**`DirectTransferProofs`**, for any number of transfers, nonces, stops and
replaced blocks: `BytesAreHeld` (`SentIsHeld`) and `ClosedForGood`
(`ClosedStaysClosed`); `OutcomesAreProven` and `TransferHoldsBeforePaying` under
`"inclusion" \notin Reorgs`, that is, where the networks whose configured
finality is inclusion do not replace blocks (section 5 says what the code does
otherwise). The invariant (2,339,462 states) relates the row to the record
(`RowFits`), the journal and fence to the bytes (`BytesFit`), and says what each
step of a command relies on (`ProcFits`): the record alone does not exclude that
a command sends what an abandonment closed. `OutcomeFits` adds the chain: an
outcome was provable when written, and blocks only move on.

**`X402PaymentProofs`**, for any number of purchases and stops:
`PurchaseOutcomesAreProven`, `HeadersAreMarkedAndHeld`, `ReceiptsStand`,
`PurchaseHoldsBeforePaying`. The invariant (224,040 states) has four parts per
purchase, the world, the record, the receipt and the row, and one for the
command. The receipt is what makes it go through: it is written before the
record ends, so it must carry the claim of the record to come (`Claim`), and a
command that finds one may only close with it. The attempts are a sequence, and
`AttemptsFit` fixes its form: payments first, one recovery after them.

**`ProviderTransferProofs`**, for any number of transfers of one account, lanes,
stops and replaced blocks: `OneApprovalSendsOnce` (`SentOnce`),
`ProviderOutcomesAreProven`, `TerminalRecordsHaveReceipts`,
`AccountMovesOneAtATime` (`OneAtATime`). The first three come from one invariant
(`Fits`): what the record or the pending write of a command claims, the provider
or the chain has done (`Told`), and no effect is uncounted. `OneAtATime` needs
another (`BInv`, 879,348 states): one transfer at work, and a request belongs to
the one record that names it or to a transfer that is closed.

**`RailOperationProofs`**, for any number of processes, stops and policy
changes: `BytesLeaveOnce` (`SubmittedOnce`), `SolanaIsFrozenUnderActivePolicy`,
`RailOutcomesAreProven`, `RecordNeverReturns`, `RailHoldsBeforePaying`. That
nothing is sent twice is a fact about locks that are given up and taken again,
so the invariant says what each process relies on at each step (`Fits`), beside
the exclusion of the locks (`LocksExclude`) and what the record says of the
sends (`SendsFit`). The core is `OthersFit`: a write made in one process's
section leaves every other process's reliance intact, since on TRON the other
would hold the operation's lock and on Solana, about to send, the approval's.
`StepKeeps` reduces each action to its own process. `ChainFits` (611,683 states)
adds the chain and the ledger: what a process has seen of a final block stays
so. `RecordNeverReturns` justifies the abstraction of the model in which the
record's state stands for its integrity hash: no state is entered twice.

**`GaslessTransferProofs`**, for any number of stops and replaced blocks:
`EffectsLeaveOnce` (`SentOnce`), `GaslessOutcomesAreProven`,
`GaslessHoldsBeforePaying`. The invariant is `RecordIsAhead` (what the record
calls untouched was never attempted) and `Ready` (the command at work is about
to sign, disclose or send only what was not), over the step that follows the
ledger's. Without `Ready` the record alone does not exclude that a command
repeats what an earlier one did between its marker and its stop. `Evidence`
(88,797 states) relates the record to the account's nonce and permits and to the
lease: nothing is signed without a hold.

**`StateFileProofs`**, for any number of calls, stops and losses of power:
`RecordIsWhole`, `ReportsAreKept`, `CreatesAreSeparated`, `RefusalsAreJust`. The
target alone is not inductive: a loss of power may bring a name back that no
process sees any more, so the invariant speaks of every directory in `past`,
stages included. `History` orders the changes: what was flushed is shown by
every such directory, what was not by the present one. For the refusals
(`Orderly`, 2,723,999 states) it must be known that a stage's name is given
once, so that an inode whose second name is gone never has one again, that
locked calls exclude each other, and what a locked call knows of the record at
each step while every change is locked (`Relies`).

**`OperationIndexProofs`**, for any number of operations, preparers, accounts
and keys, from `OneEach` (one process at a time prepares an operation, which its
family's lock enforces; the two bridge families without one are the exception of
section 5): `AccountsAreExclusive` (`ExclusiveUnlessReadmitted`), `KeysNameOne`
(`KeyBoundOnce`), `ClaimsAreKept` (`ClaimIsHeld`), `EntriesAreListed`
(`OpenRecordIsListed`). The processes take no lock but for the two short
sections, so the invariant (2,959,773 states) says for each what the files it
has read are still good for: what it writes fits the record (`PutFits`), what it
drops is older than what another works under (`ForgetFits`, `Droppable`), what
its walk has passed has an entry (`WalkFits`), and what its check has cleared
comes alive only by another admission (`CheckFits`, `Harmless`). `Calm` is what
a step of one process leaves to all others.

**The refinements.** Four rails implement `HeldPayment`: the initial states map
to initial states, and each action of a command or of the chain is shown to be a
named step of `HeldPayment` or a stutter, from the invariant that the rail's
other theorems use. What carries them is the same everywhere: no byte is out
without a hold, and what the ledger does at the end is what the chain already
shows for good. `ProviderTransfer` has no ledger row and no refinement.

**The contract with the ledger.** A rail writes its record first and the ledger
afterwards, in another file, and a stop may come between any two such pairs. So
the ledger may be several transitions behind when a later command follows, and
its table (`assertTransition`) refuses what is out of order: a rail whose follow
is refused has stranded its hold, and often its command. `LedgerRows` is that
table as a specification of its own. Each rail is shown to implement it, step by
step: `LedgerTakesTransfers`, `LedgerTakesPurchases`, `LedgerTakesRailTransfer`,
`LedgerTakesGaslessTransfer` (`LedgerTakesEveryWrite` of each module); so the
ledger takes whatever they write. And `LedgerKeepsItsTable` shows that the
ledger itself moves their holds in no other way, by whichever of its calls
(`HoldsFollowTheTable`); left out are the lanes it treats apart, Relay's, whose
failed holds may be opened again, and Permit2's, which may be released before
they are taken.

What a follow finds is the subject of four more theorems.
`FollowsAreNeverRefused` and `RailFollowsAreNeverRefused` (`FollowIsNeverRefused`):
the two refusals of `directUsageFollow` as corrupt state are never met, and on
the rails no confirmed revert is written over a hold that is only reserved (the
two branches of `Followed` for it are not reached there).
`GaslessLedgerIsNeverCorrupt`: the same of the gasless lane's comparison of
record and lease. `HoldsEndAsRecorded` (`HoldCanEndAsRecorded`): the x402 follow
gives up in silence where it finds a hold settled otherwise, and it never does.
The rail's invariant needs `BooksFit`: whatever an old copy of the record still
lets a process write, the ledger is never ahead of the record, no longer has the
hold as only reserved once the record is past `submitting`, and has it as
submitted before any process sends. The gasless one needs `LeaseKnows`: the
lease is no further than the record, and a UserOperation that is about to leave,
or has left, finds it submitted. `OnlyStopsLeaveHoldsBehind`
(`OnlyStopsLeaveHolds`) says when an x402 hold stays behind the record of a
finished purchase: only after a command that was cut short. Its invariant
(`Uncut`, 224,040 states) must know whose hold, receipt and outcome is still to
be followed, since an abandonment that ends before any signature does not follow
at all, and is right not to only because it has no hold. These properties are
stated in the modules and were checked by TLC on the instances of the runs
before they were proved; no run repeats them.

**Only model-checked.** The liveness properties: `DispatchSettles`,
`PurchaseEnds`, `ProviderTransferEnds`, `TransferEnds`, `GaslessEnds` (liveness
under fairness and `ENABLED` are out of the prover's reach).

## 5. Known limits of the code

Met while the models were written. No run is kept for them; the properties state
what does hold, and name the exception where one of these is why.

*Work that does not end*

- Direct: a preparation that stopped before the journal's first file cannot be
  retired, approved, resumed or abandoned, and keeps its account.
- Direct: a transfer that stopped between its started record and the saved
  signature is never failed, as `src/docs/evm-assets.md` says it is; every
  resume refuses, and the hold stays.
- Solana: a transfer that was sent concludes only while the policy it was
  prepared under is the active one; after the owner activates another, neither
  evidence nor an abandonment is taken (`TransferEnds` assumes `PolicyHolds`).
- Provider, delegated lane: two stops use up both recorded submissions, a third
  is refused as corrupt state, and the transfer stays started.
- Gasless: `resume --observation-rpc-env` on a transfer that is signed but
  undisclosed saves an observation, after which `failed_before_effect` is
  refused (it needs none) and `abandoned_unknown` too (it needs a disclosure).
  The transfer never ends and its amount stays reserved, where `src/docs/gasless.md`
  has it end; `GaslessEnds` excepts this as `Stranded`.

*Exclusion*

- Index: `claimUnderLock` compares operation identifiers with those its check
  verified, not entries. An operation that the check found dead and that is
  admitted again before the lock counts as clear: two unresolved operations on
  one account (`ExclusiveUnlessReadmitted`).
- Index: `admit` relies on its caller's family lock; two bridge families call it
  without one, and of two prepares of one key the one that fails drops the
  admission the other works under.
- Provider: recovery does not look for a terminal receipt whose record was not
  written, and may overtake it (`Corrupt`).

*What records and documents say*

- Direct: a page of `src/docs/evm-assets.md` says that a resume of
  `unknown_finality` does not send again; `settleUnlanded` re-sends the saved
  bytes, which are the same, so there is no second payment.
- Direct: on an inclusion network a reverted receipt releases the reservation
  before its block is final. Provider receipts too are taken without finality.
- x402: a comment has it that "every approve, resume and abandon repairs a
  lagging ledger" (`src/src/x402-usage.ts:35`). Approve and resume return at once
  on a terminal record (`src/src/x402-service.ts:240`), and an abandonment of a
  purchase awaiting approval commits its outcome without a follow
  (`src/src/x402-abandon.ts:37`). A hold that a stop left behind, after the
  terminal record was written or between the reservation and the first
  signature, therefore stays where it is and counts against the cap; only
  `abandoned_unknown` is repaired, or a command that was already waiting for the
  lock. `OnlyStopsLeaveHoldsBehind` says that nothing else leaves one,
  `HoldsEndAsRecorded` that a follow could still repair it.
- x402: a second answer of the merchant that conflicts with the first is refused
  by the append-only rule, and its body is lost.
- Gasless: a submitted transfer whose permits are then invalidated keeps its
  hold as submitted.
- State store: a lock-free read that opened a record just before its owner's
  rename finds a file without a name and refuses it; an index walk quarantines
  the record until the next inspection (`RefusalIsJust` says that the refused
  file is no longer the record).

## 6. Not modelled

The implementation is some 120,000 lines, most of them formats, validation,
parsers, catalogues and prompts around the life cycles above; the map covers the
control of the parts named in section 1 and none of that. Left out of the
modelled parts:

- *Ledger:* the exclusion of a second Relay reservation by an unfiltered read,
  the one-off retirement of legacy Jupiter rows, the uint256 range of sums.
- *Direct transfer:* smart-account transfers, Permit2 approvals and revokes on
  the same account; custody is a signature that was saved or not.
- *Index:* unreadable and quarantined records, damaged index files and their
  repair, shared claims that a family admits beside its own, `addClaims`, the
  sharded pointers of a backfill. A lease that runs out under a working prepare
  body is modelled (`Lapse`), and the properties exempt the operation it happens
  to: nothing in the code renews a lease.
- *x402:* the delegated ERC-7710 lane and its scan, the older
  authorization-used scans, Permit2's later deadline, offer selection.
- *Provider:* Coinbase's gasless observation and its ledger hold, the paid fetch
  through a provider, connect and rebind of a profile. The session key's nonce
  is used by this lane only. A transfer to which the owner bound another's
  request is exempt where a property could not hold for it (`OwnRequest`).
- *Rails:* the awal provider lane, whose fee contract refuses every prepare; a
  changed account; the wire formats of both chains. Two locks taken one after
  the other at a command's start are one step, and the removal of an approval
  claim belongs to the follow step of the same section.
- *State file:* owners, modes, aliases and symbolic links; the 5-second deadline
  of lock waits and the order of several locks; the unflushed bulk write of the
  index. Inode numbers are not reused. A removal repairs nothing, as in the code.
- *Policies:* the compilation of a policy file against the inventory, caps
  (`AssetUsageLedger`), recipient pins. The expiry of a revision is checked
  before the owner answers, as in the code.
- *Gasless:* the Avalanche row without a policy and records of releases before
  the policy, the USDT and facilitator lanes, and the states `included_success`,
  `included_revert` and `failed_effects_pending`, which no code of this release
  writes. An abandonment resumes and then persists, without a reconciliation of
  its own, as in the code.

Each module takes a file write as one step, as `StateFile` shows it may. The
components without a module are those marked so in section 1: the MetaMask
lanes, bridges, swaps and the further x402 lanes repeat the life cycles that are
modelled, with chains of their own.

## 7. Plan

1. Bridges: source effect, destination proof and refund, as a chain of two
   `HeldPayment`s, and the same theorem for the chain.
2. Several locks of one command (profile, operation, custody, ledger bucket,
   index) with their 5-second deadline, and the absence of a deadlock.
3. The further lanes of x402 and of MetaMask, as instances of the life cycles
   that are proved.
