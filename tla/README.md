# GeraiCuan: a verification project

GeraiCuan is a multi-tenant shipping application (Next.js server actions over
PostgreSQL). A tenant drafts shipments, confirms an estimated service, and the
server submits the shipment as an order to Mengantar, a courier aggregator,
over HTTP. Mengantar answers with an air waybill (AWB, *resi*) or with an
unpaid order; answers get lost, requests arrive late, processes die, several
app instances and several operators act at once. This directory holds TLA+
models of the parts of the program where that matters, the TLC runs that check
them, and TLAPS proofs of what holds for any number of shipments and requests.

Paths below are relative to the repository; `src/` is the repository's own
`src/` directory.

## 1. Inventory

### The parts that keep state under concurrency

**Order submission** (`src/lib/mengantar-order.ts`,
`src/db/order-batch-repository.ts`). State: `shipments.status`,
`provider_order_snapshots`, `provider_batches` (status and
`submission_attempted_at`), one PostgreSQL advisory lock per Mengantar account.
Operations: `prepareProviderBatches` (write or reload the confirmation's batch),
`claimProviderBatch` (QUEUED to SUBMITTING), then under the account lock and per
member `refreshProviderBatchClaim`, `POST /order`, `completeProviderOrder`; at
the end `completeProviderBatch`; on failure `releaseProviderBatchClaim` or
`markProviderBatchUnknown`; and `markStaleProviderBatchUnknown` for a claim
whose process died. Every operation is one transaction; between two of them
anything can happen, in particular the process may stop. Correct when: no
shipment ever gets two orders at Mengantar; a batch offered for another
confirmation has sent nothing; nothing is in flight without a claim; the rows
agree; every request ends and every claim is resolved.

**Reconciliation** (`src/lib/shipment-reconciliation.ts`,
`src/lib/mengantar-live-reconciliation.ts`,
`src/db/shipment-reconciliation-repository.ts`). Keeps no state of its own:
loads an unknown shipment, lists the orders Mengantar stores for the account,
matches one, applies the result in a transaction that checks again. Correct
when: an order is given to one shipment only, whoever else is looking; FAILED is
said only when no order exists or will.

**Ledger** (`src/db/ledger-repository.ts`). Append-only entries, unique by
source event. Written by the transaction that issues a shipment, by a paid
recovery, by cancellations (reversals) and by hand (adjustments). Correct when
the entries follow the status of the shipment, once.

**Unpaid recovery** (`src/lib/mengantar-unpaid-recovery.ts`,
`src/db/unpaid-recovery-repository.ts`). State: `provider_unpaid_recoveries`
(PAYMENT_QUEUED, PAYING, PAYMENT_UNKNOWN, COMPLETED). Prepare, claim, refresh
under the account lock, `pay-unpaid`, complete / release / mark unknown, stale
sweep. Correct when nothing is paid twice, nor paid once cancelled.

**Cancellation** (`src/lib/shipment-cancellation.ts`,
`src/db/shipment-cancellation-repository.ts`). Rules checked, then again under
the account lock, `DELETE /order`, record with three attempts. Correct when a
shipment said to be CANCELLED is gone at Mengantar and its ledger is reversed
once.

**Status pull and webhook** (`src/db/provider-settlement-repository.ts`,
`src/lib/provider-delivery-status.ts`, `drizzle/0063_*.sql`, `drizzle/0068_*.sql`).
Apply what Mengantar reports to `shipments.status` along `ALLOWED_TRANSITIONS`;
the webhook also drops duplicates and deliveries older than one it recorded.
Correct when a terminal status stays and late reports do not move it back.

**Drafts, estimates and outlets** (`src/app/app/estimate-actions.ts`,
`src/db/estimate-repository.ts`, `src/db/shipment-draft-repository.ts`,
`src/db/outlet-pickup-point-repository.ts`). State: the outlet's account with
its version, its pickup points and their mirror, drafts, estimate snapshots. A
draft, an estimate and a pickup point each ask Mengantar *between* two
transactions; the second one locks and compares. Correct when an answer is used
only under the account that gave it, an open draft keeps its pickup point, and
an order is made at the newest estimate.

**Labels, handover and invoices** (`src/db/label-print-repository.ts`,
`src/db/shipment-handover-repository.ts`, `src/db/shipment-invoice-repository.ts`).
State: print and handover events in their sequence, invoices. Each request locks
the shipments it lists one by one, decides, and writes under policies and a
trigger that decide again. Correct when an attempt is recorded once, a batch is
marked whole, requests do not wait in a circle, and the queues add up.

**Ledger closing** (`src/db/ledger-repository.ts`). Corrections by hand,
reversals and period closings with captured totals. Correct when each entry is
reversed once and a period balances unless somebody corrected it by hand or the
webhook alone knows of a cancellation.

**COD totals** (`src/lib/mengantar-cod-fee.ts`, `src/db/cod-totals-repository.ts`).
State: one row per shipment with the formula's version. Correct when the amount
covers what it has to pay for, the retired formula is not sent any more, and an
order collects what its page showed.

**Shipment numbers** (`src/db/shipment-number-repository.ts`,
`drizzle/0040_*.sql`, `drizzle/0060_*.sql`). State: one counter row per store,
numbers and references. Correct when numbers run without gap or double and
references keep the store's one prefix.

**Store access** (`src/db/member-governance-repository.ts`,
`src/db/tenant-lifecycle.ts`). State: `tenants.status`, `memberships`, attempt
receipts, the governance lock of the store. Correct when a store never loses its
last admin, only an admin of that moment governs, and a repeated form is
answered as the first time.

**Registration** (`src/db/tenant-registration-repository.ts`,
`src/lib/self-registration.ts`, `src/lib/tenant-approval.ts`,
`src/app/verifikasi-email/actions.ts`). State: accounts with address, password
and verification, links, the store's status. Correct when an address is verified
by its reader only and is never lost.

**Rate limits** (`src/lib/order-rate-limit.ts`, `src/lib/public-auth-rate-limit.ts`,
`src/lib/location-search-rate-limit.ts`, `src/lib/estimate-rate-limit.ts`). State:
two kinds of counter rows and a map in the process. Correct when no window
admits more than its limit and the map stays bounded.

### How they interact

All of them write `shipments.status` with conditional updates; submission,
recovery and cancellation also meet at the per-account advisory lock
(`withProviderAccountSerialization`), which is held on a connection of the same
pool the transactions inside it need. Reconciliation and the stale sweeps take
no account lock: they rely on the claim (status plus clock) alone. No queue and
no background worker exists: everything runs in the request of some user, and
a sweep happens when somebody asks.

The desks before and beside an order share the outlet's row, the shipment's row
or the counter of the store, and meet the order life at two statuses: a draft
becomes SUBMISSION_QUEUED where `OrderSubmission` begins, and a parcel can be
printed and handed over once it is ISSUED. What a tracking step does to a parcel
is a step of somebody else for the label desk and for the ledger.

### The rest

Returns, wilayah, announcements, read models (queue, dashboard, reports,
monitoring), host routing, the user interface and the landing site are listed in
`PROJECT.json` with the reason they are not modelled; of authentication only the
mail links are.

## 2. Plan

| # | Module | Subject | State |
|---|--------|---------|-------|
| 1 | `ShipmentIssuance` | what issuing a shipment promises (abstract) | done |
| 2 | `OrderSubmission` | submission and reconciliation in detail, refines 1 | done |
| 3 | `MCOrderSubmission` + 4 configurations | small instances of 2 | done |
| 4 | `OrderSubmission_proofs` | theorems about 2 | done: every invariant of its runs, that 2 implements 1, and what 2 hands over to 7 |
| 5 | `DeliveryStatus` | the decision a reported status takes, in the application and in SQL | done, both copies proved equal (in 14) |
| 6 | `ShipmentLifecycle` | what the status of an accepted shipment promises (abstract) | done |
| 7 | `PaymentAndTracking`, `MCPaymentAndTracking` + 4 configurations | unpaid recovery, cancellation, pull and webhook composed over one order's life, refines 6 | done |
| 8 | `AccountLock`, `MCAccountLock`, `AccountLock_proofs` | account lock and connection pool: who can starve whom | done, its safety proved, and what alone can fill the pool |
| 9 | `StoreAccess`, `Registration`, `RateLimits` | administrators, sign-ups and limits | done |
| 10 | `OutletDesk`, `LabelDesk` | the life of a shipment before its order, and of its parcel after | done |
| 11 | `LedgerBook`, `CodAmounts`, `CodTotals`, `ShipmentNumbers` | money and numbers | done |
| 12 | `MCStoreDesks` + 2 configurations | small instances of 9 to 11 | done |
| 13 | `CodTotals_proofs` | the formulas for every amount, the life of an amount for every quote | done |
| 14 | `PaymentAndTracking_proofs` | theorems about 7 | done: every invariant of its runs, and that 7 implements 6 |
| 15 | `StoreRecords_proofs` | theorems about `StoreAccess`, `Registration`, `RateLimits`, `ShipmentNumbers` | done |
| 16 | `ShippingDesk_proofs` | theorems about `OutletDesk`, `LabelDesk` | done |
| 17 | `LedgerBook_proofs` | sums over finite sets, and why the books balance | done |
| 18 | `MCStoreDesks_proofs` | every play of 12 is a behaviour of each of its modules, so their theorems hold of it | done |
| 19 | settlement items of the pull, managed secrets | review arithmetic; key versions | later |

The modules were written to be checked first. Where a proof could not reason about a
definition, it was restated without changing what it means: sums over a set are sums of
a function (`EntryAmounts`, `Prices`) instead of a lambda, the logs of the limiters
are sequences, and the parts of an invariant that a proof needs by name have one.

## 3. The modules

### OrderSubmission

The variables are the shared rows, the account locks, what exists at Mengantar,
and the program counter of each request. A *worker* is a request running
`submitPreparedBatch`; a *reconciler* one running
`reconcileFixtureBackedShipment`.

| Code | Model |
|------|-------|
| `shipments.status`, `provider_order_snapshots.status`, `.provider_order_id` | `shipment`, `orderStatus`, `orderId` |
| `provider_batches.status`, `submission_attempted_at` | `batch`, `clock` (`fresh` / `stale` instead of a time) |
| issuance entries of the ledger | `posted` (the set of shipments booked) |
| advisory lock | `lock[account]` |
| orders at Mengantar | `created[s]` (how many for shipment s), `stored[s]` (what it stores) |
| requests the client stopped waiting for | `late[s]` |
| locals of `submitPreparedBatch` (`sent`, `refused`, the loop) | `pc, held, todo, current, sent, refused, tries` |
| locals of a reconciliation | `rpc, target, listing, found, outcome` |

One action is one transaction, one answer of Mengantar or one failure:

* `PrepareProviderBatch`, `ResumeProviderBatch` – first and repeated
  confirmation; `RejectPayload` – a payload guard refuses before any claim;
* `ClaimProviderBatch` / `ClaimTaken`, `AcquireAccountLock`,
  `RefreshProviderBatchClaim` / `ClaimLost`, `FailBeforeSend`, `SendOrder`;
* `ProviderAccepts`, `ConflictRetried` (409, bounded by `MaxAttempts`),
  `ProviderRefuses`, `AnswerLost` (with the order made, not made, or made later);
* `CompleteProviderOrder` (which issues the shipment and books it in one
  transaction, and gives the lock back after the last member),
  `CompleteProviderBatch`, `FailAfterAnswer`;
* the catch block: `ReleaseProviderBatchClaim`, `GiveUpRelease`,
  `MarkProviderBatchUnknown`, `MarkTooLate`;
* `Crash` at every point; `ClaimAges` and `MarkStaleProviderBatch` for the sweep;
* reconciliation: `LoadReconciliationTarget`, `ReadStoredOrders`,
  `ClassifyStoredOrders`, `FixtureAnswers`, `ApplyReconciliation`,
  `AbandonReconciliation`;
* `LateRequestLands`, `LateRequestDropped`: Mengantar deals with an abandoned
  request, at any later time.

Data is abstracted to what the properties tell apart. A payload is the shipment
it was built for; two shipments a listing cannot tell apart are related by the
constant `LookAlike`. A time is whether the stale window has passed: `ClaimAges`
may not fire while the claimant is between a refresh and its answer, because the
bounded retry with its 20-second HTTP timeouts (`mengantar-http.ts:12`) is
shorter than the 120-second window. It may fire while the claimant waits for the
lock, which is where the code re-checks.

The refusal by the rate limit and by tenant checks are requests that never
start. The development lookup (`FixtureLookup = TRUE`) is the only one that can
answer FAILED; it is external and assumed to know the truth.

### ShipmentIssuance

The abstract specification: a shipment is confirmed, at most one order is made
for it (`Create`), an order is owned by at most one shipment, and it becomes
ISSUED or AWAITING_UPSTREAM_PAYMENT by being recorded (`Record`), or, once its
outcome is lost (`LoseTrack`), by being found (`Find`) or ruled out (`Fail`).
Booking happens in the same step as ISSUED. `OrderSubmission!ImplementsIssuance`
is the refinement: `status <- shipment, orders <- created, owner <- orderId,
booked <- posted`.

### PaymentAndTracking

An order that Mengantar accepted, from then on. Its shipments belong to one
account, so there is one lock.

| Code | Model |
|------|-------|
| `shipments.status`, `provider_order_snapshots.status` | `shipment`, `order` |
| `provider_unpaid_recoveries.status`, `attempted_at` | `recovery`, `clock` |
| ledger entries of the issuance or the recovery, and their reversals | `booked`, `reversed` |
| `provider_order_status_observations` | `heard` (which reports the webhook recorded), `pastPickup` (what the cancellation rule reads off the latest one) |
| advisory lock | `lock` |
| Mengantar | `real` (the order), `reports` (what it said, in order), `paid` (how often it charged), `latePay`, `lateDelete` (requests nobody waits for) |
| locals of the recovery, of a cancellation, of a pull | `pc, plan, paying`; `cpc, victim`; `ppc, listed` |

* Recovery: `LoadRecoveryTarget`, `PrepareUnpaidRecoveries`,
  `ClaimUnpaidRecovery` / `RecoveryTaken`, `LockForPayment`,
  `RefreshUnpaidRecoveryClaim` / `UnpaidRecoveryClaimLost`, `PayUnpaid`, its three
  answers, `CompleteUnpaidRecovery` / `CompletionFails`,
  `ReleaseUnpaidRecoveryClaim` / `PaymentNotReleased`,
  `MarkUnpaidRecoveryUnknown`, `PaymentEnds`, `PayerCrashes`, and the sweep
  `MarkStaleUnpaidRecoveryUnknown`.
* Cancellation: `CheckCancel`, `LockForCancel`, `RecheckCancel` /
  `CancelNotAllowed`, `DeleteOrder`, its four answers,
  `RecordShipmentCancelled` / `NotRecorded`, `CancellerCrashes`.
* Pull: `ListOrders`, then `RecordProviderSettlementPull` at any later time, or
  `AbandonPull`. It takes no lock but those of the rows.
* Webhook: `RecordMengantarWebhookEvent`, for any report so far, in any order,
  any time after it happened (the five-minute signature window is ignored,
  which only adds behaviours).

Mengantar is external. What is assumed of it: an order moves along `Journey`;
DELIVERED and CANCELLED are final; an order is deleted only before pickup and
stays in the listing as deleted, with its AWB; an unpaid order has no AWB and
may lapse; nobody pays an order outside the application; `pay-unpaid` might
charge again an order that is paid already; 400 and 403 mean nothing was
charged, as the code reads them. A deletion sends no webhook.

The shipments wait unpaid or are issued at the start, as `OrderSubmission`
leaves them (a theorem there, `AcceptedIsHandedOver`). Orders without a Mengantar batch id (accepted before it was
stored, never payable) and audit rows are left out.

### DeliveryStatus and ShipmentLifecycle

`DeliveryStatus` has the two decisions: `Outcome`, which the pull takes, and
`SqlOutcome`, with the list of pairs the migrations spell out.
`ShipmentLifecycle` is what a status promises: ISSUED after a payment,
CANCELLED when Mengantar has the order no more or said so, anything else when
Mengantar said so, along `ALLOWED_TRANSITIONS` only.
`PaymentAndTracking!ImplementsLifecycle` is the refinement: `charged`, `gone`
and `said` are read off Mengantar's side, `status <- shipment`.

### AccountLock

The same lock from the side of the connections. `stage[r]` is where a request
is; a stage implies the connections it holds (`OnLockConnection`: the one the
lock lives on, from the wait on; `InTransaction`: one more). `Connect` takes one
from a pool of `PoolSize`; `Lock` needs a connection already. Everything else of
a submission, a payment and a cancellation is left out, so one module stands for
all three; only a cancellation records under the lock (`Cancels`).

### StoreAccess

`store`, `member` and `receipts` are `tenants.status`, `memberships` and the
audit rows; `holder` is the governance lock; a request's locals are `form`,
`phase`, `context`, `change`, `answer`. One action is one statement that sees
something new: `BeginGovernance` (resolves the asker and answers a repeated
attempt), `ContextDenied`, `LockGovernance`, `DecideGovernance` (the rules read
under the lock), `RecordGovernance` (the audit row, with its policy, which looks
at the asker again), `AbortGovernance`, `CommitGovernance`. A Super Admin's
`ExecuteLifecycle` takes no governance lock, so it may land between any two of
these. Every user is ACTIVE and every member may ask: sessions are left out.

### Registration

One account is the user, credential, store and membership that are written
together. `RegisterStore` may be done by a stranger, whose password the account
then has (`stranger`). `CheckPassword` and `VerifyEmail` are the two halves of
the verification page, `ResetPassword` and `OnPasswordReset` those of a
recovery; between the halves the other path, an approval or a rejection may
come, or a crash. Links reach the reader of the inbox or expire.

### RateLimits

Three counters in one module because they share the clock. `ReadClock` comes
before the wait for the row in `EnforceRateLimit`, so a row may be set back;
`CallRolledBack` takes the count along. `Delay` bounds the time between reading
the clock and the end; without a bound no window could be promised.
`ConsumePublicAuthRateLimit` is one upsert.
`admitted` and `received` are not in the code: they log when a call or a visit was
let through, which is what the limits are about. `StartWindow` evicts as
`rememberWindow` does: the windows that are over, then all.

### OutletDesk

`account`, `stamp`, `version`, `points`, `main` and `mirror` are the outlet;
`draft`, `quotes` and `order` a shipment; `outletLock` and `draftLock` the row
locks that are held over a further statement; `stage`, `asked`, `named` and
`reply` the locals of a request. `CheckArea`, `AskPickups` and `AskEstimate`
note the authority and leave for Mengantar; `SaveDraft`, `AddPickup` and
`LockOutlet` with `AppendEstimate` come back and compare. `StartSelection`,
`LockSelection` and `QueueOrder` are the order's transaction, with `OrderPolicy`
the database's own policy, in the form of the last migration. `GiveUp` is a
failure of Mengantar, of the process, or a deadlock that PostgreSQL ends.

### LabelDesk

`rowLock` are the FOR UPDATE locks, `keyShare` the locks of an invoice's foreign
key; `plan` is what a request decided and not written yet. `LockRow` takes one
row in the order the code sorts them, `DecidePrint`, `DecideMark`, `DecideUndo`
read under all of them, `RecordPrint` and `RecordHandover` write through
`PrintPolicy`, `HandoverPolicy` and the sequence trigger. `MoveParcels` is
whoever changes a status (a cancellation, a pull, the webhook), with the locks it
takes. `Listed` and `Counted` are the two SQL forms of a queue, `ScanState` the
third.

### LedgerBook

`ledger` is a sequence: it only grows. `Issue`, `AwaitPayment`,
`CompleteRecovery`, `CancelDeal` are the transactions of the order life and what
they book; `WebhookCancels` books nothing. A correction checks, locks its target
and inserts; a closing locks the outlet, captures both sides and records them,
as two steps, since bookings go on in between. `appendLedgerAdjustment`,
`reconcileLedgerPeriod` and `recordLedgerReconciliation` are exported and tested
but no route calls them at this commit.

### CodAmounts and CodTotals

`CodAmounts` is the arithmetic, in whole rupiah: the three formulas, what
Mengantar keeps, the CHECKs of the table (`RowAccepted`) and the receipt's lines.
`CodTotals` is the life of one shipment's amount: `EstimateAgain`, `ShowPage`,
`Confirm` with its four outcomes, `Submit`. A row of version 1 may be there from
the start. The confirmation is one step because it holds the shipment's row.

### ShipmentNumbers

`counter` is the committed row, `writing` what each open transaction will leave
in it. `Allocate`, `TakePrefix` and `Unlock` need the row; `CommitCreation`,
`RewriteReferences` and `Withdraw` give it back.

### MCStoreDesks

These modules share no variable, so one run holds them all: a behaviour chooses
a *play* (a module) and a *cast* (the requests that take part) at the start, and
everybody else stands still. The state spaces add up instead of multiplying,
and every module is still explored under its own `Next`. A cast is three or four
requests chosen for one question; the casts are listed in the module.
In the outlet's play two operators also order the same shipment; the version of
the outlet's account moves more than once only in the cast marked `again`.

## 4. The runs

| Run | Instance | Shows |
|-----|----------|-------|
| `submission_batch` | a batch of two (one COD) on the gerai's own account and a batch of one on the shared one; two confirmations; one reconciliation, with the development lookup; two POST attempts | `TypeOK`, `AtMostOneProviderOrder`, `ResumableMeansUnsent`, `BatchReflectsMembers`, `LedgerFollowsIssue`, `FailedHasNoOrder` |
| `submission_twins` | two single shipments whose orders look alike; two confirmations, two reconciliations with the live lookup | `InFlightUnderClaim`, `OrderOwnedOnce`, and the refinement `ImplementsIssuance` |
| `submission_liveness` | two batches contending for one account, with crashes | `ConfirmationReturns`, `ClaimResolves` |
| `submission_unclosable` | one batch, one request | violates `UnknownBatchHasUnknownMember` (see Findings) |
| `payment_races` | two unpaid orders of one batch, two recoveries, one cancellation | `TypeOK`, `NoDoubleCharge`, `NeverPaidAndCancelled` |
| `tracking_races` | one COD order, two cancellations, two pulls, the webhook, four reports | `CancelledIsGone`, `LedgerFollowsLife`, `FinalReportHolds`; `DeliveredIsSeen`, `CancelledCodIsReversed` |
| `order_life` | one order from unpaid on, one request of each kind, the webhook | `LedgerFollowsLife`, the refinement `ImplementsLifecycle`; `RequestsReturn`, `PayingResolves` |
| `pool_ample` | three requests on one account, one on another, five connections | `TypeOK`, `HolderServed`, `RequestsProceed` |
| `store_desks` | eight plays: governance, registration, limits, labels, outlet, ledger, COD, numbers | see below |
| `deletion_unsettled`, `pool_gridlock`, `pickup_refused` | the smallest instances; the plays | violations (see Findings) |

A property of these runs may be a conjunction, where its parts are broken by the
same kind of step:

* `NoDoubleCharge` = `PaidAtMostOnce` and `QueuedIsUnpaid`;
  `NeverPaidAndCancelled` = `NeverCancelAcrossPayment` and `CancelledIsNeverPaid`.
* `StoreRules` (governance and lifecycle): `AdminsNeverRunOut`,
  `OnlyAdminsGovern`, `StoreMovesWithReceipt`; beside it `RetryAnswersAsFirst`.
* `AddressesAreProved` (registration): `VerifiedByItsReader`,
  `ApprovedOwnerIsVerified`, `NoAddressIsLost`.
* `LimitsHold` (limits): `NeverOverTheLimit`, `NeverThreeBursts`, `MapIsBounded`.
* `DecisionsStand` (labels): `DatabaseAgrees`, `WholeBatchMarked`; `DeskAddsUp`:
  `AttemptRecordedOnce`, `QueuesAddUp`; `NoCircularWait` (no circle of
  waits without a page of invoices that draws out of order; the run has two such
  pages with opposite lists, and a circle of them, which PostgreSQL ends);
  `InvoiceStands`.
* `DraftsStand` (outlet): `OpenDraftKeepsPickup`, `OrderedAtNewestQuote`;
  `SavesAreMeant`: `StaleAnswersRefused`, `SecondShipmentIsMeant`.
* `BooksBalance` (ledger): `UntouchedBalances`, `VarianceExplained`,
  `ReversedOnce`, `AttemptClosesOnce`.
* `CodTotalsHold` (COD): `AmountCovers`, `RetiredStaysHome`, `ShownIsCollected`.
* `NumbersFollow` (numbers): `NumbersRun`, `ReferencesStay`.

What these promise is not as strong as it might sound in two places.
`NeverOverTheLimit` is about any stretch shorter than a window by the delay of a
call: a window slides from the last admitted call, and a late call may set it
back. `VarianceExplained` looks for the correction or the cancellation in the
present, not at the time of the closing.

The bounds of `store_desks`: two admins who act on each other, an operator and a
newcomer wanted by two stores; one address and two accounts; a window of three
instants with a limit of two and a delay of one, a map of two for three readers;
two parcels listed in both orders; two pickup points and accounts, two estimates
of a shipment; a shipment of each payment kind over two periods; four quotes
chosen to round, to be discounted, to cost nothing and to exceed the column;
three creations and two prefixes. Each is the smallest where the race of its
hazard takes place, and the mutant of each part is caught there.

The development lookup gives every answer the live one gives for orders that
can be told apart, and FAILED, so `submission_batch` uses it. That the live lookup
leaves shipments of a shared account alone (`PlatformDefault`) only removes steps,
and no run has a live lookup there.

Two workers and two shipments suffice for every race over a claim, a lock or an
order: each of those is held by one and wanted by one other. A batch of two is
the smallest with a recorded and an unrecorded member. The bounds are the sets
in the configurations and `MaxAttempts` (2 or the code's 3 where the retry is
asked about, 1 in the twins, whose question is ownership). Counters need no cap: a shipment has at most one
request on its way, and this is itself checked. `MaxReports` bounds what
Mengantar says of an order: four reports reach an outcome after a problem, and
leave room for one delivered late between two newer ones. `payment_races` asks
about money only and stops at the first report; its two shipments are what a
batch needs for one member to be paid and one to be refused. `pool_ample` has the smallest
pool that is enough (`HolderIsServed`), `pool_gridlock` the largest that is not
for the requests of its account; the code's ten and a burst of ten requests are
the same case.

**Fairness** (`FairSpec`): a live request takes its own next step (weakly
fair), where an answer of Mengantar counts because the HTTP client times out;
the lock is strongly fair, because PostgreSQL queues waiters in order of
arrival; and time passes and somebody repeats the confirmation or asks for the
stale check (the code has no scheduler, so the sweep is an assumption about the
operator that the user interface provides for). Failures and crashes are not
fair: nothing relies on them. `PaymentAndTracking` assumes the same of its
requests and of the stale check; pulls go on because every visit of a Tenant
Admin starts one when the last is old (`autoPullMengantarStatus`), and they do
not fail for ever. In `AccountLock` the pool is strongly fair because `pg` keeps
a queue of askers.

Deadlock checking is off in the runs where all work can be finished: every
batch closed and no request running is a legitimate end.

## 5. Findings

`submission_unclosable`: a test of the sweep calls a batch whose last member was
recorded before the process died one that is finalised. If the process does not
die and only `completeProviderBatch` fails, the catch block marks the batch
SUBMISSION_UNKNOWN although no member is unknown. The sweep looks at SUBMITTING
batches only and reconciliation at SUBMISSION_UNKNOWN shipments only, so nothing
closes it. The members themselves are right.

`deletion_unsettled`: `cancelShipmentAtMengantar` says of a deletion that could
not be recorded that a status pull settles it. The pull finds a shipment by the
AWB of its order, and an unpaid order has none: after `OrderDeleted` and
`NotRecorded` the shipment awaits a payment for good (another cancellation is
answered SKIPPED). For the same reason nothing takes the transition from
AWAITING_UPSTREAM_PAYMENT to CANCELLED for an order that Mengantar itself cancels
unpaid, which is what that transition was added for.

`pickup_refused`: the data model says migration 0046 ended the refusal of orders
that leave from a pickup point other than the outlet's main one. The migration
kept, in the INSERT policy of `provider_order_snapshots`, the comparison of the
batch's `pickup_address_id` with `outlets.default_pickup_address_id`, while the batch is written with the pickup
address of the draft. Estimating and confirming go through; the insert of the
order is refused.

`pool_gridlock`: a request takes a connection of the application's pool and
waits on it for the account lock; the one that holds the lock then needs
another connection of that pool for its transaction. With as many requests of
one account as the pool has connections (ten by default, no timeout) the holder
waits for the waiters, who wait for it, and requests of other accounts, which
the screening matrix says proceed independently, wait as well. Only a restart
ends it.

## 6. What is proved

Every invariant the passing runs check, every action property and both refinements
are theorems, for every value of the constants: any number of
shipments, accounts, requests, reports, prices and attempts. What the theorems
assume is the named ASSUME of each module, which TLC evaluates in the runs, and
one hypothesis that is stated where it is used: a pool larger than the number
of requests in `HolderIsServed`. Each proof
has the same shape: a type invariant, an inductive invariant that holds initially
and is kept by every action, and the promise read off it. The inductive invariants
are defined in the modules themselves, under "What makes ... inductive" (in
`CodTotals_proofs` for the COD amounts, in `OrderSubmission_proofs` for
`AcceptedInv`), and TLC found them to hold on the instances of section 4 before
they were proved.

### `OrderSubmission_proofs`

From three assumptions: batches are non-empty, every shipment looks like itself,
`None` is no value.

* `TypeCorrect`, `NeverTwoOrders` (`AtMostOneProviderOrder`), `QueuedIsUnsent`
  (`ResumableMeansUnsent`), `BatchesReflectMembers`, `LedgerIsOfIssued`
  (`LedgerFollowsIssue`), `NoSharedOrder` (`OrderOwnedOnce`),
  `FailedStaysWithoutOrder` (`FailedHasNoOrder`), `FlightsUnderClaim`
  (`InFlightUnderClaim`), all from `SubmissionSound`;
* `IssuanceImplemented` – `Spec => ImplementsIssuance`: the initial states of the
  detailed specification are initial states of `ShipmentIssuance`, and each of its
  steps is a `Confirm`, `Create`, `Record`, `LoseTrack`, `Find`, `Fail` or a stutter;
* `NoOrderForgotten` (`NothingForgotten`), `AcceptedIsStored` (`AcceptedInv`),
  `AcceptedIsHandedOver` (`HandedOver`) and `AcceptanceIsFinal` (`AcceptedStands`),
  which the next module begins with.

`created[s] <= 1` is not inductive, since a POST adds an order whatever the count.
What forbids the second POST is that it is only sent by the *claimant* of the
shipment's batch for a member it has not recorded, that a batch has one claimant
(a claim takes it from the queue; nothing puts it back while one works), and that
everything still to do is unsent except the order in hand once it has been sent
(`ClaimSound`). To survive the release of a claim, the flags `sent` and `refused`
must say what happened to that order (`FlagsSound`), and whatever is back in the
queue must be unsent as a whole (`QueuedIsWhole`). Requests nobody waits for count
too: the bound is on `created[s] + late[s]`.

The other promises need three more parts. `RowsInv` bounds what the order rows of
a batch may say by the status of the batch, so that a partial failure or a sweep
leaves nothing in between. `FlightInv` has the clock in it: from the refresh to the
answer the claim is SUBMITTING and its window open, which is why a sweep cannot
take the batch away under a POST. `OutcomeInv` says that what a reconciliation has
read stays true until it is applied: for an order it found this is that orders
are never unmade, for a FAILED it is that the batch is over and no request of it
on its way.

Two questions are asked of these invariants together. *Is an order ever forgotten?*
While one exists or is on its way, its shipment is accepted, or can be reconciled
(`Unresolved`), or its batch is SUBMITTING, which its request or the sweep ends
(`NothingForgotten`): no end of a batch drops a member that may have an order. *What
does the rest of an order's life start from?* `PaymentAndTracking` begins with orders
that are accepted; `HandedOver` says what it takes for granted in its `Init` and
`OrderAssumption`: one order, of this shipment only, no request for it under way, the
status the one Mengantar stores, booked exactly if ISSUED, unpaid only if not COD. For
the status one more invariant is needed, `AcceptedInv`: a matched order is still stored
as it was read (`MatchSound`), because no second request for a shipment can land and
overwrite what is stored (`StoredStays`). `AcceptedStands` adds that no later sweep,
answer or reconciliation takes an acceptance back.

### `PaymentAndTracking_proofs`

From: unpaid and COD shipments are different ones, payers and cancellations too,
`None` is no value.

* `PaymentTypeCorrect`, `ChargedOnce` (`NoDoubleCharge`),
  `PaymentsAndCancelsApart` (`NeverPaidAndCancelled`), `LedgerFollows`
  (`LedgerFollowsLife`), `CancelledGone` (`CancelledIsGone`), `OutcomeStands`
  (`FinalReportHolds`);
* `LifecycleImplemented` – `Spec => ImplementsLifecycle`;
* `LifeNeverGoesBack` (`LifeMovesForward`, an action property), read off that
  refinement: a final status stays, a return never goes back or becomes anything
  else, and nothing becomes unpaid again;
* of the decision itself, by cases over the statuses: `DecisionsAgree` (the SQL copy
  equals the application's, for every report and status), `FinalStays`,
  `ReturnsAdvance`.

Two invariants carry them. `PaymentInv` accounts for the money: what was paid for a
shipment, together with what is on its way, is at most one, and is on the row, in
the only claim, or lost with the claim marked unknown. A cancellation that has passed its
second check adds that what it deletes is not paid, or is issued
(`PaidIsIssued`), and the account lock keeps payments away until it is done.
`TrackingInv` is about stale words: whatever a pull has listed, the webhook has
heard, or a shipment shows of an end or a return, *still stands* at Mengantar
(`Stands`), so it does no harm to apply it late. The transition graph does the
rest, through `DecisionsAgree`: the webhook's SQL decides as the application does.

### `AccountLock_proofs`

* `TypeCorrect`; `LockIsExclusive` (`OneInside`): one request of an account works
  under its lock, which `OrderSubmission` and `PaymentAndTracking` model as one
  variable; `PoolNeverOverdrawn` (`PoolBounded`).
* `HolderIsServed` (`HolderServed`), from `PoolSize > Cardinality(Requests)`: where no
  transaction runs, a request has at most the connection of its lock, so the
  connections in use are no more than the requests, and one is free.
* `OnlyLocksFillThePool` (`GridlockIsOfLocks`), for a pool of any size: where a holder
  is not served, all of the pool is connections held for locks. The finding
  `pool_gridlock` is therefore the only way it happens.

### `StoreRecords_proofs`

Four components that share no variable.

* Registration: `AddressesAlwaysProved` (`AddressesAreProved`). The request that
  checks a password, or replaces one, must know until its second half that it is the
  reader's (`CheckedIsOwn`, `ReplacedIsOwn`); nothing makes an account a
  stranger's again.
* Numbers: `NumbersAlwaysFollow` (`NumbersFollow`). One transaction has the row,
  and will write what it read plus one, or the prefix (`OneWriter`,
  `RowFollowsCommitted`).
* Governance: `RetriesAnswered` (`RetryAnswersAsFirst`) and `StoresRuled`
  (`StoreRules`, an action property). Between decision and commit nothing the
  decision was taken on changes (`ChangeFits`, `AnswerKept`), although each store has
  a lock of its own: only the invitation of one user is locked across stores
  (`OneInvitation`). `RecordedByAdmin` is the policy of the audit row.
* Limits: `LimitsAlwaysHold` (`LimitsHold`), from a delay shorter than the window.
  A row must count the last calls of the log although late calls set it back: it is
  never newer than the newest call and at most the delay older, and the first call it
  counts came a window, less the delay, after those before it (`RowCountsLast`);
  for visits the same about the running window and the one before
  (`WindowCountsLast`).

### `ShippingDesk_proofs`

* Outlet: `DraftsAlwaysStand` (`DraftsStand`) and `SavesAlwaysMeant`
  (`SavesAreMeant`, an action property). The version tells two accounts apart as long
  as it is the one noted (`VersionTellsAccount`), and an estimate that has the
  outlet's row keeps it (`EstimateHoldsAccount`).
* Labels: `DecisionsAlwaysStand` (`DecisionsStand`), `DeskAlwaysAddsUp`
  (`DeskAddsUp`), `InvoicesAlwaysStand` (`InvoiceStands`, an action property): plans
  are only of locked rows (`PlansUnderLocks`), an invoice is drawn by one request
  (`DrawnOnce`), and a parcel's record of printing comes before its handover
  (`ParcelsFollow`). The kinds of requests are assumed disjoint.
* `NobodyWaitsInCircle` (`NoCircularWait`), without a hypothesis: in every circle of
  requests that wait for each other there is a page of a batch that draws its invoices
  out of order (`OutOfOrder`). Rows are locked in the order of their ids, so along a
  chain of waits without such a page the parcel waited for gets larger, and a finite
  chain ends: of the parcels waited for in a circle one is the largest, and whoever
  has that one and waits for a smaller one draws out of order
  (`CirclesAreOutOfOrder`). Nothing sorts the page's list
  (`issueMissingBatchInvoices` draws in the order of its address), so such a circle
  exists; the run reaches it. The theorem does not exclude it: it says that no other
  circle exists.

### `LedgerBook_proofs`

`BooksAlwaysBalance` (`BooksBalance`), for finitely many deals and any prices,
corrections and closings. A closing compares a sum over the orders with one over the
entries, and the community modules define their folds without theorems; so the
module first proves what it needs of sums over finite sets, by taking a
smallest subset that fails (`WFMin` and the well-foundedness of the strict subset
ordering): that a sum exists, that any summand may be taken first, and what adding,
changing and zeroing one does. The invariant is `TotalsAreNet`: each total of the
ledger is the sum of what every deal leaves in the period, its order minus its
reversal. One entry appended, or one deal moved, changes one summand on either side.
Where nobody corrected and the cancellations are settled, what a deal leaves is
what it owes (`OrdersBooked`, `CancelledReversed`), and the sums agree. A closing under
the outlet's lock has figures that are explained already (`ClosingsFit`), and what
explains them never goes away.

### `CodTotals_proofs`

The formulas, from `MaxAmount \in Nat \ {0}` and `NoAmount \notin Int`, by
linear arithmetic with the divisions bounded first: `RoundingIsSmall` (the
grossed-up amount pays for its net and Mengantar's fee, with one rupiah left at
most), `VatAgrees` (the two roundings of the VAT agree for every fee),
`FullAmountIsAccepted` and `OngkirAmountIsAccepted` (what the formulas give, the
CHECKs of the table accept).

The life of an amount: `AmountsHold` (`CodTotalsHold`) and `CodTypeCorrect`, for any quotes,
values, pages and number of estimates. `CodTotalsHold` alone is not inductive: a recorded amount
must also be *the* amount of its estimate (`RowSound`), an order must be of the
newest one (`OrderSound`, since estimates stop at the order), a page must show what
its estimate gives (`PagesSound`), and a page may have gone ahead beside a row of
version 1 only if that was sent before (`WentSound`).

### `MCStoreDesks_proofs`

The run `store_desks` plays in one of eight modules at a time. `PlaysAreBehaviours`:
each of its behaviours is one of every module, the other seven standing still, for any
casts. So what is proved of the modules holds of the run: `DesksTyped` (`DesksTypeOK`)
and `DesksKeepPromises` (every promise it checks).

### Only model-checked

* Liveness: `ConfirmationReturns`, `ClaimResolves`, `DeliveredIsSeen`,
  `CancelledCodIsReversed`, `RequestsReturn`, `PayingResolves`, `RequestsProceed`.
  They need ENABLED under fairness, which the prover does not reason about.
* That the four invariants of section 5 are violated: a proof shows what holds only.

## 7. Not modelled

Of the repository, the larger part is rendering, forms, operator scripts, tests
and the read models (queues, dashboards, reports), which change no state; the
schema and its migrations are modelled where a policy, a trigger or a CHECK
decides something, and otherwise are the domains of the variables.

Left out of the modelled parts:

* Row-level security as tenant isolation (every query carries the tenant id; the
  model has one tenant per account and a constant for shared accounts), except
  where a policy judges a state again; payload building and courier-specific
  rules (the wait before deleting an Anteraja order among them); settlement
  items; audit rows that nothing reads back; telemetry.
* Sign-in and sessions, which belong to the authentication library. A session
  created while its member is deactivated is therefore not looked at. A store
  made by a Super Admin has no member, so `AdminsNeverRunOut` speaks of stores
  that have an admin.
* Insurance in the ledger (booked like shipping) and entry types that nothing
  books any more; `persistCodTotalsForEstimate`, which nothing calls.
* The concurrency guard of estimates in one process, which saves work only.

Known limits of the code that no property is about:

* Nothing leaves PAYMENT_UNKNOWN: such a payment is settled by hand.
* The map of the process-local limiter is cleared when it is full of running windows
  (`location-search-rate-limit.ts:120`), and a reader at the limit then starts again.
  `LimitsHold` says of the map that it stays within its bound, and nothing of how
  often one reader is let through.
* AWAITING_UPSTREAM_PAYMENT to CANCELLED is an allowed transition
  (`provider-delivery-status.ts:156`) that no step takes for an order Mengantar
  cancels unpaid.
* An estimate locks the outlet and then the shipment (`estimate-actions.ts:157`),
  an order the shipment and then the outlet (`order-batch-repository.ts:370` and
  `:121`): PostgreSQL ends one of them, and the form can be sent again.
* The page of a batch draws its missing invoices in one transaction, in the order of
  the numbers in its address (`app/app/label/cetak/batch-data.ts:53`): two pages with
  the same parcels in opposite orders may each have drawn what the other one wants.
  PostgreSQL ends one of them, and the button can be pressed again.
* `PickupPointInUseError` counts shipments in DRAFT and ESTIMATED, not those that
  are queued with a batch already; the newest estimate is the one retrieved last,
  which is the one recorded last only if the requests do not overtake each other.
* A settlement line is kept once per status and amount (the unique key in
  `drizzle/0039_provider_settlement.sql:30`, inserted with ON CONFLICT DO
  NOTHING), and the review shows the line recorded last
  (`provider-settlement-repository.ts:586`, "supersedes earlier pulls"): a line
  that changes and changes back is not recorded a third time, so the review stays
  at the middle value.
* The typeahead search (`src/lib/use-typeahead-search.ts`) is user interface: after
  a degraded answer, a retry on its way leaves a query typed meanwhile unasked.
