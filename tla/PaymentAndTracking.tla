------------------------ MODULE PaymentAndTracking ------------------------
(***************************************************************************)
(* The life of an order after Mengantar accepted it: the unpaid recovery   *)
(* pays it, a cancellation deletes it, and the status pull and the webhook *)
(* bring back what Mengantar says of it.  All of them move                 *)
(* shipments.status.  Payments and deletions hold the advisory lock of the *)
(* Mengantar account while they talk to Mengantar; pulls and webhooks take *)
(* only row locks.                                                         *)
(*                                                                         *)
(* The shipments are those of one account.  One action is one database     *)
(* transaction, one answer of Mengantar, or one failure.                   *)
(***************************************************************************)
EXTENDS DeliveryStatus, Sequences, FiniteSets

CONSTANTS
    Shipments,   \* shipments whose order Mengantar accepted
    Unpaid,      \* those accepted without an AWB, to be paid first
    Cod,         \* the COD shipments; a COD order is never unpaid
    BatchOf,     \* the provider batch of a shipment
    Payers,      \* requests that run the unpaid recovery
    Cancellers,  \* requests that cancel a shipment
    Pullers,     \* status pulls
    Webhook,     \* shipments on the platform account, whose events are delivered
    MaxReports,  \* statuses Mengantar reports for an order (a bound for TLC)
    None

ASSUME OrderAssumption ==
    /\ Unpaid \subseteq Shipments
    /\ Cod \subseteq Shipments \ Unpaid
    /\ Webhook \subseteq Shipments
    /\ MaxReports \in Nat \ {0}

ASSUME RequestAssumption ==
    /\ Payers \cap Cancellers = {}
    /\ None \notin Shipments \cup Payers \cup Cancellers

VARIABLES
    shipment,   \* shipments.status
    order,      \* provider_order_snapshots.status; ISSUED exactly when it has a cnote_no
    recovery,   \* provider_unpaid_recoveries.status, "NONE" before the row exists
    clock,      \* provider_unpaid_recoveries.attempted_at against now()
    booked,     \* shipments whose issuance entries are in ledger_entries
    reversed,   \* shipments whose issuance entries are reversed
    heard,      \* webhook observations: which of the order's reports were recorded
    pastPickup, \* the latest observed provider status is not a deletable one
    lock,       \* holder of the account's advisory lock
    real,       \* the order as Mengantar has it
    reports,    \* the statuses Mengantar has reported for it, oldest first
    paid,       \* payments Mengantar took for it
    latePay,    \* pay-unpaid requests nobody waits for any more
    lateDelete, \* orders for which such a DELETE /order is on its way
    pc, plan,   \* each payer: where it is, the recoveries it still has to pay,
    paying,     \* and the one in hand
    cpc, victim, \* each canceller: where it is, its shipment
    ppc, listed \* each pull: where it is, what it listed for each shipment

rows      == <<shipment, order, recovery, clock, booked, reversed>>
observed  == <<heard, pastPickup>>
mengantar == <<real, reports, paid, latePay, lateDelete>>
payer     == <<pc, plan, paying>>
canceller == <<cpc, victim>>
puller    == <<ppc, listed>>
vars == <<rows, observed, lock, mengantar, payer, canceller, puller>>

\* What Mengantar may report for an order that has an AWB.  RTS_RETURNING is an
\* RTS record with a return resi.
Reports == {"PENDING", "PICKUP_FAILED", "UNRECOGNISED", "IN_TRANSIT", "PROBLEM",
            "DELIVERED", "RTS", "RTS_RETURNING", "CANCELLED"}

\* MENGANTAR_DELETABLE_PROVIDER_STATUSES.
Deletable == {"PENDING", "PICKUP_FAILED"}

\* An order that is gone: deleted or cancelled, before or after it got an AWB.
Gone == {"UNPAID_GONE", "DELETED", "CANCELLED"}

TypeOK ==
    /\ shipment \in [Shipments -> Life]
    /\ order \in [Shipments -> {"AWAITING_UPSTREAM_PAYMENT", "ISSUED"}]
    /\ recovery \in [Shipments -> {"NONE", "PAYMENT_QUEUED", "PAYING",
                                   "PAYMENT_UNKNOWN", "COMPLETED"}]
    /\ clock \in [Shipments -> {"null", "fresh", "stale"}]
    /\ booked \in SUBSET Shipments
    /\ reversed \in SUBSET Shipments
    /\ heard \in [Shipments -> SUBSET (Nat \ {0})]
    /\ pastPickup \in [Shipments -> BOOLEAN]
    /\ lock \in Payers \cup Cancellers \cup {None}
    /\ real \in [Shipments -> Reports \cup Gone \cup {"UNPAID"}]
    /\ reports \in [Shipments -> Seq(Reports)]
    /\ paid \in [Shipments -> Nat]
    /\ latePay \in [Shipments -> Nat]
    /\ lateDelete \in SUBSET Shipments
    /\ pc \in [Payers -> {"idle", "loaded", "planned", "claimed", "locked", "refreshed",
                          "paying", "answered", "unpaid", "uncertain"}]
    /\ plan \in [Payers -> SUBSET Shipments]
    /\ paying \in [Payers -> Shipments \cup {None}]
    /\ cpc \in [Cancellers -> {"idle", "checked", "locked", "cleared", "deleting", "deleted"}]
    /\ victim \in [Cancellers -> Shipments \cup {None}]
    /\ ppc \in [Pullers -> {"idle", "listed"}]
    /\ listed \in [Pullers -> [Shipments -> Reports \cup {"DELETED", "ABSENT"}]]
    /\ \A s \in Shipments : clock[s] = "null" <=> recovery[s] \in {"NONE", "PAYMENT_QUEUED"}
    /\ \A p \in Payers : /\ paying[p] = None <=> pc[p] \in {"idle", "planned"}
                         /\ lock = p <=> pc[p] \in {"locked", "refreshed", "paying"}
    /\ \A c \in Cancellers :
          /\ victim[c] = None <=> cpc[c] = "idle"
          /\ lock = c <=> cpc[c] \in {"locked", "cleared", "deleting", "deleted"}

Init ==
    /\ shipment = [s \in Shipments |->
                     IF s \in Unpaid THEN "AWAITING_UPSTREAM_PAYMENT" ELSE "ISSUED"]
    /\ order = shipment
    /\ recovery = [s \in Shipments |-> "NONE"]
    /\ clock = [s \in Shipments |-> "null"]
    /\ booked = Shipments \ Unpaid
    /\ reversed = {}
    /\ heard = [s \in Shipments |-> {}]
    /\ pastPickup = [s \in Shipments |-> FALSE]
    /\ lock = None
    /\ real = [s \in Shipments |-> IF s \in Unpaid THEN "UNPAID" ELSE "PENDING"]
    /\ reports = [s \in Shipments |-> IF s \in Unpaid THEN <<>> ELSE <<"PENDING">>]
    /\ paid = [s \in Shipments |-> 0]
    /\ latePay = [s \in Shipments |-> 0]
    /\ lateDelete = {}
    /\ pc = [p \in Payers |-> "idle"]
    /\ plan = [p \in Payers |-> {}]
    /\ paying = [p \in Payers |-> None]
    /\ cpc = [c \in Cancellers |-> "idle"]
    /\ victim = [c \in Cancellers |-> None]
    /\ ppc = [q \in Pullers |-> "idle"]
    /\ listed = [q \in Pullers |-> [s \in Shipments |-> "ABSENT"]]

-----------------------------------------------------------------------------
(* Mengantar's side (external) *)

\* Where the courier may take an order next.
Journey(status) ==
    CASE status = "PENDING"       -> {"PICKUP_FAILED", "UNRECOGNISED", "IN_TRANSIT", "CANCELLED"}
      [] status = "PICKUP_FAILED" -> {"PENDING", "IN_TRANSIT", "CANCELLED"}
      [] status = "UNRECOGNISED"  -> {"IN_TRANSIT"}
      [] status = "IN_TRANSIT"    -> {"PROBLEM", "DELIVERED", "RTS"}
      [] status = "PROBLEM"       -> {"IN_TRANSIT", "DELIVERED", "RTS", "CANCELLED"}
      [] status = "RTS"           -> {"RTS_RETURNING"}
      [] OTHER                    -> {}

CourierMoves(s) ==
    /\ Len(reports[s]) < MaxReports
    /\ \E status \in Journey(real[s]) :
          /\ real' = [real EXCEPT ![s] = status]
          /\ reports' = [reports EXCEPT ![s] = Append(@, status)]
    /\ UNCHANGED <<rows, observed, lock, paid, latePay, lateDelete, payer, canceller, puller>>

\* Mengantar cancels an order that is still unpaid.
UnpaidOrderLapses(s) ==
    /\ real[s] = "UNPAID"
    /\ real' = [real EXCEPT ![s] = "UNPAID_GONE"]
    /\ UNCHANGED <<rows, observed, lock, reports, paid, latePay, lateDelete,
                   payer, canceller, puller>>

\* Mengantar charges the wallet; an unpaid order gets its AWB.  A request for an
\* order that is paid already might be charged again: nothing says it is not.
Charge(s) ==
    /\ real[s] \notin Gone
    /\ paid' = [paid EXCEPT ![s] = @ + 1]
    /\ IF real[s] = "UNPAID"
       THEN /\ real' = [real EXCEPT ![s] = "PENDING"]
            /\ reports' = [reports EXCEPT ![s] = <<"PENDING">>]
       ELSE UNCHANGED <<real, reports>>

\* Mengantar deletes an order before its pickup.
Delete(s) ==
    /\ real[s] \in Deletable \cup {"UNPAID"}
    /\ real' = [real EXCEPT ![s] = IF @ = "UNPAID" THEN "UNPAID_GONE" ELSE "DELETED"]
    /\ UNCHANGED <<reports, paid>>

LatePaymentLands(s) ==
    /\ latePay[s] > 0
    /\ latePay' = [latePay EXCEPT ![s] = @ - 1]
    /\ Charge(s)
    /\ UNCHANGED <<rows, observed, lock, lateDelete, payer, canceller, puller>>

LatePaymentDropped(s) ==
    /\ latePay[s] > 0
    /\ latePay' = [latePay EXCEPT ![s] = @ - 1]
    /\ UNCHANGED <<rows, observed, lock, real, reports, paid, lateDelete,
                   payer, canceller, puller>>

LateDeleteLands(s) ==
    /\ s \in lateDelete
    /\ lateDelete' = lateDelete \ {s}
    /\ Delete(s)
    /\ UNCHANGED <<rows, observed, lock, latePay, payer, canceller, puller>>

LateDeleteDropped(s) ==
    /\ s \in lateDelete
    /\ lateDelete' = lateDelete \ {s}
    /\ UNCHANGED <<rows, observed, lock, real, reports, paid, latePay,
                   payer, canceller, puller>>

-----------------------------------------------------------------------------
(* The unpaid recovery of a batch *)

Batchmates(s) == {t \in Shipments : BatchOf[t] = BatchOf[s]}

\* isAwaitingRecovery
Awaiting(s) ==
    /\ order[s] = "AWAITING_UPSTREAM_PAYMENT"
    /\ shipment[s] = "AWAITING_UPSTREAM_PAYMENT"

\* The request leaves for `next` with this recovery in hand.
PayerGoes(p, next) ==
    /\ pc' = [pc EXCEPT ![p] = next]
    /\ UNCHANGED <<plan, paying>>

\* Mutant of NextRecovery: the recovery just handled stays in hand.
NextRecoveryKeeping(p) ==
    /\ pc' = [pc EXCEPT ![p] = "planned"]
    /\ plan' = [plan EXCEPT ![p] = @ \ {paying[p]}]
    /\ UNCHANGED paying

\* The loop goes on with the next recovery.
NextRecovery(p) ==
    /\ pc' = [pc EXCEPT ![p] = "planned"]
    /\ plan' = [plan EXCEPT ![p] = @ \ {paying[p]}]
    /\ paying' = [paying EXCEPT ![p] = None]

EndPayment(p) ==
    /\ pc' = [pc EXCEPT ![p] = "idle"]
    /\ plan' = [plan EXCEPT ![p] = {}]
    /\ paying' = [paying EXCEPT ![p] = None]

\* Mutant of Unlock: the lock is not given back.
UnlockForgotten(x) == lock' = lock

\* The finally block of withProviderAccountSerialization.
Unlock(x) == lock' = IF lock = x THEN None ELSE lock

\* The shipment the operator confirmed is loaded; a payment that is under way
\* or unknown ends the request here.
LoadRecoveryTarget(p, s) ==
    /\ pc[p] = "idle"
    /\ Awaiting(s)
    /\ recovery[s] \in {"NONE", "PAYMENT_QUEUED"}
    /\ pc' = [pc EXCEPT ![p] = "loaded"]
    /\ paying' = [paying EXCEPT ![p] = s]
    /\ UNCHANGED <<rows, observed, lock, mengantar, plan, canceller, puller>>

\* One member whose order still reads unpaid while its shipment moved on
\* refuses the whole batch.
BatchPayable(batch) ==
    /\ \A t \in batch : order[t] = "AWAITING_UPSTREAM_PAYMENT" => Awaiting(t)
    /\ \E t \in batch : recovery[t] # "NONE" \/ Awaiting(t)

PrepareUnpaidRecoveries(p) ==
    /\ pc[p] = "loaded"
    /\ BatchPayable(Batchmates(paying[p]))
    /\ LET missing == {t \in Batchmates(paying[p]) : recovery[t] = "NONE" /\ Awaiting(t)} IN
       recovery' = [t \in Shipments |-> IF t \in missing THEN "PAYMENT_QUEUED" ELSE recovery[t]]
    /\ plan' = [plan EXCEPT ![p] = {t \in Batchmates(paying[p]) :
                                     recovery'[t] = "PAYMENT_QUEUED"}]
    /\ pc' = [pc EXCEPT ![p] = "planned"]
    /\ paying' = [paying EXCEPT ![p] = None]
    /\ UNCHANGED <<shipment, order, clock, booked, reversed, observed, lock, mengantar,
                   canceller, puller>>

ClaimUnpaidRecovery(p, s) ==
    /\ pc[p] = "planned"
    /\ s \in plan[p]
    /\ recovery[s] = "PAYMENT_QUEUED"
    /\ recovery' = [recovery EXCEPT ![s] = "PAYING"]
    /\ clock' = [clock EXCEPT ![s] = "fresh"]
    /\ pc' = [pc EXCEPT ![p] = "claimed"]
    /\ paying' = [paying EXCEPT ![p] = s]
    /\ UNCHANGED <<shipment, order, booked, reversed, observed, lock, mengantar, plan,
                   canceller, puller>>

\* Another request claimed it first.
RecoveryTaken(p, s) ==
    /\ pc[p] = "planned"
    /\ s \in plan[p]
    /\ recovery[s] # "PAYMENT_QUEUED"
    /\ plan' = [plan EXCEPT ![p] = @ \ {s}]
    /\ UNCHANGED <<rows, observed, lock, mengantar, pc, paying, canceller, puller>>

LockForPayment(p) ==
    /\ pc[p] = "claimed"
    /\ lock = None
    /\ lock' = p
    /\ PayerGoes(p, "locked")
    /\ UNCHANGED <<rows, observed, mengantar, canceller, puller>>

\* Mutant of ClaimHolds: the refresh does not look at the shipment.
ClaimHoldsUnseen(s) == recovery[s] = "PAYING"

\* The WHERE clause of refreshUnpaidRecoveryClaim.
ClaimHolds(s) ==
    /\ recovery[s] = "PAYING"
    /\ shipment[s] = "AWAITING_UPSTREAM_PAYMENT"

RefreshUnpaidRecoveryClaim(p) ==
    /\ pc[p] = "locked"
    /\ ClaimHolds(paying[p])
    /\ clock' = [clock EXCEPT ![paying[p]] = "fresh"]
    /\ PayerGoes(p, "refreshed")
    /\ UNCHANGED <<shipment, order, recovery, booked, reversed, observed, lock, mengantar,
                   canceller, puller>>

UnpaidRecoveryClaimLost(p) ==
    /\ pc[p] = "locked"
    /\ ~ClaimHolds(paying[p])
    /\ Unlock(p)
    /\ NextRecovery(p)
    /\ UNCHANGED <<rows, observed, mengantar, canceller, puller>>

\* The lock or the refresh fails: nothing was sent.
FailBeforePayment(p) ==
    /\ pc[p] \in {"claimed", "locked"}
    /\ Unlock(p)
    /\ PayerGoes(p, "unpaid")
    /\ UNCHANGED <<rows, observed, mengantar, canceller, puller>>

PayUnpaid(p) ==
    /\ pc[p] = "refreshed"
    /\ PayerGoes(p, "paying")
    /\ UNCHANGED <<rows, observed, lock, mengantar, canceller, puller>>

PaymentAccepted(p) ==
    /\ pc[p] = "paying"
    /\ Charge(paying[p])
    /\ Unlock(p)
    /\ PayerGoes(p, "answered")
    /\ UNCHANGED <<rows, observed, latePay, lateDelete, canceller, puller>>

\* Mutant of PaymentRefused: every answer that is not a 2xx is read as a refusal.
PaymentRefusedOrUnreadable(p) ==
    /\ pc[p] = "paying"
    /\ Charge(paying[p]) \/ UNCHANGED <<real, reports, paid>>
    /\ Unlock(p)
    /\ PayerGoes(p, "unpaid")
    /\ UNCHANGED <<rows, observed, latePay, lateDelete, canceller, puller>>

\* 400 or 403: the wallet is too low, or the order is gone.
PaymentRefused(p) ==
    /\ pc[p] = "paying"
    /\ Unlock(p)
    /\ PayerGoes(p, "unpaid")
    /\ UNCHANGED <<rows, observed, mengantar, canceller, puller>>

\* No readable answer: charged, not charged, or charged later.
PaymentAnswerLost(p) ==
    /\ pc[p] = "paying"
    /\ Unlock(p)
    /\ \/ Charge(paying[p]) /\ UNCHANGED latePay
       \/ UNCHANGED <<real, reports, paid, latePay>>
       \/ /\ latePay' = [latePay EXCEPT ![paying[p]] = @ + 1]
          /\ UNCHANGED <<real, reports, paid>>
    /\ PayerGoes(p, "uncertain")
    /\ UNCHANGED <<rows, observed, lateDelete, canceller, puller>>

CompleteUnpaidRecovery(p) ==
    /\ pc[p] = "answered"
    /\ LET s == paying[p] IN
       /\ recovery[s] = "PAYING"
       /\ Awaiting(s)
       /\ order' = [order EXCEPT ![s] = "ISSUED"]
       /\ shipment' = [shipment EXCEPT ![s] = "ISSUED"]
       /\ recovery' = [recovery EXCEPT ![s] = "COMPLETED"]
       /\ booked' = booked \cup {s}
    /\ NextRecovery(p)
    /\ UNCHANGED <<clock, reversed, observed, lock, mengantar, canceller, puller>>

\* The completion throws: its rows moved on, or its transaction failed.
CompletionFails(p) ==
    /\ pc[p] = "answered"
    /\ PayerGoes(p, "uncertain")
    /\ UNCHANGED <<rows, observed, lock, mengantar, canceller, puller>>

ReleaseUnpaidRecoveryClaim(p) ==
    /\ pc[p] = "unpaid"
    /\ recovery[paying[p]] = "PAYING"
    /\ recovery' = [recovery EXCEPT ![paying[p]] = "PAYMENT_QUEUED"]
    /\ clock' = [clock EXCEPT ![paying[p]] = "null"]
    /\ NextRecovery(p)
    /\ UNCHANGED <<shipment, order, booked, reversed, observed, lock, mengantar,
                   canceller, puller>>

\* The release matched no row: on to the unknown path.
PaymentNotReleased(p) ==
    /\ pc[p] = "unpaid"
    /\ recovery[paying[p]] # "PAYING"
    /\ PayerGoes(p, "uncertain")
    /\ UNCHANGED <<rows, observed, lock, mengantar, canceller, puller>>

MarkUnpaidRecoveryUnknown(p) ==
    /\ pc[p] = "uncertain"
    /\ recovery[paying[p]] = "PAYING"
    /\ recovery' = [recovery EXCEPT ![paying[p]] = "PAYMENT_UNKNOWN"]
    /\ NextRecovery(p)
    /\ UNCHANGED <<shipment, order, clock, booked, reversed, observed, lock, mengantar,
                   canceller, puller>>

\* Refused as a whole, nothing left to pay, or the mark matched no row and its
\* error ends the request.
PaymentEnds(p) ==
    /\ \/ pc[p] = "loaded" /\ ~BatchPayable(Batchmates(paying[p]))
       \/ pc[p] = "planned" /\ plan[p] = {}
       \/ pc[p] = "uncertain" /\ recovery[paying[p]] # "PAYING"
    /\ EndPayment(p)
    /\ UNCHANGED <<rows, observed, lock, mengantar, canceller, puller>>

\* The process stops, or a transaction outside the try block fails.
PayerCrashes(p) ==
    /\ pc[p] # "idle"
    /\ latePay' = IF pc[p] = "paying" THEN [latePay EXCEPT ![paying[p]] = @ + 1] ELSE latePay
    /\ Unlock(p)
    /\ EndPayment(p)
    /\ UNCHANGED <<rows, observed, real, reports, paid, lateDelete, canceller, puller>>

\* UNPAID_RECOVERY_CLAIM_STALE_AFTER_SECONDS (120) pass; a request answers or
\* times out within 20 s of the refresh.
RecoveryClaimAges(s) ==
    /\ clock[s] = "fresh"
    /\ recovery[s] = "PAYING"
    /\ \A p \in Payers : paying[p] = s => pc[p] \notin {"refreshed", "paying"}
    /\ clock' = [clock EXCEPT ![s] = "stale"]
    /\ UNCHANGED <<shipment, order, recovery, booked, reversed, observed, lock,
                   mengantar, payer, canceller, puller>>

\* Mutant of MarkStaleUnpaidRecoveryUnknown: the sweep passes over a recovery whose
\* shipment is not waiting for it any more.
MarkStaleAwaitingUnknown(s) ==
    /\ recovery[s] = "PAYING"
    /\ clock[s] = "stale"
    /\ Awaiting(s)
    /\ recovery' = [recovery EXCEPT ![s] = "PAYMENT_UNKNOWN"]
    /\ UNCHANGED <<shipment, order, clock, booked, reversed, observed, lock, mengantar,
                   payer, canceller, puller>>

MarkStaleUnpaidRecoveryUnknown(s) ==
    /\ recovery[s] = "PAYING"
    /\ clock[s] = "stale"
    /\ recovery' = [recovery EXCEPT ![s] = "PAYMENT_UNKNOWN"]
    /\ UNCHANGED <<shipment, order, clock, booked, reversed, observed, lock, mengantar,
                   payer, canceller, puller>>

-----------------------------------------------------------------------------
(* Cancellation *)

\* Mutant of Cancellable: an unknown payment does not forbid it.
CancellableUnlessPaying(s) ==
    /\ shipment[s] \in {"ISSUED", "AWAITING_UPSTREAM_PAYMENT"}
    /\ recovery[s] # "PAYING"
    /\ ~pastPickup[s]

\* shipmentCancelRefusal finds nothing.
Cancellable(s) ==
    /\ shipment[s] \in {"ISSUED", "AWAITING_UPSTREAM_PAYMENT"}
    /\ recovery[s] \notin {"PAYING", "PAYMENT_UNKNOWN"}
    /\ ~pastPickup[s]

CancellerGoes(c, next) ==
    /\ cpc' = [cpc EXCEPT ![c] = next]
    /\ UNCHANGED victim

EndCancel(c) ==
    /\ cpc' = [cpc EXCEPT ![c] = "idle"]
    /\ victim' = [victim EXCEPT ![c] = None]

CheckCancel(c, s) ==
    /\ cpc[c] = "idle"
    /\ Cancellable(s)
    /\ cpc' = [cpc EXCEPT ![c] = "checked"]
    /\ victim' = [victim EXCEPT ![c] = s]
    /\ UNCHANGED <<rows, observed, lock, mengantar, payer, puller>>

LockForCancel(c) ==
    /\ cpc[c] = "checked"
    /\ lock = None
    /\ lock' = c
    /\ CancellerGoes(c, "locked")
    /\ UNCHANGED <<rows, observed, mengantar, payer, puller>>

\* The shipment is read again under the lock.
RecheckCancel(c) ==
    /\ cpc[c] = "locked"
    /\ Cancellable(victim[c])
    /\ CancellerGoes(c, "cleared")
    /\ UNCHANGED <<rows, observed, lock, mengantar, payer, puller>>

CancelNotAllowed(c) ==
    /\ cpc[c] = "locked"
    /\ ~Cancellable(victim[c])
    /\ Unlock(c)
    /\ EndCancel(c)
    /\ UNCHANGED <<rows, observed, mengantar, payer, puller>>

DeleteOrder(c) ==
    /\ cpc[c] = "cleared"
    /\ CancellerGoes(c, "deleting")
    /\ UNCHANGED <<rows, observed, lock, mengantar, payer, puller>>

\* Mutant of OrderDeleted: a success is not asked to name the order.
OrderDeletedUnnamed(c) ==
    /\ cpc[c] = "deleting"
    /\ Delete(victim[c]) \/ UNCHANGED <<real, reports, paid>>
    /\ CancellerGoes(c, "deleted")
    /\ UNCHANGED <<rows, observed, lock, latePay, lateDelete, payer, puller>>

\* DELETED: the answer names the order.
OrderDeleted(c) ==
    /\ cpc[c] = "deleting"
    /\ Delete(victim[c])
    /\ CancellerGoes(c, "deleted")
    /\ UNCHANGED <<rows, observed, lock, latePay, lateDelete, payer, puller>>

\* SKIPPED: past pickup, or gone already.
OrderSkipped(c) ==
    /\ cpc[c] = "deleting"
    /\ real[victim[c]] \notin Deletable \cup {"UNPAID"}
    /\ Unlock(c)
    /\ EndCancel(c)
    /\ UNCHANGED <<rows, observed, mengantar, payer, puller>>

\* REFUSED by a 4xx, whatever the order's status.
DeleteRefused(c) ==
    /\ cpc[c] = "deleting"
    /\ Unlock(c)
    /\ EndCancel(c)
    /\ UNCHANGED <<rows, observed, mengantar, payer, puller>>

\* UNKNOWN: deleted, not deleted, or deleted later.
DeleteAnswerLost(c) ==
    /\ cpc[c] = "deleting"
    /\ \/ Delete(victim[c]) /\ UNCHANGED lateDelete
       \/ UNCHANGED <<real, reports, paid, lateDelete>>
       \/ /\ lateDelete' = lateDelete \cup {victim[c]}
          /\ UNCHANGED <<real, reports, paid>>
    /\ Unlock(c)
    /\ EndCancel(c)
    /\ UNCHANGED <<rows, observed, latePay, payer, puller>>

\* Mutant of Reversible: the entries of a non-COD shipment are reversed too.
ReversibleAny(cancelled) == cancelled \cap booked

\* CANCELLATION_REVERSED_ENTRY_TYPES of COD orders, once (ON CONFLICT DO NOTHING).
Reversible(cancelled) == cancelled \cap Cod \cap booked

\* A shipment that is CANCELLED already keeps its status; one that moved where
\* no cancellation may follow (STATE_CHANGED) is left as it is.
RecordShipmentCancelled(c) ==
    /\ cpc[c] = "deleted"
    /\ LET s == victim[c] IN
       IF shipment[s] = "CANCELLED" \/ "CANCELLED" \in ALLOWED_TRANSITIONS[shipment[s]]
       THEN /\ shipment' = [shipment EXCEPT ![s] = "CANCELLED"]
            /\ reversed' = reversed \cup Reversible({s})
       ELSE UNCHANGED <<shipment, reversed>>
    /\ Unlock(c)
    /\ EndCancel(c)
    /\ UNCHANGED <<order, recovery, clock, booked, observed, mengantar, payer, puller>>

\* All RECORD_ATTEMPTS failed.
NotRecorded(c) ==
    /\ cpc[c] = "deleted"
    /\ Unlock(c)
    /\ EndCancel(c)
    /\ UNCHANGED <<rows, observed, mengantar, payer, puller>>

CancellerCrashes(c) ==
    /\ cpc[c] # "idle"
    /\ lateDelete' = IF cpc[c] = "deleting" THEN lateDelete \cup {victim[c]} ELSE lateDelete
    /\ Unlock(c)
    /\ EndCancel(c)
    /\ UNCHANGED <<rows, observed, real, reports, paid, latePay, payer, puller>>

-----------------------------------------------------------------------------
(* The status pull *)

\* The pull maps a return resi to RTS_IN_TRANSIT; the webhook has none to see.
PulledState(report) ==
    CASE report \in {"PENDING", "UNRECOGNISED"} -> "NONE"
      [] report = "PICKUP_FAILED" -> "PROBLEM"
      [] report = "RTS" -> "RTS_QUEUED"
      [] report = "RTS_RETURNING" -> "RTS_IN_TRANSIT"
      [] OTHER -> report

WebhookState(report) ==
    IF report = "RTS_RETURNING" THEN "RTS_QUEUED" ELSE PulledState(report)

\* normalizeMengantarOrderPage: records without an AWB are not in the listing.
ListOrders(q) ==
    /\ ppc[q] = "idle"
    /\ ppc' = [ppc EXCEPT ![q] = "listed"]
    /\ listed' = [listed EXCEPT ![q] =
                    [s \in Shipments |-> IF real[s] \in {"UNPAID", "UNPAID_GONE"}
                                         THEN "ABSENT" ELSE real[s]]]
    /\ UNCHANGED <<rows, observed, lock, mengantar, payer, canceller>>

\* matchTenantOrders: by the AWB the snapshot row carries.
Matched(q) == {s \in Shipments : listed[q][s] # "ABSENT" /\ order[s] = "ISSUED"}

\* A record deleted before its pickup reads as a cancel, which is applied from
\* a pre-pickup state only (decideInferredCancel).
PullOutcome(q, s) ==
    IF listed[q][s] = "DELETED"
    THEN LET decided == Outcome("CANCELLED", shipment[s]) IN
         IF decided = "APPLIED" /\ shipment[s] \notin {"ISSUED", "AWAITING_UPSTREAM_PAYMENT"}
         THEN "REFUSED" ELSE decided
    ELSE Outcome(PulledState(listed[q][s]), shipment[s])

PullMoves(q, s) ==
    IF s \in Matched(q) /\ PullOutcome(q, s) = "APPLIED"
    THEN IF listed[q][s] = "DELETED" THEN "CANCELLED" ELSE PulledState(listed[q][s])
    ELSE shipment[s]

EndPull(q) ==
    /\ ppc' = [ppc EXCEPT ![q] = "idle"]
    /\ listed' = [listed EXCEPT ![q] = [s \in Shipments |-> "ABSENT"]]

\* Mutant of ToReverse: a shipment found CANCELLED already is passed over.
ToReverseMovedOnly(q) ==
    {s \in Matched(q) : shipment[s] # "CANCELLED" /\ PullMoves(q, s) = "CANCELLED"}

\* Shipments this pull cancels or finds cancelled.
ToReverse(q) == {s \in Matched(q) : PullMoves(q, s) = "CANCELLED"}

\* The newest observation of s, unless it is a refused inferred cancel, whose
\* raw status is a deletable one (latestProviderStatusCandidate).
PullSeesPickup(q, s) ==
    IF s \notin Matched(q) \/ (listed[q][s] = "DELETED" /\ PullOutcome(q, s) = "REFUSED")
    THEN pastPickup[s]
    ELSE listed[q][s] \notin Deletable \cup {"DELETED"}

RecordProviderSettlementPull(q) ==
    /\ ppc[q] = "listed"
    /\ shipment' = [s \in Shipments |-> PullMoves(q, s)]
    /\ reversed' = reversed \cup Reversible(ToReverse(q))
    /\ pastPickup' = [s \in Shipments |-> PullSeesPickup(q, s)]
    /\ EndPull(q)
    /\ UNCHANGED <<order, recovery, clock, booked, heard, lock, mengantar, payer, canceller>>

AbandonPull(q) ==
    /\ ppc[q] = "listed"
    /\ EndPull(q)
    /\ UNCHANGED <<rows, observed, lock, mengantar, payer, canceller>>

-----------------------------------------------------------------------------
(* The webhook: any event, at any time after it happened, any number of times *)

\* An allowed move of an older event than one recorded is history.
WebhookOutcome(s, i) ==
    LET decided == SqlOutcome(WebhookState(reports[s][i]), shipment[s]) IN
    IF decided \in {"APPLIED", "REFUSED"} /\ (\E j \in heard[s] : j > i)
    THEN "SUPERSEDED" ELSE decided

RecordMengantarWebhookEvent(s, i) ==
    /\ s \in Webhook
    /\ order[s] = "ISSUED"
    /\ i \notin heard[s]
    /\ shipment' = IF WebhookOutcome(s, i) = "APPLIED"
                   THEN [shipment EXCEPT ![s] = WebhookState(reports[s][i])]
                   ELSE shipment
    /\ heard' = [heard EXCEPT ![s] = @ \cup {i}]
    /\ pastPickup' = [pastPickup EXCEPT ![s] = reports[s][i] \notin Deletable]
    /\ UNCHANGED <<order, recovery, clock, booked, reversed, lock, mengantar, payer,
                   canceller, puller>>

-----------------------------------------------------------------------------
PayerStep(p) ==
    \/ \E s \in Shipments : \/ LoadRecoveryTarget(p, s)
                           \/ ClaimUnpaidRecovery(p, s)
                           \/ RecoveryTaken(p, s)
    \/ PrepareUnpaidRecoveries(p)
    \/ LockForPayment(p)
    \/ RefreshUnpaidRecoveryClaim(p)
    \/ UnpaidRecoveryClaimLost(p)
    \/ FailBeforePayment(p)
    \/ PayUnpaid(p)
    \/ PaymentAccepted(p)
    \/ PaymentRefused(p)
    \/ PaymentAnswerLost(p)
    \/ CompleteUnpaidRecovery(p)
    \/ CompletionFails(p)
    \/ ReleaseUnpaidRecoveryClaim(p)
    \/ PaymentNotReleased(p)
    \/ MarkUnpaidRecoveryUnknown(p)
    \/ PaymentEnds(p)
    \/ PayerCrashes(p)

CancellerStep(c) ==
    \/ \E s \in Shipments : CheckCancel(c, s)
    \/ LockForCancel(c)
    \/ RecheckCancel(c)
    \/ CancelNotAllowed(c)
    \/ DeleteOrder(c)
    \/ OrderDeleted(c)
    \/ OrderSkipped(c)
    \/ DeleteRefused(c)
    \/ DeleteAnswerLost(c)
    \/ RecordShipmentCancelled(c)
    \/ NotRecorded(c)
    \/ CancellerCrashes(c)

PullerStep(q) == ListOrders(q) \/ RecordProviderSettlementPull(q) \/ AbandonPull(q)

MengantarStep(s) ==
    \/ CourierMoves(s)
    \/ UnpaidOrderLapses(s)
    \/ LatePaymentLands(s)
    \/ LatePaymentDropped(s)
    \/ LateDeleteLands(s)
    \/ LateDeleteDropped(s)

Next ==
    \/ \E p \in Payers : PayerStep(p)
    \/ \E c \in Cancellers : CancellerStep(c)
    \/ \E q \in Pullers : PullerStep(q)
    \/ \E s \in Shipments : \/ MengantarStep(s)
                           \/ RecoveryClaimAges(s)
                           \/ MarkStaleUnpaidRecoveryUnknown(s)
                           \/ \E i \in DOMAIN reports[s] : RecordMengantarWebhookEvent(s, i)

Spec == Init /\ [][Next]_vars

\* The steps live requests take by themselves; an answer of Mengantar is one,
\* because the HTTP client times out.
PayerProceeds(p) ==
    \/ \E s \in Shipments : ClaimUnpaidRecovery(p, s) \/ RecoveryTaken(p, s)
    \/ PrepareUnpaidRecoveries(p) \/ RefreshUnpaidRecoveryClaim(p)
    \/ UnpaidRecoveryClaimLost(p) \/ PayUnpaid(p)
    \/ PaymentAccepted(p) \/ PaymentRefused(p) \/ PaymentAnswerLost(p)
    \/ CompleteUnpaidRecovery(p) \/ CompletionFails(p) \/ ReleaseUnpaidRecoveryClaim(p)
    \/ PaymentNotReleased(p) \/ MarkUnpaidRecoveryUnknown(p) \/ PaymentEnds(p)

CancellerProceeds(c) ==
    \/ RecheckCancel(c) \/ CancelNotAllowed(c) \/ DeleteOrder(c)
    \/ OrderDeleted(c) \/ OrderSkipped(c) \/ DeleteRefused(c) \/ DeleteAnswerLost(c)
    \/ RecordShipmentCancelled(c) \/ NotRecorded(c)

\* PostgreSQL grants the lock in the order of arrival.  A Tenant Admin's visits
\* keep pulling (autoPullMengantarStatus), and not every pull fails.  Somebody
\* keeps asking for the stale check.
Fairness ==
    /\ \A p \in Payers : WF_vars(PayerProceeds(p)) /\ SF_vars(LockForPayment(p))
    /\ \A c \in Cancellers : WF_vars(CancellerProceeds(c)) /\ SF_vars(LockForCancel(c))
    /\ \A q \in Pullers : WF_vars(ListOrders(q)) /\ SF_vars(RecordProviderSettlementPull(q))
    /\ \A s \in Shipments : /\ WF_vars(RecoveryClaimAges(s))
                            /\ WF_vars(MarkStaleUnpaidRecoveryUnknown(s))

FairSpec == Spec /\ Fairness

-----------------------------------------------------------------------------
(* Safety *)

\* pay-unpaid for s is on its way, waited for or not.
InPayment(s) == latePay[s] > 0 \/ \E p \in Payers : pc[p] = "paying" /\ paying[p] = s

\* Whatever is lost, retried or swept, no order can be charged twice (T-282:
\* release "never after a request may have been accepted").
PaidAtMostOnce ==
    \A s \in Shipments :
        /\ paid[s] + latePay[s] <= 1
        /\ \A p \in Payers : pc[p] = "paying" /\ paying[p] = s => paid[s] + latePay[s] = 0

\* A recovery offered for another payment has cost nothing yet.
QueuedIsUnpaid ==
    \A s \in Shipments :
        recovery[s] = "PAYMENT_QUEUED" => paid[s] = 0 /\ ~InPayment(s)

\* A deletion is never sent across a payment that is under way or that may have
\* gone through (shipmentCancelRefusal, PAYMENT_UNCERTAIN).
NeverCancelAcrossPayment ==
    \A c \in Cancellers : cpc[c] = "deleting" =>
        /\ ~InPayment(victim[c])
        /\ paid[victim[c]] > 0 => order[victim[c]] = "ISSUED"

\* A cancelled order is never paid (the comment of isAwaitingRecovery): none of
\* its payments is under way, and one that was taken had issued it before.
CancelledIsNeverPaid ==
    \A s \in Shipments : shipment[s] = "CANCELLED" =>
        ~InPayment(s) /\ (paid[s] > 0 => order[s] = "ISSUED")

\* The store's wallet is charged once for an order, however a payment is retried.
NoDoubleCharge == PaidAtMostOnce /\ QueuedIsUnpaid

\* It is not charged for an order that is deleted, nor is one deleted that is being paid.
NeverPaidAndCancelled == NeverCancelAcrossPayment /\ CancelledIsNeverPaid

\* The ledger follows the order's life: issuance entries exactly when it is
\* issued, reversed only for a COD shipment that is, and stays, cancelled.
LedgerFollowsLife ==
    /\ booked = {s \in Shipments : order[s] = "ISSUED"}
    /\ \A s \in reversed : s \in Cod \cap booked /\ shipment[s] = "CANCELLED"

\* A shipment shown as CANCELLED is gone at Mengantar, however stale the pull,
\* late the webhook or confused the answer that moved it there.
CancelledIsGone == \A s \in Shipments : shipment[s] = "CANCELLED" => real[s] \in Gone

\* The webhook's report of an outcome stands: events delivered later, but older,
\* and stale pulls do not take the shipment back.
FinalReportHolds ==
    \A s \in Shipments : \A i \in heard[s] :
        reports[s][i] \in {"DELIVERED", "CANCELLED"} => shipment[s] = reports[s][i]

-----------------------------------------------------------------------------
(* What makes these invariants inductive *)

\* p won the claim of the recovery in its hand.
Claiming(p) == pc[p] \in {"claimed", "locked", "refreshed", "paying",
                          "answered", "unpaid", "uncertain"}

\* Nothing was paid for s, and nothing is on its way.
Unsent(s) == paid[s] = 0 /\ latePay[s] = 0

\* What was paid for s did issue it, and nothing is on its way.
PaidIsIssued(s) == latePay[s] = 0 /\ (paid[s] > 0 => order[s] = "ISSUED")

RecoverySound(s) ==
    /\ paid[s] + latePay[s] <= 1
    /\ recovery[s] \in {"NONE", "PAYMENT_QUEUED"} => Unsent(s)
    /\ recovery[s] = "COMPLETED" => order[s] = "ISSUED" /\ paid[s] = 1
    /\ order[s] = "ISSUED" => recovery[s] \in {"NONE", "COMPLETED"}
                              /\ shipment[s] # "AWAITING_UPSTREAM_PAYMENT"
    /\ shipment[s] = "CANCELLED" => PaidIsIssued(s)

\* A claim is the only one of its recovery; until the payment is sent, or refused, it
\* has cost nothing; from the refresh to the answer the shipment waits for it.
ClaimSound(p) == Claiming(p) =>
    /\ recovery[paying[p]] \in {"PAYING", "PAYMENT_UNKNOWN"}
    /\ \A v \in Payers \ {p} : Claiming(v) => paying[v] # paying[p]
    /\ pc[p] \notin {"answered", "uncertain"} => Unsent(paying[p])
    /\ pc[p] = "answered" => paid[paying[p]] = 1
    /\ pc[p] \in {"refreshed", "paying"} => shipment[paying[p]] = "AWAITING_UPSTREAM_PAYMENT"

PaymentInv ==
    /\ \A s \in Shipments : RecoverySound(s)
    /\ \A p \in Payers : ClaimSound(p)
    /\ \A c \in Cancellers :
          cpc[c] \in {"cleared", "deleting", "deleted"} => PaidIsIssued(victim[c])

\* Mengantar said `word` of s, and that still stands: an outcome is never taken back.
Stands(word, s) ==
    /\ word \in {"DELIVERED", "CANCELLED", "DELETED"} => real[s] = word
    /\ word \in {"RTS", "RTS_RETURNING"} => real[s] \in {"RTS", "RTS_RETURNING"}

\* An outcome is the last report, and every report heard was made.
ReportsSound(s) ==
    /\ real[s] = "UNPAID" => reports[s] = <<>>
    /\ real[s] \in Reports => Len(reports[s]) > 0 /\ reports[s][Len(reports[s])] = real[s]
    /\ heard[s] \subseteq DOMAIN reports[s]
    /\ \A i \in DOMAIN reports[s] :
          /\ Stands(reports[s][i], s)
          /\ reports[s][i] \in {"DELIVERED", "CANCELLED"} => i = Len(reports[s])

\* The status of a shipment in an end, or in a return, is the truth at Mengantar.
StatusSound(s) ==
    /\ shipment[s] = "DELIVERED" => real[s] = "DELIVERED"
    /\ shipment[s] = "CANCELLED" => real[s] \in Gone
    /\ shipment[s] \in {"RTS_QUEUED", "RTS_IN_TRANSIT", "RTS_RECEIVED"} =>
          real[s] \in {"RTS", "RTS_RETURNING"}

\* What a pull has listed was reported, or is a deletion, and still stands.
ListingSound(q, s) ==
    /\ Stands(listed[q][s], s)
    /\ listed[q][s] \notin {"ABSENT", "DELETED"} =>
          \E i \in DOMAIN reports[s] : reports[s][i] = listed[q][s]

TrackingInv ==
    /\ \A s \in Shipments : ReportsSound(s) /\ StatusSound(s)
    /\ \A q \in Pullers : \A s \in Shipments : ListingSound(q, s)
    /\ \A c \in Cancellers : cpc[c] = "deleted" => real[victim[c]] \in Gone
    /\ FinalReportHolds

-----------------------------------------------------------------------------
(* Liveness *)

\* A payment or a cancellation ends, although both wait for one lock.
RequestsReturn ==
    /\ \A p \in Payers : pc[p] # "idle" ~> pc[p] = "idle"
    /\ \A c \in Cancellers : cpc[c] # "idle" ~> cpc[c] = "idle"

\* No recovery stays PAYING for ever.
PayingResolves == \A s \in Shipments : recovery[s] = "PAYING" ~> recovery[s] # "PAYING"

\* A delivery is seen in the end, from whatever status earlier pulls and
\* webhooks left behind.
DeliveredIsSeen ==
    \A s \in Shipments :
        real[s] = "DELIVERED" /\ order[s] = "ISSUED" ~> shipment[s] = "DELIVERED"

\* A cancelled COD shipment is reversed in the end, also when the webhook, which
\* books nothing, cancelled it first (T-290).
CancelledCodIsReversed ==
    \A s \in Cod : shipment[s] = "CANCELLED" ~> s \in reversed

\* "Mengantar deleted it, but the shipment could not be marked here after
\* retries. A status pull settles it" (NOT_RECORDED of ShipmentCancelResult).
DeletionIsSettled ==
    \A c \in Cancellers : \A s \in Shipments :
        cpc[c] = "deleted" /\ victim[c] = s ~> shipment[s] = "CANCELLED"

-----------------------------------------------------------------------------
(* Refinement *)

SaidOf(s) ==
    {PulledState(reports[s][i]) : i \in DOMAIN reports[s]}
      \cup {WebhookState(reports[s][i]) : i \in DOMAIN reports[s]}

Promise == INSTANCE ShipmentLifecycle WITH
    status <- shipment,
    charged <- {s \in Shipments : paid[s] > 0},
    gone <- {s \in Shipments : real[s] \in Gone},
    said <- [s \in Shipments |-> SaidOf(s) \ {"NONE"}]

\* Paying, cancelling, pulling and the webhook keep the lifecycle of the status.
ImplementsLifecycle == Promise!Spec
=============================================================================
