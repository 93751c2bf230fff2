--------------------- MODULE PaymentAndTracking_proofs ---------------------
(***************************************************************************)
(* One order's life for any shipments and requests. Types and the lock;    *)
(* then the money (PaymentInv: what a payment cost is on a row, in the one *)
(* claim of it, or on its way); then the reports (TrackingInv: an outcome  *)
(* that was said, listed, heard or shown still stands at Mengantar). The   *)
(* promises and the refinement of ShipmentLifecycle follow.  The facts     *)
(* about the delivery decision itself come first.                          *)
(***************************************************************************)
EXTENDS PaymentAndTracking, TLAPS

(* The delivery decision itself, for every report and status *)

\* The webhook decides inside the database, the pull in the application: the two
\* copies of the decision agree on every report and every status.
THEOREM DecisionsAgree ==
  ASSUME NEW mapped \in Mapped, NEW current \in Life
  PROVE  SqlOutcome(mapped, current) = Outcome(mapped, current)
<1>1. ASSUME mapped # "NONE"
      PROVE  <<current, mapped>> \in SqlPairs <=> mapped \in ALLOWED_TRANSITIONS[current]
  BY <1>1 DEF SqlPairs, ALLOWED_TRANSITIONS, Mapped, Life
<1>2. CASE mapped = "NONE"
  BY <1>2 DEF SqlOutcome, Outcome
<1>3. CASE mapped # "NONE"
  BY <1>1, <1>3 DEF SqlOutcome, Outcome
<1> QED BY <1>2, <1>3

\* No report moves a shipment out of a final status.
THEOREM FinalStays ==
  ASSUME NEW mapped \in Mapped, NEW current \in Final
  PROVE  Outcome(mapped, current) # "APPLIED"
BY DEF Final, Life, Mapped, Outcome, ALLOWED_TRANSITIONS

\* A return never becomes a delivery or a cancellation, and never goes back.
THEOREM ReturnsAdvance ==
  ASSUME NEW mapped \in Mapped, NEW current \in Life,
         ReturnProgress(current) > 0, Outcome(mapped, current) = "APPLIED"
  PROVE  ReturnProgress(mapped) > ReturnProgress(current)
BY DEF Life, Mapped, Outcome, ALLOWED_TRANSITIONS, ReturnProgress, ReturnAlreadyAtOrPast

-----------------------------------------------------------------------------

\* A decision applies only a move of the transition graph, which stays in the life of a
\* shipment; the pull and the webhook map every report to a state of that life, or none.
LEMMA Decided ==
    ASSUME NEW mapped \in Mapped, NEW current \in Life
    PROVE  /\ Outcome(mapped, current) = "APPLIED" =>
                 mapped \in Life /\ mapped \in ALLOWED_TRANSITIONS[current]
           /\ SqlOutcome(mapped, current) = Outcome(mapped, current)
BY DecisionsAgree DEF Outcome, ALLOWED_TRANSITIONS, Life

\* A report is mapped to CANCELLED, DELIVERED or a return only if it says so.
LEMMA MappedReports ==
    ASSUME NEW report \in Reports
    PROVE  /\ PulledState(report) \in Mapped /\ WebhookState(report) \in Mapped
           /\ PulledState(report) = "CANCELLED" <=> report = "CANCELLED"
           /\ PulledState(report) = "DELIVERED" <=> report = "DELIVERED"
           /\ PulledState(report) \in {"RTS_QUEUED", "RTS_IN_TRANSIT", "RTS_RECEIVED"} =>
                 report \in {"RTS", "RTS_RETURNING"}
           /\ WebhookState(report) = "CANCELLED" <=> report = "CANCELLED"
           /\ WebhookState(report) = "DELIVERED" <=> report = "DELIVERED"
           /\ WebhookState(report) \in {"RTS_QUEUED", "RTS_IN_TRANSIT", "RTS_RECEIVED"} =>
                 report \in {"RTS", "RTS_RETURNING"}
BY DEF Reports, PulledState, WebhookState, Mapped

\* What a pull does to one shipment: nothing, or one move of the transition graph, to
\* CANCELLED or to what the listing says of it.
LEMMA PullMove ==
    ASSUME TypeOK, NEW q \in Pullers, NEW s \in Shipments
    PROVE  \/ PullMoves(q, s) = shipment[s]
           \/ /\ order[s] = "ISSUED" /\ listed[q][s] # "ABSENT"
              /\ PullMoves(q, s) \in Life
              /\ PullMoves(q, s) \in ALLOWED_TRANSITIONS[shipment[s]]
              /\ \/ listed[q][s] = "DELETED" /\ PullMoves(q, s) = "CANCELLED"
                 \/ listed[q][s] \in Reports /\ PullMoves(q, s) = PulledState(listed[q][s])
<1>1. shipment[s] \in Life /\ listed[q][s] \in Reports \cup {"DELETED", "ABSENT"}
  BY DEF TypeOK
<1>2. CASE ~(s \in Matched(q) /\ PullOutcome(q, s) = "APPLIED")
  BY <1>2 DEF PullMoves
<1>3. CASE s \in Matched(q) /\ PullOutcome(q, s) = "APPLIED"
  <2>1. order[s] = "ISSUED" /\ listed[q][s] # "ABSENT"
    BY <1>3 DEF Matched
  <2>2. CASE listed[q][s] = "DELETED"
    <3>1. PullMoves(q, s) = "CANCELLED" /\ Outcome("CANCELLED", shipment[s]) = "APPLIED"
      BY <1>3, <2>2 DEF PullMoves, PullOutcome
    <3> QED
      BY <1>1, <2>1, <2>2, <3>1, Decided DEF Mapped
  <2>3. CASE listed[q][s] # "DELETED"
    <3>1. listed[q][s] \in Reports
      BY <1>1, <2>1, <2>3
    <3>2. /\ PullMoves(q, s) = PulledState(listed[q][s])
          /\ Outcome(PulledState(listed[q][s]), shipment[s]) = "APPLIED"
      BY <1>3, <2>3 DEF PullMoves, PullOutcome
    <3> QED
      BY <1>1, <2>1, <3>1, <3>2, Decided, MappedReports
  <2> QED
    BY <2>2, <2>3
<1> QED
  BY <1>2, <1>3

\* What the webhook does: nothing, or one move of the transition graph to what it reports.
LEMMA WebhookMove ==
    ASSUME TypeOK, NEW s \in Shipments, NEW i \in DOMAIN reports[s],
           RecordMengantarWebhookEvent(s, i)
    PROVE  /\ reports[s][i] \in Reports
           /\ \/ shipment' = shipment
              \/ /\ shipment' = [shipment EXCEPT ![s] = WebhookState(reports[s][i])]
                 /\ order[s] = "ISSUED"
                 /\ WebhookState(reports[s][i]) \in Life
                 /\ WebhookState(reports[s][i]) \in ALLOWED_TRANSITIONS[shipment[s]]
<1>1. reports[s] \in Seq(Reports) /\ shipment[s] \in Life
  BY DEF TypeOK
<1>2. reports[s][i] \in Reports
  BY <1>1
<1>3. CASE WebhookOutcome(s, i) # "APPLIED"
  BY <1>2, <1>3 DEF RecordMengantarWebhookEvent
<1>4. CASE WebhookOutcome(s, i) = "APPLIED"
  <2>1. SqlOutcome(WebhookState(reports[s][i]), shipment[s]) = "APPLIED"
    BY <1>4 DEF WebhookOutcome
  <2>2. Outcome(WebhookState(reports[s][i]), shipment[s]) = "APPLIED"
    BY <1>1, <1>2, <2>1, Decided, MappedReports
  <2> QED
    BY <1>1, <1>2, <1>4, <2>2, Decided, MappedReports DEF RecordMengantarWebhookEvent
<1> QED
  BY <1>3, <1>4

-----------------------------------------------------------------------------
(* The parts of the type invariant *)

RowsTyped ==
    /\ shipment \in [Shipments -> Life]
    /\ order \in [Shipments -> {"AWAITING_UPSTREAM_PAYMENT", "ISSUED"}]
    /\ recovery \in [Shipments -> {"NONE", "PAYMENT_QUEUED", "PAYING",
                                   "PAYMENT_UNKNOWN", "COMPLETED"}]
    /\ clock \in [Shipments -> {"null", "fresh", "stale"}]
    /\ booked \in SUBSET Shipments
    /\ reversed \in SUBSET Shipments
    /\ \A s \in Shipments : clock[s] = "null" <=> recovery[s] \in {"NONE", "PAYMENT_QUEUED"}

ObservedTyped ==
    /\ heard \in [Shipments -> SUBSET (Nat \ {0})]
    /\ pastPickup \in [Shipments -> BOOLEAN]

MengantarTyped ==
    /\ real \in [Shipments -> Reports \cup Gone \cup {"UNPAID"}]
    /\ reports \in [Shipments -> Seq(Reports)]
    /\ paid \in [Shipments -> Nat]
    /\ latePay \in [Shipments -> Nat]
    /\ lateDelete \in SUBSET Shipments

PayersTyped ==
    /\ pc \in [Payers -> {"idle", "loaded", "planned", "claimed", "locked", "refreshed",
                          "paying", "answered", "unpaid", "uncertain"}]
    /\ plan \in [Payers -> SUBSET Shipments]
    /\ paying \in [Payers -> Shipments \cup {None}]
    /\ \A p \in Payers : paying[p] = None <=> pc[p] \in {"idle", "planned"}

CancellersTyped ==
    /\ cpc \in [Cancellers -> {"idle", "checked", "locked", "cleared", "deleting", "deleted"}]
    /\ victim \in [Cancellers -> Shipments \cup {None}]
    /\ \A c \in Cancellers : victim[c] = None <=> cpc[c] = "idle"

PullersTyped ==
    /\ ppc \in [Pullers -> {"idle", "listed"}]
    /\ listed \in [Pullers -> [Shipments -> Reports \cup {"DELETED", "ABSENT"}]]

\* The lock is held by the one request that is talking to Mengantar.
Locked ==
    /\ lock \in Payers \cup Cancellers \cup {None}
    /\ \A p \in Payers : lock = p <=> pc[p] \in {"locked", "refreshed", "paying"}
    /\ \A c \in Cancellers : lock = c <=> cpc[c] \in {"locked", "cleared", "deleting", "deleted"}

\* The type invariant, taken apart.
LEMMA TypeParts ==
    /\ TypeOK <=> /\ RowsTyped /\ ObservedTyped /\ MengantarTyped
                  /\ PayersTyped /\ CancellersTyped /\ PullersTyped /\ Locked
    /\ TypeOK' <=> /\ RowsTyped' /\ ObservedTyped' /\ MengantarTyped'
                   /\ PayersTyped' /\ CancellersTyped' /\ PullersTyped' /\ Locked'
BY DEF TypeOK, RowsTyped, ObservedTyped, MengantarTyped, PayersTyped, CancellersTyped,
   PullersTyped, Locked

\* Whoever has the lock, nobody else does.
LEMMA OneHolder ==
    ASSUME Locked
    PROVE  /\ \A p \in Payers, c \in Cancellers :
                 ~(pc[p] \in {"locked", "refreshed", "paying"} /\
                   cpc[c] \in {"locked", "cleared", "deleting", "deleted"})
           /\ \A p, v \in Payers : pc[p] \in {"locked", "refreshed", "paying"}
                 /\ pc[v] \in {"locked", "refreshed", "paying"} => p = v
BY RequestAssumption DEF Locked

\* A payer goes on with the recovery in its hand, or puts it down.
LEMMA PayerGoesOn ==
    ASSUME PayersTyped, NEW p \in Payers, pc[p] \notin {"idle", "planned"},
           NEW next \in {"claimed", "locked", "refreshed", "paying", "answered", "unpaid",
                         "uncertain"},
           PayerGoes(p, next)
    PROVE  PayersTyped'
BY DEF PayersTyped, PayerGoes

\* A payer that turns to its next recovery, or ends, stays typed.
LEMMA PayerPutsDown ==
    ASSUME PayersTyped, NEW p \in Payers, NextRecovery(p) \/ EndPayment(p)
    PROVE  PayersTyped'
<1>1. CASE NextRecovery(p)
  <2>1. plan' \in [Payers -> SUBSET Shipments]
    BY <1>1 DEF PayersTyped, NextRecovery
  <2> QED
    BY <1>1, <2>1 DEF PayersTyped, NextRecovery
<1>2. CASE EndPayment(p)
  BY <1>2 DEF PayersTyped, EndPayment
<1> QED
  BY <1>1, <1>2

\* The lock follows a payer, or a canceller, that moves.
LEMMA LockFollowsPayer ==
    ASSUME PayersTyped, Locked, NEW p \in Payers, NEW next, pc' = [pc EXCEPT ![p] = next],
           UNCHANGED cpc,
           \/ /\ next \in {"locked", "refreshed", "paying"} /\ lock' = p /\ lock \in {None, p}
           \/ /\ next \notin {"locked", "refreshed", "paying"}
              /\ Unlock(p) \/ (lock' = lock /\ pc[p] \notin {"locked", "refreshed", "paying"})
    PROVE  Locked'
BY RequestAssumption DEF PayersTyped, Locked, Unlock

\* A cancellation takes the lock for its steps at Mengantar and gives it back after them.
LEMMA LockFollowsCanceller ==
    ASSUME CancellersTyped, Locked, NEW c \in Cancellers, NEW next, cpc' = [cpc EXCEPT ![c] = next],
           UNCHANGED pc,
           \/ /\ next \in {"locked", "cleared", "deleting", "deleted"}
              /\ lock' = c /\ lock \in {None, c}
           \/ /\ next \notin {"locked", "cleared", "deleting", "deleted"}
              /\ \/ Unlock(c)
                 \/ lock' = lock /\ cpc[c] \notin {"locked", "cleared", "deleting", "deleted"}
    PROVE  Locked'
BY RequestAssumption DEF CancellersTyped, Locked, Unlock

\* A cancellation that goes on, or ends, stays typed.
LEMMA CancellerGoesOn ==
    ASSUME CancellersTyped, NEW c \in Cancellers,
           \/ EndCancel(c)
           \/ cpc[c] # "idle" /\ \E next \in {"checked", "locked", "cleared", "deleting", "deleted"} :
                                    CancellerGoes(c, next)
    PROVE  CancellersTyped'
BY DEF CancellersTyped, CancellerGoes, EndCancel

\* What Mengantar does to an order keeps the types of its side.
LEMMA ChargeType ==
    ASSUME MengantarTyped, NEW s \in Shipments, Charge(s)
    PROVE  /\ real' \in [Shipments -> Reports \cup Gone \cup {"UNPAID"}]
           /\ reports' \in [Shipments -> Seq(Reports)]
           /\ paid' \in [Shipments -> Nat]
<1>1. paid' \in [Shipments -> Nat]
  BY DEF MengantarTyped, Charge
<1>2. "PENDING" \in Reports /\ <<"PENDING">> \in Seq(Reports)
  BY DEF Reports
<1>3. CASE real' = [real EXCEPT ![s] = "PENDING"] /\ reports' = [reports EXCEPT ![s] = <<"PENDING">>]
  BY <1>1, <1>2, <1>3 DEF MengantarTyped
<1>4. CASE UNCHANGED <<real, reports>>
  BY <1>1, <1>4 DEF MengantarTyped
<1> QED
  BY <1>3, <1>4 DEF Charge

\* A deletion keeps Mengantar's side typed.
LEMMA DeleteType ==
    ASSUME MengantarTyped, NEW s \in Shipments, Delete(s)
    PROVE  /\ real' \in [Shipments -> Reports \cup Gone \cup {"UNPAID"}]
           /\ reports' \in [Shipments -> Seq(Reports)]
           /\ paid' \in [Shipments -> Nat]
BY DEF MengantarTyped, Delete, Gone

\* A payment more, or one less, is on its way.
LEMMA LateType ==
    ASSUME MengantarTyped, NEW s \in Shipments
    PROVE  /\ [latePay EXCEPT ![s] = @ + 1] \in [Shipments -> Nat]
           /\ latePay[s] > 0 => [latePay EXCEPT ![s] = @ - 1] \in [Shipments -> Nat]
BY DEF MengantarTyped

-----------------------------------------------------------------------------
(* Type correctness *)

\* The steps of a recovery.
LEMMA PayerType ==
    ASSUME TypeOK, NEW p \in Payers, PayerStep(p)
    PROVE  TypeOK'
<1> USE DEF rows, observed, mengantar, payer, canceller, puller
<1>0. /\ RowsTyped /\ ObservedTyped /\ MengantarTyped
      /\ PayersTyped /\ CancellersTyped /\ PullersTyped /\ Locked
  BY TypeParts
<1>1. ASSUME UNCHANGED <<observed, canceller, puller>>,
             RowsTyped', MengantarTyped', PayersTyped', Locked'
      PROVE  TypeOK'
  BY <1>0, <1>1, TypeParts DEF ObservedTyped, CancellersTyped, PullersTyped
<1>2. UNCHANGED rows => RowsTyped'
  BY <1>0 DEF RowsTyped
<1>3. UNCHANGED mengantar => MengantarTyped'
  BY <1>0 DEF MengantarTyped
<1>4. ASSUME pc[p] \notin {"idle", "planned"} PROVE paying[p] \in Shipments
  BY <1>0, <1>4 DEF PayersTyped
<1>5. ASSUME NEW s \in Shipments, LoadRecoveryTarget(p, s) PROVE TypeOK'
  <2>1. PayersTyped'
    BY <1>0, <1>5, RequestAssumption DEF PayersTyped, LoadRecoveryTarget
  <2>2. Locked'
    BY <1>0, <1>5, LockFollowsPayer DEF LoadRecoveryTarget
  <2> QED
    BY <1>1, <1>2, <1>3, <1>5, <2>1, <2>2 DEF LoadRecoveryTarget
<1>6. ASSUME NEW s \in Shipments, ClaimUnpaidRecovery(p, s) PROVE TypeOK'
  <2>1. PayersTyped'
    BY <1>0, <1>6, RequestAssumption DEF PayersTyped, ClaimUnpaidRecovery
  <2>2. Locked'
    BY <1>0, <1>6, LockFollowsPayer DEF ClaimUnpaidRecovery
  <2>3. RowsTyped'
    BY <1>0, <1>6 DEF RowsTyped, ClaimUnpaidRecovery
  <2> QED
    BY <1>1, <1>3, <1>6, <2>1, <2>2, <2>3 DEF ClaimUnpaidRecovery
<1>7. ASSUME NEW s \in Shipments, RecoveryTaken(p, s) PROVE TypeOK'
  <2>1. PayersTyped'
    BY <1>0, <1>7 DEF PayersTyped, RecoveryTaken
  <2>2. Locked'
    BY <1>0, <1>7 DEF Locked, RecoveryTaken
  <2> QED
    BY <1>1, <1>2, <1>3, <1>7, <2>1, <2>2 DEF RecoveryTaken
<1>8. CASE PrepareUnpaidRecoveries(p)
  <2>1. PayersTyped'
    BY <1>0, <1>8 DEF PayersTyped, PrepareUnpaidRecoveries, Batchmates
  <2>2. Locked'
    BY <1>0, <1>8, LockFollowsPayer DEF PrepareUnpaidRecoveries
  <2>3. RowsTyped'
    BY <1>0, <1>8 DEF RowsTyped, PrepareUnpaidRecoveries
  <2> QED
    BY <1>1, <1>3, <1>8, <2>1, <2>2, <2>3 DEF PrepareUnpaidRecoveries
<1>9. CASE LockForPayment(p)
  <2>1. PayersTyped'
    BY <1>0, <1>9, PayerGoesOn DEF LockForPayment
  <2>2. Locked'
    BY <1>0, <1>9, LockFollowsPayer DEF LockForPayment, PayerGoes
  <2> QED
    BY <1>1, <1>2, <1>3, <1>9, <2>1, <2>2 DEF LockForPayment
<1>10. CASE RefreshUnpaidRecoveryClaim(p)
  <2>1. PayersTyped'
    BY <1>0, <1>10, PayerGoesOn DEF RefreshUnpaidRecoveryClaim
  <2>2. Locked'
    <3>1. lock = p /\ pc' = [pc EXCEPT ![p] = "refreshed"] /\ UNCHANGED <<lock, cpc>>
      BY <1>0, <1>10 DEF Locked, RefreshUnpaidRecoveryClaim, PayerGoes
    <3> QED
      BY <1>0, <3>1, LockFollowsPayer
  <2>3. RowsTyped'
    BY <1>0, <1>4, <1>10 DEF RowsTyped, RefreshUnpaidRecoveryClaim, ClaimHolds
  <2> QED
    BY <1>1, <1>3, <1>10, <2>1, <2>2, <2>3 DEF RefreshUnpaidRecoveryClaim
<1>11. CASE UnpaidRecoveryClaimLost(p)
  <2>1. PayersTyped'
    BY <1>0, <1>11, PayerPutsDown DEF UnpaidRecoveryClaimLost
  <2>2. Locked'
    BY <1>0, <1>11, LockFollowsPayer DEF UnpaidRecoveryClaimLost, NextRecovery
  <2> QED
    BY <1>1, <1>2, <1>3, <1>11, <2>1, <2>2 DEF UnpaidRecoveryClaimLost
<1>12. CASE FailBeforePayment(p) \/ PaymentRefused(p)
  <2>1. pc[p] \notin {"idle", "planned"} /\ PayerGoes(p, "unpaid") /\ Unlock(p)
        /\ UNCHANGED <<rows, observed, mengantar, canceller, puller>>
    BY <1>12 DEF FailBeforePayment, PaymentRefused
  <2>2. PayersTyped'
    BY <1>0, <2>1, PayerGoesOn
  <2>3. Locked'
    BY <1>0, <2>1, LockFollowsPayer DEF PayerGoes
  <2> QED
    BY <1>1, <1>2, <1>3, <2>1, <2>2, <2>3
<1>13. CASE PayUnpaid(p)
  <2>1. PayersTyped'
    BY <1>0, <1>13, PayerGoesOn DEF PayUnpaid
  <2>2. Locked'
    <3>1. lock = p /\ pc' = [pc EXCEPT ![p] = "paying"] /\ UNCHANGED <<lock, cpc>>
      BY <1>0, <1>13 DEF Locked, PayUnpaid, PayerGoes
    <3> QED
      BY <1>0, <3>1, LockFollowsPayer
  <2> QED
    BY <1>1, <1>2, <1>3, <1>13, <2>1, <2>2 DEF PayUnpaid
<1>14. CASE PaymentAccepted(p)
  <2>1. PayersTyped'
    BY <1>0, <1>14, PayerGoesOn DEF PaymentAccepted
  <2>2. Locked'
    BY <1>0, <1>14, LockFollowsPayer DEF PaymentAccepted, PayerGoes
  <2>3. MengantarTyped'
    BY <1>0, <1>4, <1>14, ChargeType DEF PaymentAccepted, MengantarTyped
  <2> QED
    BY <1>1, <1>2, <1>14, <2>1, <2>2, <2>3 DEF PaymentAccepted
<1>15. CASE PaymentAnswerLost(p)
  <2>0. /\ pc[p] = "paying" /\ paying[p] \in Shipments /\ UNCHANGED lateDelete
        /\ \/ Charge(paying[p]) /\ UNCHANGED latePay
           \/ UNCHANGED <<real, reports, paid, latePay>>
           \/ /\ latePay' = [latePay EXCEPT ![paying[p]] = @ + 1]
              /\ UNCHANGED <<real, reports, paid>>
    BY <1>4, <1>15 DEF PaymentAnswerLost
  <2>1. PayersTyped'
    BY <1>0, <1>15, PayerGoesOn DEF PaymentAnswerLost
  <2>2. Locked'
    BY <1>0, <1>15, LockFollowsPayer DEF PaymentAnswerLost, PayerGoes
  <2>3. MengantarTyped'
    <3>1. CASE Charge(paying[p]) /\ UNCHANGED latePay
      BY <1>0, <2>0, <3>1, ChargeType DEF MengantarTyped
    <3>2. CASE UNCHANGED <<real, reports, paid, latePay>>
      BY <1>0, <2>0, <3>2 DEF MengantarTyped
    <3>3. CASE latePay' = [latePay EXCEPT ![paying[p]] = @ + 1] /\ UNCHANGED <<real, reports, paid>>
      BY <1>0, <2>0, <3>3, LateType DEF MengantarTyped
    <3> QED
      BY <2>0, <3>1, <3>2, <3>3
  <2> QED
    BY <1>1, <1>2, <1>15, <2>1, <2>2, <2>3 DEF PaymentAnswerLost
<1>16. CASE CompleteUnpaidRecovery(p)
  <2>1. PayersTyped'
    BY <1>0, <1>16, PayerPutsDown DEF CompleteUnpaidRecovery
  <2>2. Locked'
    BY <1>0, <1>16, LockFollowsPayer DEF CompleteUnpaidRecovery, NextRecovery
  <2>3. RowsTyped'
    <3>1. paying[p] \in Shipments /\ recovery[paying[p]] = "PAYING"
      BY <1>4, <1>16 DEF CompleteUnpaidRecovery
    <3>2. /\ order' = [order EXCEPT ![paying[p]] = "ISSUED"]
          /\ shipment' = [shipment EXCEPT ![paying[p]] = "ISSUED"]
          /\ recovery' = [recovery EXCEPT ![paying[p]] = "COMPLETED"]
          /\ booked' = booked \cup {paying[p]} /\ UNCHANGED <<clock, reversed>>
      BY <1>16 DEF CompleteUnpaidRecovery
    <3> QED
      BY <1>0, <3>1, <3>2 DEF RowsTyped, Life
  <2> QED
    BY <1>1, <1>3, <1>16, <2>1, <2>2, <2>3 DEF CompleteUnpaidRecovery
<1>17. CASE CompletionFails(p) \/ PaymentNotReleased(p)
  <2>1. /\ pc[p] \in {"answered", "unpaid"} /\ PayerGoes(p, "uncertain")
        /\ UNCHANGED <<rows, observed, lock, mengantar, canceller, puller>>
    BY <1>17 DEF CompletionFails, PaymentNotReleased
  <2>2. PayersTyped'
    BY <1>0, <2>1, PayerGoesOn
  <2>3. Locked'
    BY <1>0, <2>1, LockFollowsPayer DEF PayerGoes
  <2> QED
    BY <1>1, <1>2, <1>3, <2>1, <2>2, <2>3
<1>18. CASE ReleaseUnpaidRecoveryClaim(p)
  <2>1. PayersTyped'
    BY <1>0, <1>18, PayerPutsDown DEF ReleaseUnpaidRecoveryClaim
  <2>2. Locked'
    BY <1>0, <1>18, LockFollowsPayer DEF ReleaseUnpaidRecoveryClaim, NextRecovery
  <2>3. RowsTyped'
    BY <1>0, <1>18 DEF RowsTyped, ReleaseUnpaidRecoveryClaim
  <2> QED
    BY <1>1, <1>3, <1>18, <2>1, <2>2, <2>3 DEF ReleaseUnpaidRecoveryClaim
<1>19. CASE MarkUnpaidRecoveryUnknown(p)
  <2>1. PayersTyped'
    BY <1>0, <1>19, PayerPutsDown DEF MarkUnpaidRecoveryUnknown
  <2>2. Locked'
    BY <1>0, <1>19, LockFollowsPayer DEF MarkUnpaidRecoveryUnknown, NextRecovery
  <2>3. RowsTyped'
    BY <1>0, <1>19 DEF RowsTyped, MarkUnpaidRecoveryUnknown
  <2> QED
    BY <1>1, <1>3, <1>19, <2>1, <2>2, <2>3 DEF MarkUnpaidRecoveryUnknown
<1>20. CASE PaymentEnds(p)
  <2>1. /\ pc[p] \in {"loaded", "planned", "uncertain"} /\ EndPayment(p)
        /\ UNCHANGED <<rows, observed, lock, mengantar, canceller, puller>>
    BY <1>20 DEF PaymentEnds
  <2>2. PayersTyped'
    BY <1>0, <2>1, PayerPutsDown
  <2>3. Locked'
    BY <1>0, <2>1, LockFollowsPayer DEF EndPayment
  <2> QED
    BY <1>1, <1>2, <1>3, <2>1, <2>2, <2>3
<1>21. CASE PayerCrashes(p)
  <2>1. PayersTyped'
    BY <1>0, <1>21, PayerPutsDown DEF PayerCrashes
  <2>2. Locked'
    BY <1>0, <1>21, LockFollowsPayer DEF PayerCrashes, EndPayment
  <2>3. MengantarTyped'
    BY <1>0, <1>4, <1>21, LateType DEF PayerCrashes, MengantarTyped
  <2> QED
    BY <1>1, <1>2, <1>21, <2>1, <2>2, <2>3 DEF PayerCrashes
<1> QED
  BY <1>5, <1>6, <1>7, <1>8, <1>9, <1>10, <1>11, <1>12, <1>13, <1>14, <1>15, <1>16, <1>17,
     <1>18, <1>19, <1>20, <1>21 DEF PayerStep

\* The steps of a cancellation.
LEMMA CancellerType ==
    ASSUME TypeOK, NEW c \in Cancellers, CancellerStep(c)
    PROVE  TypeOK'
<1> USE DEF rows, observed, mengantar, payer, canceller, puller
<1>0. /\ RowsTyped /\ ObservedTyped /\ MengantarTyped
      /\ PayersTyped /\ CancellersTyped /\ PullersTyped /\ Locked
  BY TypeParts
<1>1. ASSUME UNCHANGED <<observed, payer, puller>>,
             RowsTyped', MengantarTyped', CancellersTyped', Locked'
      PROVE  TypeOK'
  BY <1>0, <1>1, TypeParts DEF ObservedTyped, PayersTyped, PullersTyped
<1>2. UNCHANGED rows => RowsTyped'
  BY <1>0 DEF RowsTyped
<1>3. UNCHANGED mengantar => MengantarTyped'
  BY <1>0 DEF MengantarTyped
<1>4. cpc[c] # "idle" => victim[c] \in Shipments
  BY <1>0 DEF CancellersTyped
\* A canceller that holds the lock goes on with it.
<1>5. ASSUME NEW next \in {"cleared", "deleting", "deleted"},
             cpc[c] \in {"locked", "cleared", "deleting"}, CancellerGoes(c, next),
             UNCHANGED <<rows, observed, lock, payer, puller>>, MengantarTyped'
      PROVE  TypeOK'
  <2>1. CancellersTyped'
    BY <1>0, <1>5, CancellerGoesOn
  <2>2. lock = c
    BY <1>0, <1>5 DEF Locked
  <2>3. Locked'
    BY <1>0, <1>5, <2>2, LockFollowsCanceller DEF CancellerGoes
  <2> QED
    BY <1>1, <1>2, <1>5, <2>1, <2>3
\* A canceller ends and gives the lock back.
<1>6. ASSUME EndCancel(c), Unlock(c), UNCHANGED <<observed, payer, puller>>,
             RowsTyped', MengantarTyped'
      PROVE  TypeOK'
  <2>1. CancellersTyped'
    BY <1>0, <1>6, CancellerGoesOn
  <2>2. Locked'
    BY <1>0, <1>6, LockFollowsCanceller DEF EndCancel
  <2> QED
    BY <1>1, <1>6, <2>1, <2>2
<1>7. ASSUME NEW s \in Shipments, CheckCancel(c, s) PROVE TypeOK'
  <2>1. CancellersTyped'
    BY <1>0, <1>7, RequestAssumption DEF CancellersTyped, CheckCancel
  <2>2. Locked'
    BY <1>0, <1>7, LockFollowsCanceller DEF CheckCancel
  <2> QED
    BY <1>1, <1>2, <1>3, <1>7, <2>1, <2>2 DEF CheckCancel
<1>8. CASE LockForCancel(c)
  <2>1. CancellersTyped'
    BY <1>0, <1>8, CancellerGoesOn DEF LockForCancel
  <2>2. Locked'
    BY <1>0, <1>8, LockFollowsCanceller DEF LockForCancel, CancellerGoes
  <2> QED
    BY <1>1, <1>2, <1>3, <1>8, <2>1, <2>2 DEF LockForCancel
<1>9. CASE RecheckCancel(c) \/ DeleteOrder(c)
  BY <1>3, <1>5, <1>9 DEF RecheckCancel, DeleteOrder
<1>10. CASE OrderDeleted(c)
  <2>1. MengantarTyped'
    BY <1>0, <1>4, <1>10, DeleteType DEF OrderDeleted, MengantarTyped
  <2> QED
    BY <1>5, <1>10, <2>1 DEF OrderDeleted
<1>11. CASE CancelNotAllowed(c) \/ OrderSkipped(c) \/ DeleteRefused(c) \/ NotRecorded(c)
  BY <1>2, <1>3, <1>6, <1>11 DEF CancelNotAllowed, OrderSkipped, DeleteRefused, NotRecorded
<1>12. CASE DeleteAnswerLost(c)
  <2>0. /\ victim[c] \in Shipments /\ UNCHANGED latePay
        /\ \/ Delete(victim[c]) /\ UNCHANGED lateDelete
           \/ UNCHANGED <<real, reports, paid, lateDelete>>
           \/ lateDelete' = lateDelete \cup {victim[c]} /\ UNCHANGED <<real, reports, paid>>
    BY <1>4, <1>12 DEF DeleteAnswerLost
  <2>1. MengantarTyped'
    <3>1. CASE Delete(victim[c]) /\ UNCHANGED lateDelete
      BY <1>0, <2>0, <3>1, DeleteType DEF MengantarTyped
    <3>2. CASE lateDelete' \in {lateDelete, lateDelete \cup {victim[c]}}
               /\ UNCHANGED <<real, reports, paid>>
      BY <1>0, <2>0, <3>2 DEF MengantarTyped
    <3> QED
      BY <2>0, <3>1, <3>2
  <2> QED
    BY <1>2, <1>6, <1>12, <2>1 DEF DeleteAnswerLost
<1>13. CASE RecordShipmentCancelled(c)
  <2>1. RowsTyped'
    <3>1. /\ UNCHANGED <<order, recovery, clock, booked>>
          /\ shipment' \in {shipment, [shipment EXCEPT ![victim[c]] = "CANCELLED"]}
          /\ reversed' \in {reversed, reversed \cup Reversible({victim[c]})}
      BY <1>13 DEF RecordShipmentCancelled
    <3>2. Reversible({victim[c]}) \subseteq booked
      BY DEF Reversible
    <3> QED
      BY <1>0, <3>1, <3>2 DEF RowsTyped, Life
  <2> QED
    BY <1>3, <1>6, <1>13, <2>1 DEF RecordShipmentCancelled
<1>14. CASE CancellerCrashes(c)
  <2>1. MengantarTyped'
    BY <1>0, <1>4, <1>14 DEF CancellerCrashes, MengantarTyped
  <2> QED
    BY <1>2, <1>6, <1>14, <2>1 DEF CancellerCrashes
<1> QED
  BY <1>7, <1>8, <1>9, <1>10, <1>11, <1>12, <1>13, <1>14 DEF CancellerStep

\* The steps of a pull.
LEMMA PullerType ==
    ASSUME TypeOK, NEW q \in Pullers, PullerStep(q)
    PROVE  TypeOK'
<1> USE DEF rows, observed, mengantar, payer, canceller, puller
<1>0. /\ RowsTyped /\ ObservedTyped /\ MengantarTyped
      /\ PayersTyped /\ CancellersTyped /\ PullersTyped /\ Locked
  BY TypeParts
<1>1. ASSUME UNCHANGED <<heard, lock, mengantar, payer, canceller>>,
             RowsTyped', pastPickup' \in [Shipments -> BOOLEAN], PullersTyped'
      PROVE  TypeOK'
  BY <1>0, <1>1, TypeParts DEF ObservedTyped, MengantarTyped, PayersTyped, CancellersTyped, Locked
<1>2. UNCHANGED rows => RowsTyped'
  BY <1>0 DEF RowsTyped
<1>3. EndPull(q) => PullersTyped'
  BY <1>0 DEF PullersTyped, EndPull
<1>4. CASE ListOrders(q)
  <2>1. ASSUME NEW s \in Shipments
        PROVE  (IF real[s] \in {"UNPAID", "UNPAID_GONE"} THEN "ABSENT" ELSE real[s])
                  \in Reports \cup {"DELETED", "ABSENT"}
    BY <1>0 DEF MengantarTyped, Gone, Reports
  <2>2. PullersTyped'
    BY <1>0, <1>4, <2>1 DEF PullersTyped, ListOrders
  <2> QED
    BY <1>0, <1>1, <1>2, <1>4, <2>2 DEF ListOrders, ObservedTyped
<1>5. CASE AbandonPull(q)
  BY <1>0, <1>1, <1>2, <1>3, <1>5 DEF AbandonPull, ObservedTyped
<1>6. CASE RecordProviderSettlementPull(q)
  <2>1. \A s \in Shipments : PullMoves(q, s) \in Life
    BY <1>0, PullMove DEF RowsTyped
  <2>2. \A s \in Shipments : PullSeesPickup(q, s) \in BOOLEAN
    BY <1>0 DEF PullSeesPickup, ObservedTyped
  <2>3. Reversible(ToReverse(q)) \subseteq booked
    BY DEF Reversible
  <2>4. RowsTyped'
    BY <1>0, <1>6, <2>1, <2>3 DEF RowsTyped, RecordProviderSettlementPull
  <2>5. pastPickup' \in [Shipments -> BOOLEAN]
    BY <1>6, <2>2 DEF RecordProviderSettlementPull
  <2> QED
    BY <1>1, <1>3, <1>6, <2>4, <2>5 DEF RecordProviderSettlementPull
<1> QED
  BY <1>4, <1>5, <1>6 DEF PullerStep

\* Mengantar, the clock, the stale check and the webhook.
LEMMA WorldType ==
    ASSUME TypeOK, NEW s \in Shipments,
           \/ MengantarStep(s) \/ RecoveryClaimAges(s) \/ MarkStaleUnpaidRecoveryUnknown(s)
           \/ \E i \in DOMAIN reports[s] : RecordMengantarWebhookEvent(s, i)
    PROVE  TypeOK'
<1> USE DEF rows, observed, mengantar, payer, canceller, puller
<1>0. /\ RowsTyped /\ ObservedTyped /\ MengantarTyped
      /\ PayersTyped /\ CancellersTyped /\ PullersTyped /\ Locked
  BY TypeParts
<1>1. ASSUME UNCHANGED <<lock, payer, canceller, puller>>,
             RowsTyped', ObservedTyped', MengantarTyped'
      PROVE  TypeOK'
  BY <1>0, <1>1, TypeParts DEF PayersTyped, CancellersTyped, PullersTyped, Locked
<1>2. ASSUME UNCHANGED <<rows, observed, lock, payer, canceller, puller>>, MengantarTyped'
      PROVE  TypeOK'
  BY <1>0, <1>1, <1>2 DEF RowsTyped, ObservedTyped
<1>3. CASE CourierMoves(s)
  <2>1. PICK status \in Journey(real[s]) :
           /\ real' = [real EXCEPT ![s] = status]
           /\ reports' = [reports EXCEPT ![s] = Append(@, status)]
    BY <1>3 DEF CourierMoves
  <2>2. status \in Reports
    BY <2>1 DEF Journey, Reports
  <2>3. MengantarTyped'
    BY <1>0, <1>3, <2>1, <2>2 DEF MengantarTyped, CourierMoves
  <2> QED
    BY <1>2, <1>3, <2>3 DEF CourierMoves
<1>4. CASE UnpaidOrderLapses(s)
  <2>1. MengantarTyped'
    BY <1>0, <1>4 DEF MengantarTyped, UnpaidOrderLapses, Gone
  <2> QED
    BY <1>2, <1>4, <2>1 DEF UnpaidOrderLapses
<1>5. CASE LatePaymentLands(s)
  <2>1. MengantarTyped'
    BY <1>0, <1>5, ChargeType, LateType DEF MengantarTyped, LatePaymentLands
  <2> QED
    BY <1>2, <1>5, <2>1 DEF LatePaymentLands
<1>6. CASE LatePaymentDropped(s)
  <2>1. MengantarTyped'
    BY <1>0, <1>6, LateType DEF MengantarTyped, LatePaymentDropped
  <2> QED
    BY <1>2, <1>6, <2>1 DEF LatePaymentDropped
<1>7. CASE LateDeleteLands(s)
  <2>1. MengantarTyped'
    BY <1>0, <1>7, DeleteType DEF MengantarTyped, LateDeleteLands
  <2> QED
    BY <1>2, <1>7, <2>1 DEF LateDeleteLands
<1>8. CASE LateDeleteDropped(s)
  <2>1. MengantarTyped'
    BY <1>0, <1>8 DEF MengantarTyped, LateDeleteDropped
  <2> QED
    BY <1>2, <1>8, <2>1 DEF LateDeleteDropped
<1>9. CASE RecoveryClaimAges(s) \/ MarkStaleUnpaidRecoveryUnknown(s)
  <2>1. RowsTyped'
    BY <1>0, <1>9 DEF RowsTyped, RecoveryClaimAges, MarkStaleUnpaidRecoveryUnknown
  <2> QED
    BY <1>0, <1>1, <1>9, <2>1
    DEF RecoveryClaimAges, MarkStaleUnpaidRecoveryUnknown, ObservedTyped, MengantarTyped
<1>10. ASSUME NEW i \in DOMAIN reports[s], RecordMengantarWebhookEvent(s, i) PROVE TypeOK'
  <2>1. i \in Nat \ {0}
    BY <1>0 DEF MengantarTyped
  <2>2. RowsTyped'
    BY <1>0, <1>10, WebhookMove DEF RowsTyped, RecordMengantarWebhookEvent
  <2>3. ObservedTyped'
    BY <1>0, <1>10, <2>1 DEF ObservedTyped, RecordMengantarWebhookEvent
  <2> QED
    BY <1>0, <1>1, <1>10, <2>2, <2>3 DEF RecordMengantarWebhookEvent, MengantarTyped
<1> QED
  BY <1>3, <1>4, <1>5, <1>6, <1>7, <1>8, <1>9, <1>10 DEF MengantarStep

\* Every row, lock, order, request and listing keeps its type, and the lock is held by
\* who talks to Mengantar, whatever the number of shipments and requests.
LEMMA TypeStep == TypeOK /\ [Next]_vars => TypeOK'
<1> SUFFICES ASSUME TypeOK, [Next]_vars PROVE TypeOK'
  OBVIOUS
<1>1. CASE UNCHANGED vars
  BY <1>1 DEF TypeOK, vars, rows, observed, mengantar, payer, canceller, puller
<1> QED
  BY <1>1, PayerType, CancellerType, PullerType, WorldType DEF Next

\* Rows, requests and Mengantar's side keep their types, and the lock is with whoever works
\* under it, for any number of shipments, recoveries, cancellations and pulls.
THEOREM PaymentTypeCorrect == Spec => []TypeOK
<1>1. Init => TypeOK
  <2> SUFFICES ASSUME Init PROVE TypeOK
    OBVIOUS
  <2>1. RowsTyped /\ ObservedTyped
    BY OrderAssumption DEF Init, RowsTyped, ObservedTyped, Life
  <2>2. MengantarTyped
    <3>1. "PENDING" \in Reports /\ <<"PENDING">> \in Seq(Reports) /\ <<>> \in Seq(Reports)
      BY DEF Reports
    <3> QED
      BY <3>1 DEF Init, MengantarTyped
  <2>3. PayersTyped /\ CancellersTyped /\ PullersTyped /\ Locked
    BY RequestAssumption DEF Init, PayersTyped, CancellersTyped, PullersTyped, Locked
  <2> QED
    BY <2>1, <2>2, <2>3, TypeParts
<1> QED
  BY <1>1, TypeStep, PTL DEF Spec

-----------------------------------------------------------------------------
(* Payments *)

\* The order in a payer's hand is a shipment; nobody cancels while it is being paid.
LEMMA InHand ==
    ASSUME TypeOK, NEW p \in Payers
    PROVE  /\ pc[p] \notin {"idle", "planned"} => paying[p] \in Shipments
           /\ pc[p] \in {"refreshed", "paying"} =>
                 \A c \in Cancellers : cpc[c] \notin {"cleared", "deleting", "deleted"}
BY RequestAssumption DEF TypeOK

\* What one shipment of a paid, or never paid, order says of its money.
LEMMA IssuedIsPaid ==
    ASSUME TypeOK, PaymentInv, NEW s \in Shipments, order[s] = "ISSUED"
    PROVE  /\ PaidIsIssued(s)
           /\ \A p \in Payers : Claiming(p) => paying[p] # s
<1>1. RecoverySound(s) /\ paid[s] \in Nat /\ latePay[s] \in Nat
  BY DEF TypeOK, PaymentInv
<1>2. recovery[s] \in {"NONE", "COMPLETED"} /\ paid[s] + latePay[s] <= 1
  BY <1>1 DEF RecoverySound
<1>3. latePay[s] = 0
  BY <1>1, <1>2 DEF RecoverySound, Unsent
<1> QED
  BY <1>2, <1>3 DEF PaidIsIssued, PaymentInv, ClaimSound

\* A payer moves and spends nothing; what it claims it claimed before.
LEMMA PayerSpendsNothing ==
    ASSUME TypeOK, PaymentInv, NEW p \in Payers,
           UNCHANGED <<shipment, order, recovery, paid, latePay, canceller>>,
           \A v \in Payers \ {p} : pc'[v] = pc[v] /\ paying'[v] = paying[v],
           Claiming(p)' =>
              /\ Claiming(p) /\ paying'[p] = paying[p]
              /\ pc[p] \in {"answered", "uncertain"} => pc'[p] \in {"answered", "uncertain"}
              /\ pc'[p] = "answered" => pc[p] = "answered"
              /\ pc'[p] \in {"refreshed", "paying"} =>
                    shipment[paying[p]] = "AWAITING_UPSTREAM_PAYMENT"
    PROVE  PaymentInv'
<1> USE DEF canceller
<1>1. \A s \in Shipments : RecoverySound(s)'
  BY DEF PaymentInv, RecoverySound, Unsent, PaidIsIssued
<1>2. \A c \in Cancellers :
         (cpc[c] \in {"cleared", "deleting", "deleted"} => PaidIsIssued(victim[c]))'
  BY DEF PaymentInv, PaidIsIssued
<1>3. ClaimSound(p)'
  <2>1. ClaimSound(p)
    BY DEF PaymentInv
  <2> QED
    BY <2>1 DEF ClaimSound, Claiming, Unsent
<1>4. ASSUME NEW v \in Payers \ {p} PROVE ClaimSound(v)'
  <2>1. ClaimSound(v) /\ (Claiming(v)' <=> Claiming(v)) /\ pc'[v] = pc[v] /\ paying'[v] = paying[v]
    BY DEF PaymentInv, Claiming
  <2>2. \A u \in Payers \ {v} : Claiming(u)' => Claiming(u) /\ paying'[u] = paying[u]
    BY DEF Claiming
  <2> QED
    BY <2>1, <2>2 DEF ClaimSound, Unsent
<1> QED
  BY <1>1, <1>2, <1>3, <1>4 DEF PaymentInv

\* The payment a payer has in flight is charged, or may be charged later: once.
LEMMA PayerSpends ==
    ASSUME TypeOK, PaymentInv, NEW p \in Payers, pc[p] = "paying",
           \/ paid' = [paid EXCEPT ![paying[p]] = @ + 1] /\ latePay' = latePay
           \/ /\ latePay' = [latePay EXCEPT ![paying[p]] = @ + 1] /\ paid' = paid
              /\ pc'[p] # "answered",
           pc'[p] \in {"answered", "uncertain", "idle"},
           pc'[p] # "idle" => paying'[p] = paying[p],
           \A v \in Payers \ {p} : pc'[v] = pc[v] /\ paying'[v] = paying[v],
           UNCHANGED <<shipment, order, recovery, canceller>>
    PROVE  PaymentInv'
<1> USE DEF canceller
<1>0. PICK s \in Shipments : s = paying[p]
  BY InHand
<1>1. Claiming(p) /\ ClaimSound(p) /\ RecoverySound(s)
  BY <1>0 DEF PaymentInv, Claiming
<1>2. /\ paid[s] = 0 /\ latePay[s] = 0 /\ shipment[s] = "AWAITING_UPSTREAM_PAYMENT"
      /\ recovery[s] \in {"PAYING", "PAYMENT_UNKNOWN"}
      /\ \A v \in Payers \ {p} : Claiming(v) => paying[v] # s
  BY <1>0, <1>1 DEF ClaimSound, Unsent
<1>3. /\ \/ paid'[s] = 1 /\ latePay'[s] = 0
         \/ paid'[s] = 0 /\ latePay'[s] = 1 /\ pc'[p] # "answered"
      /\ \A t \in Shipments \ {s} : paid'[t] = paid[t] /\ latePay'[t] = latePay[t]
  BY <1>0, <1>2, TypeParts DEF MengantarTyped
<1>4. RecoverySound(s)'
  BY <1>1, <1>2, <1>3 DEF RecoverySound, Unsent
<1>5. \A t \in Shipments \ {s} : RecoverySound(t)'
  BY <1>3 DEF PaymentInv, RecoverySound, Unsent, PaidIsIssued
<1>6. ClaimSound(p)'
  BY <1>0, <1>1, <1>2, <1>3 DEF ClaimSound, Claiming
<1>7. ASSUME NEW v \in Payers \ {p} PROVE ClaimSound(v)'
  <2>1. ClaimSound(v) /\ (Claiming(v)' <=> Claiming(v)) /\ pc'[v] = pc[v] /\ paying'[v] = paying[v]
    BY DEF PaymentInv, Claiming
  <2>2. \A u \in Payers \ {v} : Claiming(u)' => Claiming(u) /\ paying'[u] = paying[u]
    BY <1>0, <1>1 DEF Claiming
  <2>3. Claiming(v) => paying[v] \in Shipments \ {s}
    BY <1>2, InHand DEF Claiming
  <2> QED
    BY <1>3, <2>1, <2>2, <2>3 DEF ClaimSound, Unsent
<1>8. \A c \in Cancellers : cpc'[c] \notin {"cleared", "deleting", "deleted"}
  BY InHand
<1>9. \A t \in Shipments : RecoverySound(t)'
  BY <1>4, <1>5
<1>10. \A v \in Payers : ClaimSound(v)'
  BY <1>6, <1>7
<1> QED
  BY <1>8, <1>9, <1>10 DEF PaymentInv

\* A charge takes one payment more.
LEMMA ChargeOnce ==
    ASSUME NEW s, Charge(s) PROVE paid' = [paid EXCEPT ![s] = @ + 1]
BY DEF Charge

\* A recovery pays once, under the only claim, and says on the row what it cost.
LEMMA PayerKeeps ==
    ASSUME TypeOK, PaymentInv, NEW p \in Payers, PayerStep(p)
    PROVE  PaymentInv'
<1> USE DEF rows, mengantar, canceller
<1>0. PayersTyped /\ MengantarTyped /\ RowsTyped
  BY TypeParts
<1>1. ASSUME NEW s \in Shipments, LoadRecoveryTarget(p, s) \/ RecoveryTaken(p, s)
      PROVE  PaymentInv'
  <2>1. /\ UNCHANGED <<shipment, order, recovery, paid, latePay, canceller>>
        /\ \A v \in Payers \ {p} : pc'[v] = pc[v] /\ paying'[v] = paying[v]
        /\ pc'[p] \in {"loaded", "planned"}
    BY <1>0, <1>1 DEF PayersTyped, LoadRecoveryTarget, RecoveryTaken
  <2>2. ~Claiming(p)'
    BY <2>1 DEF Claiming
  <2> QED
    BY <2>1, <2>2, PayerSpendsNothing
<1>2. CASE UnpaidRecoveryClaimLost(p) \/ PaymentEnds(p) \/ (PayerCrashes(p) /\ pc[p] # "paying")
  <2>1. /\ NextRecovery(p) \/ EndPayment(p)
        /\ UNCHANGED <<shipment, order, recovery, paid, latePay, canceller>>
    BY <1>2 DEF UnpaidRecoveryClaimLost, PaymentEnds, PayerCrashes
  <2>2. /\ \A v \in Payers \ {p} : pc'[v] = pc[v] /\ paying'[v] = paying[v]
        /\ pc'[p] \in {"idle", "planned"}
    BY <1>0, <2>1 DEF PayersTyped, NextRecovery, EndPayment
  <2>3. ~Claiming(p)'
    BY <2>2 DEF Claiming
  <2> QED
    BY <2>1, <2>2, <2>3, PayerSpendsNothing
<1>3. CASE LockForPayment(p) \/ FailBeforePayment(p) \/ PayUnpaid(p) \/ PaymentRefused(p)
           \/ CompletionFails(p) \/ PaymentNotReleased(p)
  <2>1. \E next \in {"locked", "unpaid", "paying", "uncertain"} :
           /\ PayerGoes(p, next) /\ Claiming(p)
           /\ next # "uncertain" => pc[p] \notin {"answered", "uncertain"}
           /\ next = "paying" => pc[p] = "refreshed"
    BY <1>3 DEF LockForPayment, FailBeforePayment, PayUnpaid, PaymentRefused,
       CompletionFails, PaymentNotReleased, Claiming
  <2>2. UNCHANGED <<shipment, order, recovery, paid, latePay, canceller>>
    BY <1>3 DEF LockForPayment, FailBeforePayment, PayUnpaid, PaymentRefused,
       CompletionFails, PaymentNotReleased
  <2>3. pc[p] = "refreshed" => shipment[paying[p]] = "AWAITING_UPSTREAM_PAYMENT"
    BY DEF PaymentInv, ClaimSound, Claiming
  <2> QED
    <3>1. PICK next \in {"locked", "unpaid", "paying", "uncertain"} :
             /\ PayerGoes(p, next) /\ Claiming(p)
             /\ next # "uncertain" => pc[p] \notin {"answered", "uncertain"}
             /\ next = "paying" => pc[p] = "refreshed"
      BY <2>1
    <3>2. /\ pc'[p] = next /\ paying' = paying
          /\ \A v \in Payers \ {p} : pc'[v] = pc[v] /\ paying'[v] = paying[v]
      BY <1>0, <3>1 DEF PayersTyped, PayerGoes
    <3> QED
      BY <2>2, <2>3, <3>1, <3>2, PayerSpendsNothing
<1>4. CASE RefreshUnpaidRecoveryClaim(p)
  <2>1. /\ pc[p] = "locked" /\ PayerGoes(p, "refreshed")
        /\ shipment[paying[p]] = "AWAITING_UPSTREAM_PAYMENT"
        /\ UNCHANGED <<shipment, order, recovery, paid, latePay, canceller>>
    BY <1>4 DEF RefreshUnpaidRecoveryClaim, ClaimHolds
  <2> QED
    <3>1. /\ pc'[p] = "refreshed" /\ paying' = paying /\ Claiming(p)
          /\ \A v \in Payers \ {p} : pc'[v] = pc[v] /\ paying'[v] = paying[v]
      BY <1>0, <2>1 DEF PayersTyped, PayerGoes, Claiming
    <3> QED
      BY <2>1, <3>1, PayerSpendsNothing
<1>5. CASE PaymentAccepted(p)
  <2>1. /\ pc'[p] = "answered" /\ paying' = paying /\ pc[p] = "paying"
        /\ \A v \in Payers \ {p} : pc'[v] = pc[v] /\ paying'[v] = paying[v]
    BY <1>0, <1>5 DEF PayersTyped, PaymentAccepted, PayerGoes
  <2> QED
    BY <1>5, <2>1, ChargeOnce, PayerSpends DEF PaymentAccepted
<1>6. CASE PaymentAnswerLost(p)
  <2>1. /\ pc[p] = "paying" /\ pc' = [pc EXCEPT ![p] = "uncertain"] /\ paying' = paying
        /\ UNCHANGED <<shipment, order, recovery, canceller>>
    BY <1>6 DEF PaymentAnswerLost, PayerGoes
  <2>0. /\ pc'[p] = "uncertain" /\ Claiming(p)
        /\ \A v \in Payers \ {p} : pc'[v] = pc[v] /\ paying'[v] = paying[v]
    BY <1>0, <2>1 DEF PayersTyped, Claiming
  <2>2. CASE UNCHANGED <<paid, latePay>>
    BY <2>0, <2>1, <2>2, PayerSpendsNothing
  <2>3. CASE \/ paid' = [paid EXCEPT ![paying[p]] = @ + 1] /\ latePay' = latePay
             \/ latePay' = [latePay EXCEPT ![paying[p]] = @ + 1] /\ paid' = paid
    BY <2>0, <2>1, <2>3, PayerSpends
  <2> QED
    BY <1>6, <2>2, <2>3, ChargeOnce DEF PaymentAnswerLost
<1>7. CASE PayerCrashes(p) /\ pc[p] = "paying"
  <2>1. /\ pc'[p] = "idle"
        /\ \A v \in Payers \ {p} : pc'[v] = pc[v] /\ paying'[v] = paying[v]
    BY <1>0, <1>7 DEF PayersTyped, PayerCrashes, EndPayment
  <2> QED
    BY <1>7, <2>1, PayerSpends DEF PayerCrashes
\* The recoveries of a batch are prepared.
<1>8. CASE PrepareUnpaidRecoveries(p)
  <2>1. /\ pc' = [pc EXCEPT ![p] = "planned"] /\ pc[p] = "loaded"
        /\ paying' = [paying EXCEPT ![p] = None]
        /\ UNCHANGED <<shipment, order, paid, latePay, canceller>>
    BY <1>8 DEF PrepareUnpaidRecoveries
  <2>2. \A t \in Shipments :
           \/ recovery'[t] = recovery[t]
           \/ recovery[t] = "NONE" /\ recovery'[t] = "PAYMENT_QUEUED" /\ order[t] # "ISSUED"
    BY <1>8 DEF PrepareUnpaidRecoveries, Awaiting
  <2>3. \A t \in Shipments : RecoverySound(t)'
    BY <2>1, <2>2 DEF PaymentInv, RecoverySound, Unsent, PaidIsIssued
  <2>4. \A v \in Payers : Claiming(v)' => v # p /\ Claiming(v) /\ pc'[v] = pc[v] /\ paying'[v] = paying[v]
    BY <2>1 DEF TypeOK, Claiming
  <2>5. \A v \in Payers : Claiming(v) => recovery'[paying[v]] = recovery[paying[v]]
    BY <2>2, InHand DEF PaymentInv, ClaimSound, Claiming
  <2>6. \A v \in Payers : ClaimSound(v)'
    BY <2>1, <2>4, <2>5 DEF PaymentInv, ClaimSound, Unsent
  <2> QED
    BY <2>1, <2>3, <2>6 DEF PaymentInv, PaidIsIssued
<1>9. ASSUME NEW s \in Shipments, ClaimUnpaidRecovery(p, s) PROVE PaymentInv'
  <2>1. /\ pc[p] = "planned" /\ pc' = [pc EXCEPT ![p] = "claimed"]
        /\ paying' = [paying EXCEPT ![p] = s]
        /\ recovery[s] = "PAYMENT_QUEUED" /\ recovery' = [recovery EXCEPT ![s] = "PAYING"]
        /\ UNCHANGED <<shipment, order, paid, latePay, canceller>>
    BY <1>9 DEF ClaimUnpaidRecovery
  <2>2. \A t \in Shipments : RecoverySound(t)'
    BY <1>0, <2>1 DEF RowsTyped, PaymentInv, RecoverySound, Unsent, PaidIsIssued
  <2>3. \A v \in Payers \ {p} : pc'[v] = pc[v] /\ paying'[v] = paying[v]
    BY <2>1 DEF TypeOK
  <2>4. pc'[p] = "claimed" /\ paying'[p] = s /\ recovery'[s] = "PAYING"
    BY <2>1 DEF TypeOK
  <2>5. \A v \in Payers : Claiming(v) => paying[v] \in Shipments /\ paying[v] # s
    BY <2>1, InHand DEF PaymentInv, ClaimSound, Claiming
  <2>6. Unsent(s)
    BY <2>1 DEF PaymentInv, RecoverySound
  <2>7. ClaimSound(p)'
    BY <2>1, <2>3, <2>4, <2>5, <2>6 DEF ClaimSound, Claiming, Unsent
  <2>8. ASSUME NEW v \in Payers \ {p} PROVE ClaimSound(v)'
    <3>1. ClaimSound(v)
      BY DEF PaymentInv
    <3>2. Claiming(v) => recovery'[paying[v]] = recovery[paying[v]]
      BY <2>1, <2>5 DEF TypeOK
    <3>3. (Claiming(v)' <=> Claiming(v)) /\ \A u \in Payers \ {p} : Claiming(u)' <=> Claiming(u)
      BY <2>3 DEF Claiming
    <3> QED
      BY <2>1, <2>3, <2>4, <2>5, <3>1, <3>2, <3>3 DEF ClaimSound, Unsent
  <2> QED
    BY <2>1, <2>2, <2>7, <2>8 DEF PaymentInv, PaidIsIssued
\* A claimant settles the row of its own recovery and goes on to the next.
<1>10. ASSUME NEW s \in Shipments, s = paying[p], NEW status, NextRecovery(p), Claiming(p),
              recovery' = [recovery EXCEPT ![s] = status],
              UNCHANGED <<paid, latePay, canceller>>,
              \A t \in Shipments \ {s} : shipment'[t] = shipment[t] /\ order'[t] = order[t],
              order[s] = "ISSUED" => order'[s] = "ISSUED",
              RecoverySound(s)'
       PROVE  PaymentInv'
  <2>1. ClaimSound(p)
    BY DEF PaymentInv
  <2>2. /\ pc'[p] = "planned"
        /\ \A v \in Payers \ {p} : pc'[v] = pc[v] /\ paying'[v] = paying[v]
    BY <1>0, <1>10 DEF PayersTyped, NextRecovery
  <2>3. \A v \in Payers : Claiming(v)' => v # p /\ Claiming(v)
    BY <2>2 DEF Claiming
  <2>4. \A v \in Payers \ {p} : Claiming(v) => paying[v] \in Shipments \ {s}
    <3>1. \A v \in Payers \ {p} : Claiming(v) => paying[v] \in Shipments
      BY InHand DEF Claiming
    <3> QED
      BY <1>10, <2>1, <3>1 DEF ClaimSound
  <2>5. \A t \in Shipments \ {s} : recovery'[t] = recovery[t]
    BY <1>0, <1>10 DEF RowsTyped
  <2>6. \A t \in Shipments : RecoverySound(t)'
    BY <1>10, <2>5 DEF PaymentInv, RecoverySound, Unsent, PaidIsIssued
  <2>7. ASSUME NEW v \in Payers, Claiming(v)' PROVE ClaimSound(v)'
    <3>1. v # p /\ Claiming(v) /\ ClaimSound(v) /\ paying[v] \in Shipments \ {s}
      BY <2>3, <2>4, <2>7 DEF PaymentInv
    <3> QED
      BY <1>10, <2>2, <2>3, <2>5, <3>1 DEF ClaimSound, Unsent
  <2>8. \A v \in Payers : ClaimSound(v)'
    BY <2>7 DEF ClaimSound
  <2>9. \A c \in Cancellers :
           (cpc[c] \in {"cleared", "deleting", "deleted"} => PaidIsIssued(victim[c]))'
    <3>1. \A c \in Cancellers : cpc[c] \in {"cleared", "deleting", "deleted"} =>
             victim[c] \in Shipments
      BY TypeParts DEF CancellersTyped
    <3>2. \A t \in Shipments : order[t] = "ISSUED" => order'[t] = "ISSUED"
      BY <1>10
    <3> QED
      BY <1>10, <3>1, <3>2 DEF PaymentInv, PaidIsIssued
  <2> QED
    BY <2>6, <2>8, <2>9 DEF PaymentInv
<1>11. ASSUME pc[p] \in {"answered", "unpaid", "uncertain"}
       PROVE  /\ Claiming(p) /\ ClaimSound(p) /\ paying[p] \in Shipments
              /\ RecoverySound(paying[p]) /\ paid[paying[p]] \in Nat /\ latePay[paying[p]] \in Nat
  <2>1. paying[p] \in Shipments
    BY <1>11, InHand
  <2> QED
    BY <1>0, <1>11, <2>1 DEF PaymentInv, Claiming, MengantarTyped
<1>12. CASE CompleteUnpaidRecovery(p)
  <2>0. pc[p] = "answered"
    BY <1>12 DEF CompleteUnpaidRecovery
  <2>1. PICK s \in Shipments : s = paying[p]
    BY <1>11, <2>0
  <2>2. /\ NextRecovery(p)
        /\ recovery' = [recovery EXCEPT ![s] = "COMPLETED"]
        /\ order' = [order EXCEPT ![s] = "ISSUED"] /\ shipment' = [shipment EXCEPT ![s] = "ISSUED"]
        /\ UNCHANGED <<paid, latePay, canceller>>
    BY <1>12, <2>1 DEF CompleteUnpaidRecovery
  <2>3. Claiming(p) /\ RecoverySound(s) /\ paid[s] = 1
    BY <1>11, <2>0, <2>1 DEF ClaimSound
  <2>4. /\ recovery'[s] = "COMPLETED" /\ order'[s] = "ISSUED" /\ shipment'[s] = "ISSUED"
        /\ \A t \in Shipments \ {s} : shipment'[t] = shipment[t] /\ order'[t] = order[t]
    BY <1>0, <2>2 DEF RowsTyped
  <2>5. RecoverySound(s)'
    BY <2>2, <2>3, <2>4 DEF RecoverySound
  <2> QED
    BY <1>10, <2>1, <2>2, <2>3, <2>4, <2>5
<1>13. CASE ReleaseUnpaidRecoveryClaim(p)
  <2>0. pc[p] = "unpaid"
    BY <1>13 DEF ReleaseUnpaidRecoveryClaim
  <2>1. PICK s \in Shipments : s = paying[p]
    BY <1>11, <2>0
  <2>2. /\ NextRecovery(p)
        /\ recovery' = [recovery EXCEPT ![s] = "PAYMENT_QUEUED"]
        /\ UNCHANGED <<shipment, order, paid, latePay, canceller>>
    BY <1>13, <2>1 DEF ReleaseUnpaidRecoveryClaim
  <2>3. Claiming(p) /\ RecoverySound(s) /\ Unsent(s) /\ recovery[s] \in {"PAYING", "PAYMENT_UNKNOWN"}
    BY <1>11, <2>0, <2>1 DEF ClaimSound
  <2>4. recovery'[s] = "PAYMENT_QUEUED"
    BY <1>0, <2>2 DEF RowsTyped
  <2>5. RecoverySound(s)'
    BY <2>2, <2>3, <2>4 DEF RecoverySound, Unsent, PaidIsIssued
  <2> QED
    BY <1>10, <2>1, <2>2, <2>3, <2>5
<1>14. CASE MarkUnpaidRecoveryUnknown(p)
  <2>0. pc[p] = "uncertain"
    BY <1>14 DEF MarkUnpaidRecoveryUnknown
  <2>1. PICK s \in Shipments : s = paying[p]
    BY <1>11, <2>0
  <2>2. /\ NextRecovery(p)
        /\ recovery' = [recovery EXCEPT ![s] = "PAYMENT_UNKNOWN"]
        /\ UNCHANGED <<shipment, order, paid, latePay, canceller>>
    BY <1>14, <2>1 DEF MarkUnpaidRecoveryUnknown
  <2>3. Claiming(p) /\ RecoverySound(s) /\ recovery[s] \in {"PAYING", "PAYMENT_UNKNOWN"}
    BY <1>11, <2>0, <2>1 DEF ClaimSound
  <2>4. recovery'[s] = "PAYMENT_UNKNOWN"
    BY <1>0, <2>2 DEF RowsTyped
  <2>5. RecoverySound(s)'
    BY <2>2, <2>3, <2>4 DEF RecoverySound, Unsent, PaidIsIssued
  <2> QED
    BY <1>10, <2>1, <2>2, <2>3, <2>5
<1> QED
  BY <1>1, <1>2, <1>3, <1>4, <1>5, <1>6, <1>7, <1>8, <1>9, <1>12, <1>13, <1>14 DEF PayerStep

\* A canceller moves: it clears only what cannot be under payment, and cancels only what
\* it cleared.
LEMMA CancellerKeeps ==
    ASSUME TypeOK, PaymentInv, NEW c \in Cancellers, CancellerStep(c)
    PROVE  PaymentInv'
<1> USE DEF rows, mengantar, payer
<1>0. CancellersTyped /\ MengantarTyped /\ RowsTyped /\ Locked
  BY TypeParts
<1>1. cpc[c] # "idle" => victim[c] \in Shipments
  BY <1>0 DEF CancellersTyped
\* No money moves; the shipment stays, or is cancelled by who may cancel it.
<1>2. ASSUME UNCHANGED <<order, recovery, paid, latePay, payer>>,
             NEW next \in {"idle", "checked", "locked", "cleared", "deleting", "deleted"},
             cpc' = [cpc EXCEPT ![c] = next],
             \A d \in Cancellers \ {c} : victim'[d] = victim[d],
             next \in {"cleared", "deleting", "deleted"} =>
                victim'[c] = victim[c] /\ PaidIsIssued(victim[c]),
             \/ UNCHANGED shipment
             \/ /\ cpc[c] = "deleted"
                /\ shipment' = [shipment EXCEPT ![victim[c]] = "CANCELLED"]
      PROVE  PaymentInv'
  <2>1. \A s \in Shipments : shipment'[s] = shipment[s] \/
           (shipment'[s] = "CANCELLED" /\ PaidIsIssued(s))
    BY <1>0, <1>1, <1>2 DEF RowsTyped, PaymentInv
  <2>2. \A s \in Shipments : RecoverySound(s)'
    BY <1>2, <2>1 DEF PaymentInv, RecoverySound, Unsent, PaidIsIssued
  <2>3. ASSUME NEW p \in Payers, Claiming(p) PROVE ClaimSound(p)'
    <3>1. ClaimSound(p) /\ paying[p] \in Shipments
      BY <2>3, InHand DEF PaymentInv, Claiming
    <3>2. pc[p] \in {"refreshed", "paying"} => shipment' = shipment
      BY <1>0, <1>2, OneHolder
    <3> QED
      BY <1>2, <3>1, <3>2 DEF ClaimSound, Claiming, Unsent
  <2>4. \A p \in Payers : ClaimSound(p)'
    BY <1>2, <2>3 DEF ClaimSound, Claiming
  <2>5. ASSUME NEW d \in Cancellers, cpc'[d] \in {"cleared", "deleting", "deleted"}
        PROVE  PaidIsIssued(victim[d])'
    <3>1. victim'[d] = victim[d] /\ PaidIsIssued(victim[d])
      BY <1>0, <1>2, <2>5 DEF CancellersTyped, PaymentInv
    <3> QED
      BY <1>2, <3>1 DEF PaidIsIssued
  <2> QED
    BY <2>2, <2>4, <2>5 DEF PaymentInv
<1>3. ASSUME NEW s \in Shipments, CheckCancel(c, s) PROVE PaymentInv'
  <2>1. \A d \in Cancellers \ {c} : victim'[d] = victim[d]
    BY <1>0, <1>3 DEF CancellersTyped, CheckCancel
  <2> QED
    BY <1>2, <1>3, <2>1 DEF CheckCancel
<1>4. CASE LockForCancel(c)
  BY <1>2, <1>4 DEF LockForCancel, CancellerGoes
<1>5. CASE RecheckCancel(c)
  <2>1. PICK s \in Shipments : s = victim[c]
    BY <1>1, <1>5 DEF RecheckCancel
  <2>2. recovery[s] \in {"NONE", "PAYMENT_QUEUED", "COMPLETED"} /\ RecoverySound(s)
    BY <1>0, <1>5, <2>1 DEF RecheckCancel, Cancellable, RowsTyped, PaymentInv
  <2>3. paid[s] \in Nat /\ latePay[s] \in Nat
    BY <1>0 DEF MengantarTyped
  <2>4. PaidIsIssued(s)
    BY <2>2, <2>3 DEF RecoverySound, Unsent, PaidIsIssued
  <2> QED
    BY <1>2, <1>5, <2>1, <2>4 DEF RecheckCancel, CancellerGoes
<1>6. CASE DeleteOrder(c) \/ OrderDeleted(c)
  <2>1. /\ cpc[c] \in {"cleared", "deleting"} /\ UNCHANGED victim
        /\ UNCHANGED <<shipment, order, recovery, latePay, payer>>
        /\ paid' = paid
        /\ \E next \in {"deleting", "deleted"} : cpc' = [cpc EXCEPT ![c] = next]
    BY <1>6 DEF DeleteOrder, OrderDeleted, CancellerGoes, Delete
  <2>2. PaidIsIssued(victim[c])
    BY <2>1 DEF PaymentInv
  <2> QED
    BY <1>2, <2>1, <2>2
\* The others end.
<1>7. CASE \/ CancelNotAllowed(c) \/ OrderSkipped(c) \/ DeleteRefused(c) \/ DeleteAnswerLost(c)
           \/ RecordShipmentCancelled(c) \/ NotRecorded(c) \/ CancellerCrashes(c)
  <2>1. EndCancel(c) /\ UNCHANGED <<order, recovery, paid, latePay, payer>>
    BY <1>7 DEF CancelNotAllowed, OrderSkipped, DeleteRefused, DeleteAnswerLost,
       RecordShipmentCancelled, NotRecorded, CancellerCrashes, Delete
  <2>2. \/ UNCHANGED shipment
        \/ /\ cpc[c] = "deleted"
           /\ shipment' = [shipment EXCEPT ![victim[c]] = "CANCELLED"]
    BY <1>7 DEF CancelNotAllowed, OrderSkipped, DeleteRefused, DeleteAnswerLost,
       RecordShipmentCancelled, NotRecorded, CancellerCrashes
  <2>3. \A d \in Cancellers \ {c} : victim'[d] = victim[d]
    BY <1>0, <2>1 DEF CancellersTyped, EndCancel
  <2> QED
    BY <1>2, <2>1, <2>2, <2>3 DEF EndCancel
<1> QED
  BY <1>3, <1>4, <1>5, <1>6, <1>7 DEF CancellerStep

\* What a pull or the webhook moves is issued: its money is settled.
LEMMA TrackerKeeps ==
    ASSUME TypeOK, PaymentInv,
           UNCHANGED <<order, recovery, paid, latePay, payer, canceller>>,
           \A s \in Shipments :
              \/ shipment'[s] = shipment[s]
              \/ order[s] = "ISSUED" /\ shipment'[s] # "AWAITING_UPSTREAM_PAYMENT"
    PROVE  PaymentInv'
<1> USE DEF payer, canceller
<1>1. \A s \in Shipments : RecoverySound(s)'
  BY IssuedIsPaid DEF PaymentInv, RecoverySound, Unsent, PaidIsIssued
<1>2. ASSUME NEW p \in Payers, Claiming(p) PROVE ClaimSound(p)'
  <2>1. ClaimSound(p) /\ paying[p] \in Shipments
    BY <1>2, InHand DEF PaymentInv, Claiming
  <2>2. shipment'[paying[p]] = shipment[paying[p]]
    BY <1>2, <2>1, IssuedIsPaid
  <2> QED
    BY <2>1, <2>2 DEF ClaimSound, Claiming, Unsent
<1>3. \A p \in Payers : ClaimSound(p)'
  BY <1>2 DEF ClaimSound, Claiming
<1>4. \A c \in Cancellers :
         (cpc[c] \in {"cleared", "deleting", "deleted"} => PaidIsIssued(victim[c]))'
  BY DEF PaymentInv, PaidIsIssued
<1> QED
  BY <1>1, <1>3, <1>4 DEF PaymentInv

\* No transition leads back to the unpaid state.
LEMMA NeverBackToUnpaid ==
    ASSUME NEW current \in Life
    PROVE  /\ "AWAITING_UPSTREAM_PAYMENT" \notin ALLOWED_TRANSITIONS[current]
           /\ "ISSUED" \notin ALLOWED_TRANSITIONS[current]
BY DEF ALLOWED_TRANSITIONS

\* A pull moves issued shipments only, and none back to unpaid.
LEMMA PullerKeeps ==
    ASSUME TypeOK, PaymentInv, NEW q \in Pullers, PullerStep(q)
    PROVE  PaymentInv'
<1> USE DEF rows, mengantar
<1>1. CASE ListOrders(q) \/ AbandonPull(q)
  <2>1. UNCHANGED <<shipment, order, recovery, paid, latePay, payer, canceller>>
    BY <1>1 DEF ListOrders, AbandonPull
  <2> QED
    BY <2>1, TrackerKeeps
<1>2. CASE RecordProviderSettlementPull(q)
  <2>1. UNCHANGED <<order, recovery, paid, latePay, payer, canceller>>
    BY <1>2 DEF RecordProviderSettlementPull
  <2>2. ASSUME NEW s \in Shipments
        PROVE  \/ shipment'[s] = shipment[s]
               \/ order[s] = "ISSUED" /\ shipment'[s] # "AWAITING_UPSTREAM_PAYMENT"
    <3>1. shipment'[s] = PullMoves(q, s) /\ shipment[s] \in Life
      BY <1>2, TypeParts DEF RecordProviderSettlementPull, RowsTyped
    <3> QED
      BY <3>1, PullMove, NeverBackToUnpaid
  <2> QED
    BY <2>1, <2>2, TrackerKeeps
<1> QED
  BY <1>1, <1>2 DEF PullerStep

\* A payment that lands late was nobody's to repeat: its recovery is not offered again.
LEMMA LatePayment ==
    ASSUME TypeOK, PaymentInv, NEW s \in Shipments, latePay[s] > 0
    PROVE  /\ latePay[s] = 1 /\ paid[s] = 0
           /\ recovery[s] \in {"PAYING", "PAYMENT_UNKNOWN"}
           /\ shipment[s] # "CANCELLED"
           /\ \A p \in Payers : Claiming(p) /\ paying[p] = s => pc[p] = "uncertain"
           /\ \A c \in Cancellers : cpc[c] \in {"cleared", "deleting", "deleted"} => victim[c] # s
<1>1. RecoverySound(s) /\ paid[s] \in Nat /\ latePay[s] \in Nat
  BY TypeParts DEF MengantarTyped, PaymentInv
<1>2. latePay[s] = 1 /\ paid[s] = 0
  BY <1>1 DEF RecoverySound
<1>3. /\ recovery[s] \notin {"NONE", "PAYMENT_QUEUED", "COMPLETED"} /\ shipment[s] # "CANCELLED"
  BY <1>1, <1>2 DEF RecoverySound, Unsent, PaidIsIssued
<1>4. recovery[s] \in {"PAYING", "PAYMENT_UNKNOWN"}
  BY <1>3, TypeParts DEF RowsTyped
<1>5. \A p \in Payers : Claiming(p) /\ paying[p] = s => pc[p] = "uncertain"
  BY <1>2 DEF PaymentInv, ClaimSound, Unsent
<1> QED
  BY <1>2, <1>3, <1>4, <1>5 DEF PaymentInv, PaidIsIssued

\* A late payment, the stale check and the webhook leave the money accounted for.
LEMMA WorldKeeps ==
    ASSUME TypeOK, PaymentInv, NEW s \in Shipments,
           \/ MengantarStep(s) \/ RecoveryClaimAges(s) \/ MarkStaleUnpaidRecoveryUnknown(s)
           \/ \E i \in DOMAIN reports[s] : RecordMengantarWebhookEvent(s, i)
    PROVE  PaymentInv'
<1> USE DEF rows, mengantar
<1>0. RowsTyped /\ MengantarTyped
  BY TypeParts
<1>1. CASE \/ CourierMoves(s) \/ UnpaidOrderLapses(s) \/ LateDeleteLands(s) \/ LateDeleteDropped(s)
           \/ RecoveryClaimAges(s)
  <2>1. UNCHANGED <<shipment, order, recovery, paid, latePay, payer, canceller>>
    BY <1>1 DEF CourierMoves, UnpaidOrderLapses, LateDeleteLands, LateDeleteDropped,
       RecoveryClaimAges, Delete
  <2> QED
    BY <2>1, TrackerKeeps
<1>2. ASSUME NEW i \in DOMAIN reports[s], RecordMengantarWebhookEvent(s, i) PROVE PaymentInv'
  <2>1. UNCHANGED <<order, recovery, paid, latePay, payer, canceller>>
    BY <1>2 DEF RecordMengantarWebhookEvent
  <2>2. ASSUME NEW t \in Shipments
        PROVE  \/ shipment'[t] = shipment[t]
               \/ order[t] = "ISSUED" /\ shipment'[t] # "AWAITING_UPSTREAM_PAYMENT"
    BY <1>0, <1>2, WebhookMove, NeverBackToUnpaid DEF RowsTyped
  <2> QED
    BY <2>1, <2>2, TrackerKeeps
<1>3. CASE LatePaymentLands(s) \/ LatePaymentDropped(s)
  <2>1. /\ latePay[s] > 0 /\ latePay' = [latePay EXCEPT ![s] = @ - 1]
        /\ paid' \in {paid, [paid EXCEPT ![s] = @ + 1]}
        /\ UNCHANGED <<shipment, order, recovery, payer, canceller>>
    BY <1>3, ChargeOnce DEF LatePaymentLands, LatePaymentDropped
  <2>2. /\ latePay'[s] = 0 /\ paid'[s] \in {0, 1}
        /\ \A t \in Shipments \ {s} : latePay'[t] = latePay[t] /\ paid'[t] = paid[t]
    BY <1>0, <2>1, LatePayment DEF MengantarTyped
  <2>3. \A t \in Shipments : RecoverySound(t)'
    <3>1. RecoverySound(s)'
      BY <2>1, <2>2, LatePayment DEF PaymentInv, RecoverySound, Unsent, PaidIsIssued
    <3>2. \A t \in Shipments \ {s} : RecoverySound(t)'
      BY <2>1, <2>2 DEF PaymentInv, RecoverySound, Unsent, PaidIsIssued
    <3> QED
      BY <3>1, <3>2
  <2>4. ASSUME NEW p \in Payers, Claiming(p) PROVE ClaimSound(p)'
    <3>1. ClaimSound(p) /\ paying[p] \in Shipments
      BY <2>4, InHand DEF PaymentInv, Claiming
    <3>2. paying[p] = s => pc[p] = "uncertain"
      BY <2>1, <2>4, LatePayment
    <3>3. \A v \in Payers : Claiming(v)' <=> Claiming(v)
      BY <2>1 DEF payer, Claiming
    <3> QED
      BY <2>1, <2>2, <3>1, <3>2, <3>3 DEF payer, ClaimSound, Unsent
  <2>5. \A p \in Payers : ClaimSound(p)'
    BY <2>1, <2>4 DEF payer, ClaimSound, Claiming
  <2>6. ASSUME NEW c \in Cancellers, cpc[c] \in {"cleared", "deleting", "deleted"}
        PROVE  PaidIsIssued(victim[c])'
    <3>1. victim[c] \in Shipments \ {s} /\ PaidIsIssued(victim[c])
      BY <2>1, <2>6, LatePayment, TypeParts DEF CancellersTyped, PaymentInv
    <3> QED
      BY <2>1, <2>2, <3>1 DEF canceller, PaidIsIssued
  <2> QED
    BY <2>1, <2>3, <2>5, <2>6 DEF canceller, PaymentInv
<1>4. CASE MarkStaleUnpaidRecoveryUnknown(s)
  <2>1. /\ recovery[s] = "PAYING" /\ recovery' = [recovery EXCEPT ![s] = "PAYMENT_UNKNOWN"]
        /\ UNCHANGED <<shipment, order, paid, latePay, payer, canceller>>
    BY <1>4 DEF MarkStaleUnpaidRecoveryUnknown
  <2>2. /\ recovery'[s] = "PAYMENT_UNKNOWN"
        /\ \A t \in Shipments \ {s} : recovery'[t] = recovery[t]
    BY <1>0, <2>1 DEF RowsTyped
  <2>3. \A t \in Shipments : RecoverySound(t)'
    BY <2>1, <2>2 DEF PaymentInv, RecoverySound, Unsent, PaidIsIssued
  <2>4. ASSUME NEW p \in Payers, Claiming(p) PROVE ClaimSound(p)'
    <3>1. ClaimSound(p) /\ paying[p] \in Shipments
      BY <2>4, InHand DEF PaymentInv, Claiming
    <3>2. \A v \in Payers : Claiming(v)' <=> Claiming(v)
      BY <2>1 DEF payer, Claiming
    <3> QED
      BY <2>1, <2>2, <3>1, <3>2 DEF payer, ClaimSound, Unsent
  <2>5. \A p \in Payers : ClaimSound(p)'
    BY <2>1, <2>4 DEF payer, ClaimSound, Claiming
  <2> QED
    BY <2>1, <2>3, <2>5 DEF canceller, PaymentInv, PaidIsIssued
<1> QED
  BY <1>1, <1>2, <1>3, <1>4 DEF MengantarStep

\* The money of every recovery is accounted for: what a payment cost is on its row, in a
\* claim, or on its way, whatever answers are lost and whichever requests stop.
THEOREM PaymentSound == Spec => [](TypeOK /\ PaymentInv)
<1>1. Init => PaymentInv
  <2> SUFFICES ASSUME Init PROVE PaymentInv
    OBVIOUS
  <2>1. \A s \in Shipments : RecoverySound(s)
    BY DEF Init, RecoverySound, Unsent, PaidIsIssued
  <2> QED
    BY <2>1 DEF Init, PaymentInv, ClaimSound, Claiming
<1>2. TypeOK /\ PaymentInv /\ [Next]_vars => PaymentInv'
  <2> SUFFICES ASSUME TypeOK, PaymentInv, [Next]_vars PROVE PaymentInv'
    OBVIOUS
  <2>1. CASE UNCHANGED vars
    BY <2>1, TrackerKeeps DEF vars, rows, mengantar
  <2> QED
    BY <2>1, PayerKeeps, CancellerKeeps, PullerKeeps, WorldKeeps DEF Next
<1> QED
  BY <1>1, <1>2, PaymentTypeCorrect, PTL DEF Spec

\* No order is paid while a payment of it may still be taken: a payer that sends one, or a
\* request that is still on its way, finds nothing paid and its recovery in its claim.
LEMMA PaymentInFlight ==
    ASSUME TypeOK, PaymentInv, NEW s \in Shipments, InPayment(s)
    PROVE  /\ paid[s] = 0 /\ recovery[s] \in {"PAYING", "PAYMENT_UNKNOWN"}
           /\ shipment[s] # "CANCELLED"
           /\ \A c \in Cancellers : cpc[c] = "deleting" => victim[c] # s
<1>1. CASE latePay[s] > 0
  BY <1>1, LatePayment
<1>2. ASSUME NEW p \in Payers, pc[p] = "paying", paying[p] = s
      PROVE  /\ paid[s] = 0 /\ recovery[s] \in {"PAYING", "PAYMENT_UNKNOWN"}
             /\ shipment[s] # "CANCELLED"
             /\ \A c \in Cancellers : cpc[c] = "deleting" => victim[c] # s
  <2>1. Claiming(p) /\ ClaimSound(p)
    BY <1>2 DEF PaymentInv, Claiming
  <2>2. /\ paid[s] = 0 /\ recovery[s] \in {"PAYING", "PAYMENT_UNKNOWN"}
        /\ shipment[s] = "AWAITING_UPSTREAM_PAYMENT"
    BY <1>2, <2>1 DEF ClaimSound, Unsent
  <2> QED
    BY <1>2, <2>2, InHand
<1> QED
  BY <1>1, <1>2 DEF InPayment

\* The store's wallet is charged at most once for an order, and a recovery that is offered
\* for payment has cost nothing, for any shipments, payers and lost answers.
THEOREM ChargedOnce == Spec => []NoDoubleCharge
<1>1. TypeOK /\ PaymentInv => NoDoubleCharge
  <2> SUFFICES ASSUME TypeOK, PaymentInv PROVE NoDoubleCharge
    OBVIOUS
  <2>1. PaidAtMostOnce
    <3>1. ASSUME NEW p \in Payers, NEW s \in Shipments, pc[p] = "paying", paying[p] = s
          PROVE  paid[s] + latePay[s] = 0
      BY <3>1 DEF PaymentInv, ClaimSound, Claiming, Unsent
    <3> QED
      BY <3>1 DEF PaidAtMostOnce, PaymentInv, RecoverySound
  <2>2. QueuedIsUnpaid
    BY PaymentInFlight DEF QueuedIsUnpaid, PaymentInv, RecoverySound, Unsent
  <2> QED
    BY <2>1, <2>2 DEF NoDoubleCharge
<1> QED
  BY <1>1, PaymentSound, PTL

\* No deletion crosses a payment, and no cancelled order is paid.
THEOREM PaymentsAndCancelsApart == Spec => []NeverPaidAndCancelled
<1>1. TypeOK /\ PaymentInv => NeverPaidAndCancelled
  <2> SUFFICES ASSUME TypeOK, PaymentInv PROVE NeverPaidAndCancelled
    OBVIOUS
  <2>1. ASSUME NEW c \in Cancellers, cpc[c] = "deleting"
        PROVE  /\ ~InPayment(victim[c])
               /\ paid[victim[c]] > 0 => order[victim[c]] = "ISSUED"
    <3>1. victim[c] \in Shipments /\ PaidIsIssued(victim[c])
      BY <2>1, TypeParts DEF CancellersTyped, PaymentInv
    <3> QED
      BY <2>1, <3>1, PaymentInFlight DEF PaidIsIssued
  <2>2. CancelledIsNeverPaid
    BY PaymentInFlight DEF CancelledIsNeverPaid, PaymentInv, RecoverySound, PaidIsIssued
  <2> QED
    BY <2>1, <2>2 DEF NeverPaidAndCancelled, NeverCancelAcrossPayment
<1> QED
  BY <1>1, PaymentSound, PTL

-----------------------------------------------------------------------------
(* The ledger *)

\* No allowed transition leaves an end.
LEMMA CancelledStays ==
    ASSUME NEW current \in Life, NEW next, next \in ALLOWED_TRANSITIONS[current]
    PROVE  current \notin {"DELIVERED", "RTS_RECEIVED", "CANCELLED"}
BY DEF ALLOWED_TRANSITIONS

\* An order is booked when it is issued, and a reversal stays with a cancelled shipment.
LEMMA LedgerStep ==
    ASSUME TypeOK, LedgerFollowsLife, Next
    PROVE  LedgerFollowsLife'
<1> USE DEF rows
<1>0. RowsTyped
  BY TypeParts
<1>1. ASSUME UNCHANGED <<order, booked>>, NEW cancelled,
             reversed' = reversed \cup Reversible(cancelled),
             \A s \in cancelled \cap booked : shipment'[s] = "CANCELLED",
             \A s \in Shipments : shipment[s] = "CANCELLED" => shipment'[s] = "CANCELLED"
      PROVE  LedgerFollowsLife'
  BY <1>0, <1>1 DEF RowsTyped, LedgerFollowsLife, Reversible
<1>2. CASE UNCHANGED <<order, booked, shipment, reversed>>
  BY <1>2 DEF LedgerFollowsLife
<1>3. ASSUME NEW p \in Payers, PayerStep(p) PROVE LedgerFollowsLife'
  <2>1. CASE CompleteUnpaidRecovery(p)
    <3>1. PICK s \in Shipments : s = paying[p]
      BY <2>1, InHand DEF CompleteUnpaidRecovery
    <3>2. /\ shipment[s] = "AWAITING_UPSTREAM_PAYMENT"
          /\ order' = [order EXCEPT ![s] = "ISSUED"]
          /\ shipment' = [shipment EXCEPT ![s] = "ISSUED"]
          /\ booked' = booked \cup {s} /\ reversed' = reversed
      BY <2>1, <3>1 DEF CompleteUnpaidRecovery, Awaiting
    <3>3. s \notin reversed
      BY <3>2 DEF LedgerFollowsLife
    <3> QED
      BY <1>0, <3>2, <3>3 DEF RowsTyped, LedgerFollowsLife
  <2>2. CASE ~CompleteUnpaidRecovery(p)
    BY <1>2, <1>3, <2>2 DEF PayerStep, LoadRecoveryTarget, ClaimUnpaidRecovery, RecoveryTaken,
       PrepareUnpaidRecoveries, LockForPayment, RefreshUnpaidRecoveryClaim,
       UnpaidRecoveryClaimLost, FailBeforePayment, PayUnpaid, PaymentAccepted, PaymentRefused,
       PaymentAnswerLost, CompletionFails, ReleaseUnpaidRecoveryClaim, PaymentNotReleased,
       MarkUnpaidRecoveryUnknown, PaymentEnds, PayerCrashes
  <2> QED
    BY <2>1, <2>2
<1>4. ASSUME NEW c \in Cancellers, CancellerStep(c) PROVE LedgerFollowsLife'
  <2>1. CASE RecordShipmentCancelled(c) /\ ~UNCHANGED <<shipment, reversed>>
    <3>1. victim[c] \in Shipments
      BY <2>1, TypeParts DEF RecordShipmentCancelled, CancellersTyped
    <3>2. /\ shipment' = [shipment EXCEPT ![victim[c]] = "CANCELLED"]
          /\ reversed' = reversed \cup Reversible({victim[c]})
          /\ UNCHANGED <<order, booked>>
      BY <2>1 DEF RecordShipmentCancelled
    <3> QED
      BY <1>0, <1>1, <3>1, <3>2 DEF RowsTyped
  <2>2. CASE ~RecordShipmentCancelled(c) \/ UNCHANGED <<shipment, reversed>>
    BY <1>2, <1>4, <2>2 DEF CancellerStep, CheckCancel, LockForCancel, RecheckCancel,
       CancelNotAllowed, DeleteOrder, OrderDeleted, OrderSkipped, DeleteRefused,
       DeleteAnswerLost, RecordShipmentCancelled, NotRecorded, CancellerCrashes
  <2> QED
    BY <2>1, <2>2
<1>5. ASSUME NEW q \in Pullers, PullerStep(q) PROVE LedgerFollowsLife'
  <2>1. CASE ListOrders(q) \/ AbandonPull(q)
    BY <1>2, <2>1 DEF ListOrders, AbandonPull
  <2>2. CASE RecordProviderSettlementPull(q)
    <3>1. \A s \in Shipments : shipment'[s] = PullMoves(q, s)
      BY <2>2 DEF RecordProviderSettlementPull
    <3>2. \A s \in ToReverse(q) : shipment'[s] = "CANCELLED"
      BY <3>1 DEF ToReverse, Matched
    <3>3. \A s \in Shipments : shipment[s] = "CANCELLED" => shipment'[s] = "CANCELLED"
      BY <1>0, <3>1, PullMove, CancelledStays DEF RowsTyped
    <3> QED
      BY <1>1, <2>2, <3>2, <3>3 DEF RecordProviderSettlementPull
  <2> QED
    BY <1>5, <2>1, <2>2 DEF PullerStep
<1>6. ASSUME NEW s \in Shipments, NEW i \in DOMAIN reports[s], RecordMengantarWebhookEvent(s, i)
      PROVE  LedgerFollowsLife'
  <2>1. \A t \in Shipments : shipment[t] = "CANCELLED" => shipment'[t] = "CANCELLED"
    BY <1>0, <1>6, WebhookMove, CancelledStays DEF RowsTyped
  <2>2. UNCHANGED <<order, booked, reversed>>
    BY <1>6 DEF RecordMengantarWebhookEvent
  <2>3. reversed' = reversed \cup Reversible({})
    BY <2>2 DEF Reversible
  <2> QED
    BY <1>1, <2>1, <2>2, <2>3
<1>7. ASSUME NEW s \in Shipments,
             MengantarStep(s) \/ RecoveryClaimAges(s) \/ MarkStaleUnpaidRecoveryUnknown(s)
      PROVE  LedgerFollowsLife'
  BY <1>2, <1>7 DEF MengantarStep, CourierMoves, UnpaidOrderLapses, LatePaymentLands,
     LatePaymentDropped, LateDeleteLands, LateDeleteDropped, RecoveryClaimAges,
     MarkStaleUnpaidRecoveryUnknown
<1> QED
  BY <1>3, <1>4, <1>5, <1>6, <1>7 DEF Next

\* The issuance entries are booked exactly for issued orders, and reversed only for COD
\* shipments that are, and stay, cancelled.
THEOREM LedgerFollows == Spec => []LedgerFollowsLife
<1>1. Init => LedgerFollowsLife
  BY OrderAssumption DEF Init, LedgerFollowsLife
<1>2. TypeOK /\ LedgerFollowsLife /\ [Next]_vars => LedgerFollowsLife'
  <2> SUFFICES ASSUME TypeOK, LedgerFollowsLife, [Next]_vars PROVE LedgerFollowsLife'
    OBVIOUS
  <2>1. CASE UNCHANGED vars
    BY <2>1 DEF vars, rows, LedgerFollowsLife
  <2> QED
    BY <2>1, LedgerStep
<1> QED
  BY <1>1, <1>2, PaymentTypeCorrect, PTL DEF Spec

-----------------------------------------------------------------------------
(* Tracking *)

\* A report more.
LEMMA AppendFacts ==
    ASSUME NEW said \in Seq(Reports), NEW word \in Reports
    PROVE  /\ Append(said, word) \in Seq(Reports)
           /\ Len(said) \in Nat /\ Len(Append(said, word)) = Len(said) + 1
           /\ DOMAIN said = 1 .. Len(said)
           /\ DOMAIN Append(said, word) = 1 .. Len(said) + 1
           /\ \A i \in 1 .. Len(said) : Append(said, word)[i] = said[i]
           /\ Append(said, word)[Len(said) + 1] = word
OBVIOUS

\* Only the status of shipments moves: no outcome Mengantar reported is left.
LEMMA StatusMoves ==
    ASSUME TrackingInv, UNCHANGED <<real, reports, heard>>,
           \A s \in Shipments :
              \/ shipment'[s] = shipment[s]
              \/ StatusSound(s)' /\ shipment[s] \notin {"DELIVERED", "CANCELLED"},
           \A q \in Pullers, s \in Shipments : ListingSound(q, s)',
           \A c \in Cancellers : cpc'[c] = "deleted" => real[victim'[c]] \in Gone
    PROVE  TrackingInv'
<1>1. \A s \in Shipments : ReportsSound(s)' /\ StatusSound(s)'
  BY DEF TrackingInv, ReportsSound, Stands, StatusSound
<1>2. FinalReportHolds'
  BY DEF TrackingInv, FinalReportHolds
<1> QED
  BY <1>1, <1>2 DEF TrackingInv

\* Listings go on to stand where Mengantar's side does.
LEMMA ListingStays ==
    ASSUME TrackingInv, UNCHANGED <<real, reports, listed>>
    PROVE  \A q \in Pullers, s \in Shipments : ListingSound(q, s)'
BY DEF TrackingInv, ListingSound, Stands

\* Mengantar's side of one order moves on from where it was not yet at an end.
LEMMA OrderMoves ==
    ASSUME TypeOK, TrackingInv, UNCHANGED <<shipment, heard, listed>>, NEW s \in Shipments,
           NEW next, real' = [real EXCEPT ![s] = next],
           real[s] \notin Gone \cup {"DELIVERED"},
           real[s] \in {"RTS", "RTS_RETURNING"} => next = "RTS_RETURNING",
           \/ next \in {"UNPAID_GONE", "DELETED"} /\ reports' = reports
           \/ next \in Reports /\ reports' = [reports EXCEPT ![s] = Append(@, next)],
           \A c \in Cancellers : cpc'[c] = "deleted" =>
              \/ cpc[c] = "deleted" /\ victim'[c] = victim[c]
              \/ victim'[c] = s /\ next \in Gone
    PROVE  TrackingInv'
<1>0. /\ real \in [Shipments -> Reports \cup Gone \cup {"UNPAID"}]
      /\ reports \in [Shipments -> Seq(Reports)] /\ reports[s] \in Seq(Reports)
  BY TypeParts DEF MengantarTyped
<1>1. real'[s] = next /\ \A t \in Shipments \ {s} : real'[t] = real[t]
  BY <1>0
<1>2. /\ \A t \in Shipments \ {s} : reports'[t] = reports[t]
      /\ reports'[s] = reports[s] \/ (next \in Reports /\ reports'[s] = Append(reports[s], next))
  BY <1>0
<1>3. /\ DOMAIN reports[s] \subseteq DOMAIN reports'[s]
      /\ \A i \in DOMAIN reports[s] : reports'[s][i] = reports[s][i]
  <2>1. CASE reports'[s] = reports[s]
    BY <2>1
  <2>2. CASE next \in Reports /\ reports'[s] = Append(reports[s], next)
    BY <1>0, <2>2, AppendFacts
  <2> QED
    BY <1>2, <2>1, <2>2
\* A word that stood at s was no end; it stands after the move.
<1>4. ASSUME NEW word, Stands(word, s)
      PROVE  /\ word \notin {"DELIVERED", "CANCELLED", "DELETED"}
             /\ word \in {"RTS", "RTS_RETURNING"} => next = "RTS_RETURNING"
  BY <1>4 DEF Stands, Gone
<1>5. \A i \in DOMAIN reports[s] :
         /\ reports[s][i] \notin {"DELIVERED", "CANCELLED", "DELETED"}
         /\ reports[s][i] \in {"RTS", "RTS_RETURNING"} => next = "RTS_RETURNING"
  BY <1>4 DEF TrackingInv, ReportsSound
<1>6. ReportsSound(s)'
  <2>1. CASE next \in {"UNPAID_GONE", "DELETED"} /\ reports' = reports
    <3>1. next \notin Reports \cup {"UNPAID"}
      BY <2>1 DEF Reports
    <3>2. heard'[s] \subseteq DOMAIN reports'[s]
      BY <2>1 DEF TrackingInv, ReportsSound
    <3>3. \A i \in DOMAIN reports[s] : Stands(reports[s][i], s)'
      BY <1>1, <1>5, <2>1 DEF Stands
    <3> QED
      BY <1>1, <1>5, <2>1, <3>1, <3>2, <3>3 DEF ReportsSound
  <2>2. CASE next \in Reports /\ reports'[s] = Append(reports[s], next)
    <3>1. heard'[s] \subseteq DOMAIN reports'[s]
      BY <1>3 DEF TrackingInv, ReportsSound
    <3>2. ASSUME NEW i \in DOMAIN reports'[s]
          PROVE  /\ Stands(reports[s][i], s)'
                 /\ reports'[s][i] \in {"DELIVERED", "CANCELLED"} => i = Len(reports'[s])
      <4>1. CASE i \in DOMAIN reports[s]
        BY <1>1, <1>3, <1>5, <4>1 DEF Stands
      <4>2. CASE i \notin DOMAIN reports[s]
        <5>1. reports'[s][i] = next /\ i = Len(reports'[s])
          BY <1>0, <2>2, <4>2, AppendFacts
        <5> QED
          BY <1>1, <5>1 DEF Stands
      <4> QED
        BY <4>1, <4>2
    <3>3. Len(reports'[s]) > 0 /\ reports'[s][Len(reports'[s])] = next
      BY <1>0, <2>2, AppendFacts
    <3>4. next # "UNPAID"
      BY <2>2 DEF Reports
    <3> QED
      BY <1>1, <3>1, <3>2, <3>3, <3>4 DEF ReportsSound
  <2> QED
    BY <1>0, <2>1, <2>2
<1>7. StatusSound(s)'
  <2>1. StatusSound(s)
    BY DEF TrackingInv
  <2> QED
    BY <1>1, <2>1 DEF StatusSound
<1>8. ASSUME NEW t \in Shipments \ {s} PROVE ReportsSound(t)' /\ StatusSound(t)'
  <2>1. ReportsSound(t) /\ StatusSound(t)
    BY DEF TrackingInv
  <2> QED
    BY <1>1, <1>2, <2>1 DEF ReportsSound, StatusSound, Stands
<1>9. ASSUME NEW q \in Pullers, NEW t \in Shipments PROVE ListingSound(q, t)'
  <2>1. ListingSound(q, t)
    BY DEF TrackingInv
  <2>2. CASE t = s
    BY <1>1, <1>3, <1>4, <2>1, <2>2 DEF ListingSound, Stands
  <2>3. CASE t # s
    BY <1>1, <1>2, <2>1, <2>3 DEF ListingSound, Stands
  <2> QED
    BY <2>2, <2>3
<1>10. ASSUME NEW c \in Cancellers, cpc'[c] = "deleted" PROVE real'[victim'[c]] \in Gone
  <2>1. CASE cpc[c] = "deleted" /\ victim'[c] = victim[c]
    <3>1. victim[c] \in Shipments /\ real[victim[c]] \in Gone
      BY <2>1, TypeParts DEF CancellersTyped, TrackingInv
    <3> QED
      BY <1>1, <2>1, <3>1
  <2>2. CASE victim'[c] = s /\ next \in Gone
    BY <1>1, <2>2
  <2> QED
    BY <1>10, <2>1, <2>2
<1>11. FinalReportHolds'
  <2>1. \A t \in Shipments : \A i \in heard[t] : reports'[t][i] = reports[t][i]
    BY <1>2, <1>3 DEF TrackingInv, ReportsSound
  <2> QED
    BY <2>1 DEF TrackingInv, FinalReportHolds
<1>12. \A t \in Shipments : ReportsSound(t)' /\ StatusSound(t)'
  BY <1>6, <1>7, <1>8
<1> QED
  BY <1>9, <1>10, <1>11, <1>12 DEF TrackingInv

\* Mengantar's answers and the courier move an order as OrderMoves says.
LEMMA ChargeMoves ==
    ASSUME TypeOK, TrackingInv, UNCHANGED <<shipment, heard, listed, canceller>>,
           NEW s \in Shipments, Charge(s)
    PROVE  TrackingInv'
<1> USE DEF canceller
<1>1. CASE UNCHANGED <<real, reports>>
  BY <1>1, StatusMoves, ListingStays DEF TrackingInv
<1>2. CASE real[s] = "UNPAID"
  <2>1. /\ real' = [real EXCEPT ![s] = "PENDING"]
        /\ reports' = [reports EXCEPT ![s] = <<"PENDING">>]
    BY <1>2 DEF Charge
  <2>2. reports[s] = <<>> /\ Append(<<>>, "PENDING") = <<"PENDING">>
    BY <1>2 DEF TrackingInv, ReportsSound
  <2>3. reports' = [reports EXCEPT ![s] = Append(@, "PENDING")]
    BY <2>1, <2>2, TypeParts DEF MengantarTyped
  <2>4. "PENDING" \in Reports /\ real[s] \notin Gone \cup {"DELIVERED", "RTS", "RTS_RETURNING"}
    BY <1>2 DEF Reports, Gone
  <2> QED
    BY <2>1, <2>3, <2>4, OrderMoves
<1> QED
  BY <1>1, <1>2 DEF Charge

\* A deletion of an order that is not at an end, known to the one who deleted it.
LEMMA DeleteMoves ==
    ASSUME TypeOK, TrackingInv, UNCHANGED <<shipment, heard, listed>>,
           NEW s \in Shipments, Delete(s),
           \A c \in Cancellers : cpc'[c] = "deleted" =>
              \/ cpc[c] = "deleted" /\ victim'[c] = victim[c]
              \/ victim'[c] = s
    PROVE  TrackingInv'
<1>1. PICK next \in {"UNPAID_GONE", "DELETED"} : real' = [real EXCEPT ![s] = next]
  BY TypeParts DEF Delete, MengantarTyped
<1>2. /\ reports' = reports /\ next \in Gone
      /\ real[s] \notin Gone \cup {"DELIVERED", "RTS", "RTS_RETURNING"}
  BY DEF Delete, Deletable, Gone
<1> QED
  BY <1>1, <1>2, OrderMoves

\* A recovery issues a shipment, which is no end and no return.
LEMMA PayerTracks ==
    ASSUME TypeOK, TrackingInv, NEW p \in Payers, PayerStep(p)
    PROVE  TrackingInv'
<1> USE DEF rows, observed, mengantar, canceller, puller
<1>1. CASE UNCHANGED <<shipment, real, reports, heard, canceller, listed>>
  BY <1>1, StatusMoves, ListingStays DEF TrackingInv
<1>2. CASE PaymentAccepted(p) \/ PaymentAnswerLost(p)
  <2>1. paying[p] \in Shipments
    BY <1>2, InHand DEF PaymentAccepted, PaymentAnswerLost
  <2>2. /\ UNCHANGED <<shipment, heard, listed, canceller>>
        /\ Charge(paying[p]) \/ UNCHANGED <<real, reports>>
    BY <1>2 DEF PaymentAccepted, PaymentAnswerLost
  <2> QED
    BY <1>1, <2>1, <2>2, ChargeMoves
<1>3. CASE CompleteUnpaidRecovery(p)
  <2>1. PICK s \in Shipments : s = paying[p]
    BY <1>3, InHand DEF CompleteUnpaidRecovery
  <2>2. /\ shipment[s] = "AWAITING_UPSTREAM_PAYMENT"
        /\ shipment' = [shipment EXCEPT ![s] = "ISSUED"]
        /\ UNCHANGED <<real, reports, heard, canceller, listed>>
    BY <1>3, <2>1 DEF CompleteUnpaidRecovery, Awaiting
  <2>3. shipment'[s] = "ISSUED" /\ \A t \in Shipments \ {s} : shipment'[t] = shipment[t]
    BY <2>2, TypeParts DEF RowsTyped
  <2>4. StatusSound(s)'
    BY <2>3 DEF StatusSound
  <2> QED
    BY <2>2, <2>3, <2>4, StatusMoves, ListingStays DEF TrackingInv
<1>4. CASE ~(PaymentAccepted(p) \/ PaymentAnswerLost(p) \/ CompleteUnpaidRecovery(p))
  BY <1>1, <1>4 DEF PayerStep, LoadRecoveryTarget, ClaimUnpaidRecovery, RecoveryTaken,
     PrepareUnpaidRecoveries, LockForPayment, RefreshUnpaidRecoveryClaim,
     UnpaidRecoveryClaimLost, FailBeforePayment, PayUnpaid, PaymentRefused, CompletionFails,
     ReleaseUnpaidRecoveryClaim, PaymentNotReleased, MarkUnpaidRecoveryUnknown, PaymentEnds,
     PayerCrashes
<1> QED
  BY <1>2, <1>3, <1>4

\* A cancellation shows CANCELLED only once the order is gone.
LEMMA CancellerTracks ==
    ASSUME TypeOK, TrackingInv, NEW c \in Cancellers, CancellerStep(c)
    PROVE  TrackingInv'
<1> USE DEF rows, observed, mengantar, puller
<1>0. CancellersTyped /\ RowsTyped
  BY TypeParts
<1>1. cpc[c] # "idle" => victim[c] \in Shipments
  BY <1>0 DEF CancellersTyped
<1>2. ASSUME UNCHANGED <<shipment, real, reports, heard, listed>>,
             \A d \in Cancellers : cpc'[d] = "deleted" => cpc[d] = "deleted" /\ victim'[d] = victim[d]
      PROVE  TrackingInv'
  BY <1>2, StatusMoves, ListingStays DEF TrackingInv
<1>3. ASSUME NEW next \in {"idle", "checked", "locked", "cleared", "deleting"},
             cpc' = [cpc EXCEPT ![c] = next],
             \A d \in Cancellers \ {c} : victim'[d] = victim[d]
      PROVE  \A d \in Cancellers : cpc'[d] = "deleted" => cpc[d] = "deleted" /\ victim'[d] = victim[d]
  BY <1>0, <1>3 DEF CancellersTyped
<1>4. ASSUME EndCancel(c)
      PROVE  \A d \in Cancellers : cpc'[d] = "deleted" => cpc[d] = "deleted" /\ victim'[d] = victim[d]
  BY <1>0, <1>4 DEF CancellersTyped, EndCancel
<1>5. ASSUME NEW s \in Shipments, CheckCancel(c, s) PROVE TrackingInv'
  <2>1. \A d \in Cancellers \ {c} : victim'[d] = victim[d]
    BY <1>0, <1>5 DEF CancellersTyped, CheckCancel
  <2> QED
    BY <1>2, <1>3, <1>5, <2>1 DEF CheckCancel
<1>6. CASE LockForCancel(c) \/ RecheckCancel(c) \/ DeleteOrder(c)
  BY <1>2, <1>3, <1>6 DEF LockForCancel, RecheckCancel, DeleteOrder, CancellerGoes
<1>7. CASE \/ CancelNotAllowed(c) \/ OrderSkipped(c) \/ DeleteRefused(c) \/ NotRecorded(c)
           \/ CancellerCrashes(c)
  BY <1>2, <1>4, <1>7 DEF CancelNotAllowed, OrderSkipped, DeleteRefused, NotRecorded,
     CancellerCrashes
<1>8. CASE OrderDeleted(c)
  <2>1. victim[c] \in Shipments /\ Delete(victim[c]) /\ UNCHANGED <<shipment, heard, listed>>
    BY <1>1, <1>8 DEF OrderDeleted
  <2>2. \A d \in Cancellers : cpc'[d] = "deleted" =>
           \/ cpc[d] = "deleted" /\ victim'[d] = victim[d]
           \/ victim'[d] = victim[c]
    BY <1>0, <1>8 DEF CancellersTyped, OrderDeleted, CancellerGoes
  <2> QED
    BY <2>1, <2>2, DeleteMoves
<1>9. CASE DeleteAnswerLost(c)
  <2>1. /\ victim[c] \in Shipments /\ UNCHANGED <<shipment, heard, listed>> /\ EndCancel(c)
        /\ Delete(victim[c]) \/ UNCHANGED <<real, reports>>
    BY <1>1, <1>9 DEF DeleteAnswerLost
  <2>2. CASE Delete(victim[c])
    BY <1>4, <2>1, <2>2, DeleteMoves
  <2>3. CASE UNCHANGED <<real, reports>>
    BY <1>2, <1>4, <2>1, <2>3
  <2> QED
    BY <2>1, <2>2, <2>3
<1>10. CASE RecordShipmentCancelled(c)
  <2>1. PICK s \in Shipments : s = victim[c]
    BY <1>1, <1>10 DEF RecordShipmentCancelled
  <2>2. real[s] \in Gone /\ UNCHANGED <<real, reports, heard, listed>> /\ EndCancel(c)
    BY <1>10, <2>1 DEF RecordShipmentCancelled, TrackingInv
  <2>3. CASE UNCHANGED shipment
    BY <1>2, <1>4, <2>2, <2>3
  <2>4. CASE /\ shipment[s] = "CANCELLED" \/ "CANCELLED" \in ALLOWED_TRANSITIONS[shipment[s]]
             /\ shipment' = [shipment EXCEPT ![s] = "CANCELLED"]
    <3>1. /\ shipment'[s] = "CANCELLED" /\ \A t \in Shipments \ {s} : shipment'[t] = shipment[t]
          /\ shipment[s] \in Life
      BY <1>0, <2>4 DEF RowsTyped
    <3>2. StatusSound(s)'
      BY <2>2, <3>1 DEF StatusSound
    <3>3. shipment[s] = "CANCELLED" \/ shipment[s] \notin {"DELIVERED", "CANCELLED"}
      BY <2>4, <3>1, CancelledStays
    <3>4. \A d \in Cancellers : cpc'[d] = "deleted" => real[victim'[d]] \in Gone
      BY <1>4, <2>2 DEF TrackingInv
    <3> QED
      BY <2>2, <3>1, <3>2, <3>3, <3>4, StatusMoves, ListingStays
  <2> QED
    BY <1>10, <2>1, <2>3, <2>4 DEF RecordShipmentCancelled
<1> QED
  BY <1>5, <1>6, <1>7, <1>8, <1>9, <1>10 DEF CancellerStep

\* A pull applies what it listed, which still stands.
LEMMA PullerTracks ==
    ASSUME TypeOK, TrackingInv, NEW q \in Pullers, PullerStep(q)
    PROVE  TrackingInv'
<1> USE DEF rows, observed, mengantar, canceller
<1>0. RowsTyped /\ MengantarTyped /\ PullersTyped
  BY TypeParts
\* A listing that is put away says nothing any more.
<1>1. ASSUME EndPull(q), UNCHANGED <<real, reports>>
      PROVE  \A v \in Pullers, s \in Shipments : ListingSound(v, s)'
  <2>1. \A s \in Shipments : listed'[q][s] = "ABSENT"
    BY <1>0, <1>1 DEF PullersTyped, EndPull
  <2>2. \A v \in Pullers \ {q} : listed'[v] = listed[v]
    BY <1>0, <1>1 DEF PullersTyped, EndPull
  <2>3. \A s \in Shipments : ListingSound(q, s)'
    BY <2>1 DEF ListingSound, Stands
  <2>4. \A v \in Pullers \ {q}, s \in Shipments : ListingSound(v, s)'
    BY <1>1, <2>2 DEF TrackingInv, ListingSound, Stands
  <2> QED
    BY <2>3, <2>4
<1>2. CASE AbandonPull(q)
  BY <1>1, <1>2, StatusMoves DEF AbandonPull, TrackingInv
<1>3. CASE ListOrders(q)
  <2>1. /\ UNCHANGED <<shipment, real, reports, heard, canceller>>
        /\ listed' = [listed EXCEPT ![q] =
                        [s \in Shipments |-> IF real[s] \in {"UNPAID", "UNPAID_GONE"}
                                             THEN "ABSENT" ELSE real[s]]]
    BY <1>3 DEF ListOrders
  <2>2. ASSUME NEW s \in Shipments PROVE ListingSound(q, s)'
    <3>1. CASE real[s] \in {"UNPAID", "UNPAID_GONE"}
      <4>1. listed'[q][s] = "ABSENT"
        BY <1>0, <2>1, <3>1 DEF PullersTyped
      <4> QED
        BY <4>1 DEF ListingSound, Stands
    <3>2. CASE real[s] \notin {"UNPAID", "UNPAID_GONE"}
      <4>1. listed'[q][s] = real[s] /\ real[s] \in Reports \cup {"DELETED"}
        BY <1>0, <2>1, <3>2 DEF PullersTyped, MengantarTyped, Gone, Reports
      <4>2. Stands(real[s], s)
        BY DEF Stands
      <4>3. real[s] \in Reports => \E i \in DOMAIN reports[s] : reports[s][i] = real[s]
        <5> SUFFICES ASSUME real[s] \in Reports
                     PROVE  \E i \in DOMAIN reports[s] : reports[s][i] = real[s]
          OBVIOUS
        <5>1. reports[s] \in Seq(Reports)
          BY <1>0 DEF MengantarTyped
        <5>2. Len(reports[s]) > 0 /\ reports[s][Len(reports[s])] = real[s]
          BY DEF TrackingInv, ReportsSound
        <5>3. Len(reports[s]) \in DOMAIN reports[s]
          BY <5>1, <5>2
        <5> QED
          BY <5>2, <5>3
      <4> QED
        BY <2>1, <4>1, <4>2, <4>3 DEF ListingSound, Stands
    <3> QED
      BY <3>1, <3>2
  <2>3. \A v \in Pullers \ {q} : listed'[v] = listed[v]
    BY <1>0, <2>1 DEF PullersTyped
  <2>4. \A v \in Pullers \ {q}, s \in Shipments : ListingSound(v, s)'
    BY <2>1, <2>3 DEF TrackingInv, ListingSound, Stands
  <2>5. \A v \in Pullers, s \in Shipments : ListingSound(v, s)'
    BY <2>2, <2>4
  <2> QED
    BY <2>1, <2>5, StatusMoves DEF TrackingInv
<1>4. CASE RecordProviderSettlementPull(q)
  <2>1. /\ UNCHANGED <<real, reports, heard, canceller>> /\ EndPull(q)
        /\ \A s \in Shipments : shipment'[s] = PullMoves(q, s)
    BY <1>4 DEF RecordProviderSettlementPull
  <2>2. ASSUME NEW s \in Shipments, shipment'[s] # shipment[s]
        PROVE  StatusSound(s)' /\ shipment[s] \notin {"DELIVERED", "CANCELLED"}
    <3>1. /\ shipment'[s] \in ALLOWED_TRANSITIONS[shipment[s]] /\ shipment[s] \in Life
          /\ \/ listed[q][s] = "DELETED" /\ shipment'[s] = "CANCELLED"
             \/ listed[q][s] \in Reports /\ shipment'[s] = PulledState(listed[q][s])
      BY <1>0, <2>1, <2>2, PullMove DEF RowsTyped
    <3>2. Stands(listed[q][s], s)
      BY DEF TrackingInv, ListingSound
    <3>3. StatusSound(s)'
      BY <2>1, <3>1, <3>2, MappedReports DEF StatusSound, Stands, Gone
    <3> QED
      BY <3>1, <3>3, CancelledStays
  <2> QED
    BY <1>1, <2>1, <2>2, StatusMoves DEF TrackingInv
<1> QED
  BY <1>2, <1>3, <1>4 DEF PullerStep

\* A decision on an outcome, where the shipment tells no other outcome and no return.
LEMMA OutcomeDecided ==
    ASSUME NEW word \in {"DELIVERED", "CANCELLED"}, NEW current \in Life,
           current \notin {"DELIVERED", "RTS_QUEUED", "RTS_IN_TRANSIT", "RTS_RECEIVED",
                           "CANCELLED"} \ {word}
    PROVE  Outcome(word, current) \in {"APPLIED", "UNCHANGED"}
           /\ (Outcome(word, current) = "UNCHANGED" => current = word)
BY DEF Outcome, ReturnAlreadyAtOrPast, ReturnProgress, ALLOWED_TRANSITIONS, Life

\* The webhook's event is applied, or the shipment shows it already, when it is an outcome:
\* it is the last report, so no newer one was heard.
LEMMA WebhookTracks ==
    ASSUME TypeOK, TrackingInv, NEW s \in Shipments, NEW i \in DOMAIN reports[s],
           RecordMengantarWebhookEvent(s, i)
    PROVE  TrackingInv'
<1> USE DEF rows, observed, mengantar, canceller, puller
<1>0. /\ RowsTyped /\ MengantarTyped /\ ObservedTyped /\ reports[s] \in Seq(Reports)
      /\ ReportsSound(s) /\ StatusSound(s) /\ shipment[s] \in Life
  BY TypeParts DEF TrackingInv, RowsTyped, MengantarTyped
<1>1. /\ UNCHANGED <<real, reports, canceller, listed>>
      /\ heard' = [heard EXCEPT ![s] = @ \cup {i}]
  BY DEF RecordMengantarWebhookEvent
<1>2. /\ heard'[s] = heard[s] \cup {i} /\ \A t \in Shipments \ {s} : heard'[t] = heard[t]
  BY <1>0, <1>1 DEF ObservedTyped
<1>3. /\ \A t \in Shipments \ {s} : shipment'[t] = shipment[t]
      /\ \/ shipment'[s] = shipment[s]
         \/ /\ shipment'[s] = WebhookState(reports[s][i])
            /\ shipment'[s] \in ALLOWED_TRANSITIONS[shipment[s]]
      /\ reports[s][i] \in Reports
  BY <1>0, WebhookMove DEF RowsTyped
<1>4. Stands(reports[s][i], s)
  BY <1>0 DEF ReportsSound
<1>5. StatusSound(s)'
  <2>1. CASE shipment'[s] = shipment[s]
    BY <1>0, <1>1, <2>1 DEF StatusSound
  <2>2. CASE shipment'[s] = WebhookState(reports[s][i])
    BY <1>1, <1>3, <1>4, <2>2, MappedReports DEF StatusSound, Stands, Gone
  <2> QED
    BY <1>3, <2>1, <2>2
<1>6. ReportsSound(s)'
  BY <1>0, <1>1, <1>2 DEF ReportsSound, Stands
<1>7. ASSUME NEW t \in Shipments \ {s} PROVE ReportsSound(t)' /\ StatusSound(t)'
  BY <1>1, <1>2, <1>3 DEF TrackingInv, ReportsSound, StatusSound, Stands
<1>8. ASSUME reports[s][i] \in {"DELIVERED", "CANCELLED"} PROVE shipment'[s] = reports[s][i]
  <2>1. i = Len(reports[s]) /\ real[s] = reports[s][i]
    BY <1>0, <1>4, <1>8 DEF ReportsSound, Stands
  <2>2. \A j \in heard[s] : ~(j > i)
    BY <1>0, <2>1 DEF ReportsSound
  <2>3. WebhookState(reports[s][i]) = reports[s][i]
    BY <1>3, <1>8, MappedReports
  <2>4. shipment[s] \notin {"DELIVERED", "RTS_QUEUED", "RTS_IN_TRANSIT", "RTS_RECEIVED",
                            "CANCELLED"} \ {reports[s][i]}
    BY <1>0, <1>8, <2>1 DEF StatusSound, Gone
  <2>5. SqlOutcome(reports[s][i], shipment[s]) = Outcome(reports[s][i], shipment[s])
    BY <1>0, <1>8, Decided DEF Mapped
  <2>6. CASE Outcome(reports[s][i], shipment[s]) = "APPLIED"
    <3>1. WebhookOutcome(s, i) = "APPLIED"
      BY <2>2, <2>3, <2>5, <2>6 DEF WebhookOutcome
    <3> QED
      BY <1>0, <2>3, <3>1 DEF RecordMengantarWebhookEvent, RowsTyped
  <2>7. CASE Outcome(reports[s][i], shipment[s]) = "UNCHANGED"
    <3>1. WebhookOutcome(s, i) = "UNCHANGED"
      BY <2>3, <2>5, <2>7 DEF WebhookOutcome
    <3>2. shipment[s] = reports[s][i]
      BY <1>0, <1>8, <2>4, <2>7, OutcomeDecided
    <3> QED
      BY <3>1, <3>2 DEF RecordMengantarWebhookEvent
  <2> QED
    BY <1>0, <1>8, <2>4, <2>6, <2>7, OutcomeDecided
<1>9. FinalReportHolds'
  <2>1. ASSUME NEW j \in heard[s], reports[s][j] \in {"DELIVERED", "CANCELLED"}
        PROVE  shipment'[s] = reports[s][j]
    <3>1. shipment[s] = reports[s][j]
      BY <2>1 DEF TrackingInv, FinalReportHolds
    <3> QED
      BY <1>0, <1>3, <2>1, <3>1, CancelledStays
  <2>2. \A j \in heard'[s] : reports'[s][j] \in {"DELIVERED", "CANCELLED"} =>
           shipment'[s] = reports'[s][j]
    BY <1>1, <1>2, <1>8, <2>1
  <2>3. \A t \in Shipments \ {s} : \A j \in heard'[t] :
           reports'[t][j] \in {"DELIVERED", "CANCELLED"} => shipment'[t] = reports'[t][j]
    BY <1>1, <1>2, <1>3 DEF TrackingInv, FinalReportHolds
  <2> QED
    BY <2>2, <2>3 DEF FinalReportHolds
<1>10. \A t \in Shipments : ReportsSound(t)' /\ StatusSound(t)'
  BY <1>5, <1>6, <1>7
<1>11. \A q \in Pullers, t \in Shipments : ListingSound(q, t)'
  BY <1>1, ListingStays
<1>12. \A c \in Cancellers : cpc'[c] = "deleted" => real'[victim'[c]] \in Gone
  BY <1>1 DEF TrackingInv
<1> QED
  BY <1>9, <1>10, <1>11, <1>12 DEF TrackingInv

\* From an end, or beyond a return, the courier takes no order.
LEMMA JourneyFacts ==
    ASSUME NEW status, NEW next \in Journey(status)
    PROVE  /\ next \in Reports /\ status \notin Gone \cup {"DELIVERED"}
           /\ status \in {"RTS", "RTS_RETURNING"} => next = "RTS_RETURNING"
BY DEF Journey, Reports, Gone

\* What Mengantar says next does not take back what it said.
LEMMA WorldTracks ==
    ASSUME TypeOK, TrackingInv, NEW s \in Shipments,
           MengantarStep(s) \/ RecoveryClaimAges(s) \/ MarkStaleUnpaidRecoveryUnknown(s)
    PROVE  TrackingInv'
<1> USE DEF rows, observed, mengantar, canceller, puller
<1>1. CASE UNCHANGED <<shipment, real, reports, heard, listed, canceller>>
  BY <1>1, StatusMoves, ListingStays DEF TrackingInv
<1>2. CASE CourierMoves(s)
  <2>1. PICK next \in Journey(real[s]) :
           /\ real' = [real EXCEPT ![s] = next]
           /\ reports' = [reports EXCEPT ![s] = Append(@, next)]
    BY <1>2 DEF CourierMoves
  <2>2. UNCHANGED <<shipment, heard, listed, canceller>>
    BY <1>2 DEF CourierMoves
  <2> QED
    BY <2>1, <2>2, JourneyFacts, OrderMoves
<1>3. CASE UnpaidOrderLapses(s)
  <2>1. real[s] \notin Gone \cup {"DELIVERED", "RTS", "RTS_RETURNING"}
    BY <1>3 DEF UnpaidOrderLapses, Gone
  <2> QED
    BY <1>3, <2>1, OrderMoves DEF UnpaidOrderLapses
<1>4. CASE LatePaymentLands(s)
  BY <1>4, ChargeMoves DEF LatePaymentLands
<1>5. CASE LateDeleteLands(s)
  BY <1>5, DeleteMoves DEF LateDeleteLands
<1>6. CASE \/ LatePaymentDropped(s) \/ LateDeleteDropped(s) \/ RecoveryClaimAges(s)
           \/ MarkStaleUnpaidRecoveryUnknown(s)
  BY <1>1, <1>6 DEF LatePaymentDropped, LateDeleteDropped, RecoveryClaimAges,
     MarkStaleUnpaidRecoveryUnknown
<1> QED
  BY <1>2, <1>3, <1>4, <1>5, <1>6 DEF MengantarStep

\* Every status in an end, or in a return, is the truth at Mengantar, and every listing and
\* event, however stale, still tells of an outcome that stands.
THEOREM TrackingSound == Spec => [](TypeOK /\ TrackingInv)
<1>1. Init => TrackingInv
  <2> SUFFICES ASSUME Init PROVE TrackingInv
    OBVIOUS
  <2>1. \A s \in Shipments : ReportsSound(s) /\ StatusSound(s)
    BY DEF Init, ReportsSound, StatusSound, Stands, Gone, Reports
  <2>2. \A q \in Pullers, s \in Shipments : ListingSound(q, s)
    BY DEF Init, ListingSound, Stands
  <2> QED
    BY <2>1, <2>2 DEF Init, TrackingInv, FinalReportHolds
<1>2. TypeOK /\ TrackingInv /\ [Next]_vars => TrackingInv'
  <2> SUFFICES ASSUME TypeOK, TrackingInv, [Next]_vars PROVE TrackingInv'
    OBVIOUS
  <2>1. CASE UNCHANGED vars
    BY <2>1, StatusMoves, ListingStays
    DEF vars, rows, observed, mengantar, canceller, puller, TrackingInv
  <2> QED
    BY <2>1, PayerTracks, CancellerTracks, PullerTracks, WebhookTracks, WorldTracks DEF Next
<1> QED
  BY <1>1, <1>2, PaymentTypeCorrect, PTL DEF Spec

\* A shipment shown as CANCELLED is gone at Mengantar.
THEOREM CancelledGone == Spec => []CancelledIsGone
<1>1. TrackingInv => CancelledIsGone
  BY DEF TrackingInv, StatusSound, CancelledIsGone
<1> QED
  BY <1>1, TrackingSound, PTL

\* A reported delivery or cancellation that the webhook heard stands.
THEOREM OutcomeStands == Spec => []FinalReportHolds
<1>1. TrackingInv => FinalReportHolds
  BY DEF TrackingInv
<1> QED
  BY <1>1, TrackingSound, PTL

-----------------------------------------------------------------------------
(* The lifecycle that the shipments' status promises *)

\* What Mengantar reported names states of the life of a shipment.
LEMMA SaidTyped ==
    ASSUME TypeOK, NEW s \in Shipments
    PROVE  SaidOf(s) \ {"NONE"} \subseteq Life
<1>1. reports[s] \in Seq(Reports)
  BY TypeParts DEF MengantarTyped
<1>2. \A i \in DOMAIN reports[s] : reports[s][i] \in Reports
  BY <1>1
<1>3. Mapped \ {"NONE"} \subseteq Life
  BY DEF Mapped, Life
<1> QED
  BY <1>2, <1>3, MappedReports DEF SaidOf

\* What Mengantar said of an order are states of the life of a shipment.
LEMMA SaidTypedNext ==
    ASSUME TypeOK', NEW s \in Shipments
    PROVE  (SaidOf(s) \ {"NONE"} \subseteq Life)'
<1>1. reports'[s] \in Seq(Reports)
  BY TypeParts DEF MengantarTyped
<1>2. \A i \in DOMAIN reports'[s] : reports'[s][i] \in Reports
  BY <1>1
<1>3. Mapped \ {"NONE"} \subseteq Life
  BY DEF Mapped, Life
<1> QED
  BY <1>2, <1>3, MappedReports DEF SaidOf

\* What was paid, deleted or reported stays so: the world of the lifecycle moves.
LEMMA WorldMaps ==
    ASSUME TypeOK', UNCHANGED shipment,
           \A s \in Shipments :
              /\ paid[s] > 0 => paid'[s] > 0
              /\ real[s] \in Gone => real'[s] \in Gone
              /\ \A i \in DOMAIN reports[s] :
                    i \in DOMAIN reports'[s] /\ reports'[s][i] = reports[s][i]
    PROVE  Promise!World
<1>1. \A s \in Shipments : SaidOf(s) \subseteq SaidOf(s)'
  BY DEF SaidOf
<1>2. \A s \in Shipments : (SaidOf(s) \ {"NONE"} \subseteq Life)'
  BY SaidTypedNext
<1>3. [s \in Shipments |-> SaidOf(s) \ {"NONE"}]' \in [Shipments -> SUBSET Life]
  BY <1>2
<1>4. [s \in Shipments |-> SaidOf(s) \ {"NONE"}]' \in [Shipments -> SUBSET Promise!Life]
  BY <1>3 DEF Promise!Life, Life
<1>5. \A s \in Shipments : [t \in Shipments |-> SaidOf(t) \ {"NONE"}][s]
                             \subseteq [t \in Shipments |-> SaidOf(t) \ {"NONE"}]'[s]
  BY <1>1
<1>6. /\ {s \in Shipments : paid[s] > 0} \subseteq {s \in Shipments : paid[s] > 0}'
      /\ {s \in Shipments : real[s] \in Gone} \subseteq {s \in Shipments : real[s] \in Gone}'
  OBVIOUS
<1> QED
  BY <1>4, <1>5, <1>6 DEF Promise!World

\* Mengantar's side moves as the promise lets it, beside shipments that stand still.
LEMMA MengantarGoesOn ==
    ASSUME TypeOK, TrackingInv, TypeOK', UNCHANGED shipment,
           \/ UNCHANGED <<real, reports, paid>>
           \/ \E s \in Shipments : \/ Charge(s) \/ Delete(s)
                                  \/ CourierMoves(s) \/ UnpaidOrderLapses(s)
    PROVE  Promise!World
<1>0. /\ real \in [Shipments -> Reports \cup Gone \cup {"UNPAID"}]
      /\ reports \in [Shipments -> Seq(Reports)] /\ paid \in [Shipments -> Nat]
  BY TypeParts DEF MengantarTyped
<1>1. CASE UNCHANGED <<real, reports, paid>>
  BY <1>1, WorldMaps
<1>2. ASSUME NEW s \in Shipments, Charge(s) PROVE Promise!World
  <2>1. \A t \in Shipments : paid[t] > 0 => paid'[t] > 0
    BY <1>0, <1>2 DEF Charge
  <2>2. \A t \in Shipments : real[t] \in Gone => real'[t] \in Gone
    BY <1>0, <1>2 DEF Charge, Gone
  <2>3. ASSUME NEW t \in Shipments, NEW i \in DOMAIN reports[t] PROVE reports'[t] = reports[t]
    <3>1. real[t] = "UNPAID" => DOMAIN reports[t] = {}
      BY DEF TrackingInv, ReportsSound
    <3> QED
      BY <1>0, <1>2, <3>1 DEF Charge
  <2> QED
    BY <2>1, <2>2, <2>3, WorldMaps
<1>3. ASSUME NEW s \in Shipments, Delete(s) PROVE Promise!World
  <2>1. \A t \in Shipments : real[t] \in Gone => real'[t] \in Gone
    BY <1>0, <1>3 DEF Delete, Gone
  <2> QED
    BY <1>3, <2>1, WorldMaps DEF Delete
<1>4. ASSUME NEW s \in Shipments, UnpaidOrderLapses(s) PROVE Promise!World
  <2>1. \A t \in Shipments : real[t] \in Gone => real'[t] \in Gone
    BY <1>0, <1>4 DEF UnpaidOrderLapses, Gone
  <2> QED
    BY <1>4, <2>1, WorldMaps DEF UnpaidOrderLapses
<1>5. ASSUME NEW s \in Shipments, CourierMoves(s) PROVE Promise!World
  <2>1. PICK next \in Journey(real[s]) :
           /\ real' = [real EXCEPT ![s] = next]
           /\ reports' = [reports EXCEPT ![s] = Append(@, next)]
    BY <1>5 DEF CourierMoves
  <2>2. next \in Reports /\ real[s] \notin Gone
    BY <2>1, JourneyFacts
  <2>3. \A t \in Shipments : real[t] \in Gone => real'[t] \in Gone
    BY <1>0, <2>1, <2>2
  <2>4. /\ \A t \in Shipments \ {s} : reports'[t] = reports[t]
        /\ reports'[s] = Append(reports[s], next) /\ reports[s] \in Seq(Reports)
    BY <1>0, <2>1
  <2>5. \A i \in DOMAIN reports[s] : i \in DOMAIN reports'[s] /\ reports'[s][i] = reports[s][i]
    BY <2>2, <2>4, AppendFacts
  <2>6. \A t \in Shipments : \A i \in DOMAIN reports[t] :
           i \in DOMAIN reports'[t] /\ reports'[t][i] = reports[t][i]
    BY <2>4, <2>5
  <2> QED
    BY <1>5, <2>3, <2>6, WorldMaps DEF CourierMoves
<1> QED
  BY <1>1, <1>2, <1>3, <1>4, <1>5

\* Shipments that move all do so on Mengantar's word.
LEMMA FollowMaps ==
    ASSUME UNCHANGED <<real, reports, paid>>, TypeOK, TypeOK',
           \A s \in Shipments : shipment'[s] # shipment[s] =>
              /\ shipment'[s] \in ALLOWED_TRANSITIONS[shipment[s]]
              /\ \/ shipment'[s] = "CANCELLED" /\ real[s] \in Gone
                 \/ shipment'[s] \in SaidOf(s) /\ shipment[s] # "AWAITING_UPSTREAM_PAYMENT"
    PROVE  Promise!Follow
<1> DEFINE moved == {s \in Shipments : shipment'[s] # shipment[s]}
           next == [s \in moved |-> shipment'[s]]
<1>1. shipment' \in [Shipments -> Life]
  BY TypeParts DEF RowsTyped
<1>2. next \in [moved -> Life] /\ moved \in SUBSET Shipments
  BY <1>1
<1>3. "NONE" \notin Life
  BY DEF Life
<1>4. ASSUME NEW s \in moved PROVE Promise!Supported(s, next[s])
  BY <1>1, <1>3 DEF Promise!Supported, Promise!ALLOWED_TRANSITIONS, ALLOWED_TRANSITIONS,
     Promise!Life, Life
<1>5. shipment' = [s \in Shipments |-> IF s \in moved THEN next[s] ELSE shipment[s]]
  BY <1>1
<1>6. UNCHANGED << {s \in Shipments : paid[s] > 0}, {s \in Shipments : real[s] \in Gone},
                   [s \in Shipments |-> SaidOf(s) \ {"NONE"}] >>
  BY DEF SaidOf
<1> HIDE DEF moved, next
<1> QED
  BY <1>2, <1>4, <1>5, <1>6 DEF Promise!Follow, Promise!Life, Life

\* Every step of a recovery, a cancellation, a pull and the rest is one the promise allows.
LEMMA PayerMaps ==
    ASSUME TypeOK, PaymentInv, TrackingInv, TypeOK', NEW p \in Payers, PayerStep(p)
    PROVE  Promise!Next
<1> USE DEF rows, mengantar
<1>1. CASE CompleteUnpaidRecovery(p)
  <2>1. PICK s \in Shipments : s = paying[p]
    BY <1>1, InHand DEF CompleteUnpaidRecovery
  <2>2. /\ shipment[s] = "AWAITING_UPSTREAM_PAYMENT" /\ pc[p] = "answered"
        /\ shipment' = [shipment EXCEPT ![s] = "ISSUED"]
        /\ UNCHANGED <<real, reports, paid>>
    BY <1>1, <2>1 DEF CompleteUnpaidRecovery, Awaiting
  <2>3. paid[s] > 0
    BY <2>1, <2>2 DEF PaymentInv, ClaimSound, Claiming
  <2>4. UNCHANGED << {t \in Shipments : paid[t] > 0}, {t \in Shipments : real[t] \in Gone},
                     [t \in Shipments |-> SaidOf(t) \ {"NONE"}] >>
    BY <2>2 DEF SaidOf
  <2>5. Promise!Issue(s)
    BY <2>2, <2>3, <2>4 DEF Promise!Issue
  <2> QED
    BY <2>5 DEF Promise!Next
<1>2. CASE PaymentAccepted(p) \/ PaymentAnswerLost(p)
  <2>1. paying[p] \in Shipments
    BY <1>2, InHand DEF PaymentAccepted, PaymentAnswerLost
  <2>2. UNCHANGED shipment /\ (Charge(paying[p]) \/ UNCHANGED <<real, reports, paid>>)
    BY <1>2 DEF PaymentAccepted, PaymentAnswerLost
  <2> QED
    BY <2>1, <2>2, MengantarGoesOn DEF Promise!Next
<1>3. CASE ~(PaymentAccepted(p) \/ PaymentAnswerLost(p) \/ CompleteUnpaidRecovery(p))
  <2>1. UNCHANGED <<shipment, real, reports, paid>>
    BY <1>3 DEF PayerStep, LoadRecoveryTarget, ClaimUnpaidRecovery, RecoveryTaken,
       PrepareUnpaidRecoveries, LockForPayment, RefreshUnpaidRecoveryClaim,
       UnpaidRecoveryClaimLost, FailBeforePayment, PayUnpaid, PaymentRefused, CompletionFails,
       ReleaseUnpaidRecoveryClaim, PaymentNotReleased, MarkUnpaidRecoveryUnknown, PaymentEnds,
       PayerCrashes
  <2> QED
    BY <2>1, MengantarGoesOn DEF Promise!Next
<1> QED
  BY <1>1, <1>2, <1>3

\* A cancellation records only an order that is gone.
LEMMA CancellerMaps ==
    ASSUME TypeOK, TrackingInv, TypeOK', NEW c \in Cancellers, CancellerStep(c)
    PROVE  Promise!Next
<1> USE DEF rows, mengantar
<1>0. cpc[c] # "idle" => victim[c] \in Shipments
  BY TypeParts DEF CancellersTyped
<1>1. CASE RecordShipmentCancelled(c)
  <2>1. PICK s \in Shipments : s = victim[c]
    BY <1>0, <1>1 DEF RecordShipmentCancelled
  <2>2. real[s] \in Gone /\ UNCHANGED <<real, reports, paid>>
    BY <1>1, <2>1 DEF RecordShipmentCancelled, TrackingInv
  <2>3. CASE UNCHANGED shipment
    BY <2>2, <2>3, MengantarGoesOn DEF Promise!Next
  <2>4. CASE /\ shipment[s] = "CANCELLED" \/ "CANCELLED" \in ALLOWED_TRANSITIONS[shipment[s]]
             /\ shipment' = [shipment EXCEPT ![s] = "CANCELLED"]
    <3>1. \A t \in Shipments : shipment'[t] = IF t = s THEN "CANCELLED" ELSE shipment[t]
      BY <2>4, TypeParts DEF RowsTyped
    <3> QED
      BY <2>2, <2>4, <3>1, FollowMaps DEF Promise!Next
  <2> QED
    BY <1>1, <2>1, <2>3, <2>4 DEF RecordShipmentCancelled
<1>2. CASE OrderDeleted(c) \/ DeleteAnswerLost(c)
  <2>1. victim[c] \in Shipments
    BY <1>0, <1>2 DEF OrderDeleted, DeleteAnswerLost
  <2>2. UNCHANGED shipment /\ (Delete(victim[c]) \/ UNCHANGED <<real, reports, paid>>)
    BY <1>2 DEF OrderDeleted, DeleteAnswerLost
  <2> QED
    BY <2>1, <2>2, MengantarGoesOn DEF Promise!Next
<1>3. CASE ~(RecordShipmentCancelled(c) \/ OrderDeleted(c) \/ DeleteAnswerLost(c))
  <2>1. UNCHANGED <<shipment, real, reports, paid>>
    BY <1>3 DEF CancellerStep, CheckCancel, LockForCancel, RecheckCancel, CancelNotAllowed,
       DeleteOrder, OrderSkipped, DeleteRefused, NotRecorded, CancellerCrashes
  <2> QED
    BY <2>1, MengantarGoesOn DEF Promise!Next
<1> QED
  BY <1>1, <1>2, <1>3

\* A pull records only what was said.
LEMMA PullerMaps ==
    ASSUME TypeOK, PaymentInv, TrackingInv, TypeOK', NEW q \in Pullers, PullerStep(q)
    PROVE  Promise!Next
<1> USE DEF rows, mengantar
<1>1. CASE ListOrders(q) \/ AbandonPull(q)
  <2>1. UNCHANGED <<shipment, real, reports, paid>>
    BY <1>1 DEF ListOrders, AbandonPull
  <2> QED
    BY <2>1, MengantarGoesOn DEF Promise!Next
<1>2. CASE RecordProviderSettlementPull(q)
  <2>1. /\ UNCHANGED <<real, reports, paid>>
        /\ \A s \in Shipments : shipment'[s] = PullMoves(q, s)
    BY <1>2 DEF RecordProviderSettlementPull
  <2>2. ASSUME NEW s \in Shipments, shipment'[s] # shipment[s]
        PROVE  /\ shipment'[s] \in ALLOWED_TRANSITIONS[shipment[s]]
               /\ \/ shipment'[s] = "CANCELLED" /\ real[s] \in Gone
                  \/ shipment'[s] \in SaidOf(s) /\ shipment[s] # "AWAITING_UPSTREAM_PAYMENT"
    <3>1. /\ order[s] = "ISSUED" /\ listed[q][s] # "ABSENT"
          /\ shipment'[s] \in ALLOWED_TRANSITIONS[shipment[s]]
          /\ \/ listed[q][s] = "DELETED" /\ shipment'[s] = "CANCELLED"
             \/ listed[q][s] \in Reports /\ shipment'[s] = PulledState(listed[q][s])
      BY <2>1, <2>2, PullMove
    <3>2. ListingSound(q, s)
      BY DEF TrackingInv
    <3>3. shipment[s] # "AWAITING_UPSTREAM_PAYMENT"
      BY <3>1 DEF PaymentInv, RecoverySound
    <3>4. CASE listed[q][s] = "DELETED"
      BY <3>1, <3>2, <3>4 DEF ListingSound, Stands, Gone, Reports
    <3>5. CASE listed[q][s] \in Reports
      <4>1. PICK i \in DOMAIN reports[s] : reports[s][i] = listed[q][s]
        BY <3>2, <3>5 DEF ListingSound, Reports
      <4> QED
        BY <3>1, <3>3, <3>5, <4>1 DEF SaidOf, Reports
    <3> QED
      BY <3>1, <3>4, <3>5
  <2> QED
    BY <2>1, <2>2, FollowMaps DEF Promise!Next
<1> QED
  BY <1>1, <1>2 DEF PullerStep

\* The webhook records only what was said, too.
LEMMA WorldStepMaps ==
    ASSUME TypeOK, PaymentInv, TrackingInv, TypeOK', NEW s \in Shipments,
           \/ MengantarStep(s) \/ RecoveryClaimAges(s) \/ MarkStaleUnpaidRecoveryUnknown(s)
           \/ \E i \in DOMAIN reports[s] : RecordMengantarWebhookEvent(s, i)
    PROVE  Promise!Next
<1> USE DEF rows, mengantar
<1>1. CASE MengantarStep(s) \/ RecoveryClaimAges(s) \/ MarkStaleUnpaidRecoveryUnknown(s)
  <2>1. /\ UNCHANGED shipment
        /\ \/ UNCHANGED <<real, reports, paid>>
           \/ Charge(s) \/ Delete(s) \/ CourierMoves(s) \/ UnpaidOrderLapses(s)
    BY <1>1 DEF MengantarStep, CourierMoves, UnpaidOrderLapses, LatePaymentLands,
       LatePaymentDropped, LateDeleteLands, LateDeleteDropped, RecoveryClaimAges,
       MarkStaleUnpaidRecoveryUnknown
  <2> QED
    BY <2>1, MengantarGoesOn DEF Promise!Next
<1>2. ASSUME NEW i \in DOMAIN reports[s], RecordMengantarWebhookEvent(s, i) PROVE Promise!Next
  <2>1. UNCHANGED <<real, reports, paid>> /\ order[s] = "ISSUED"
    BY <1>2 DEF RecordMengantarWebhookEvent
  <2>2. /\ \A t \in Shipments \ {s} : shipment'[t] = shipment[t]
        /\ shipment'[s] # shipment[s] =>
              /\ shipment'[s] = WebhookState(reports[s][i])
              /\ shipment'[s] \in ALLOWED_TRANSITIONS[shipment[s]]
    BY <1>2, WebhookMove, TypeParts DEF RowsTyped
  <2>3. shipment[s] # "AWAITING_UPSTREAM_PAYMENT"
    BY <2>1 DEF PaymentInv, RecoverySound
  <2>4. WebhookState(reports[s][i]) \in SaidOf(s)
    BY DEF SaidOf
  <2> QED
    BY <2>1, <2>2, <2>3, <2>4, FollowMaps DEF Promise!Next
<1> QED
  BY <1>1, <1>2

\* Every step is a step of the lifecycle, or leaves it alone.
LEMMA StepMaps ==
    TypeOK /\ PaymentInv /\ TrackingInv /\ TypeOK' /\ [Next]_vars => [Promise!Next]_(Promise!vars)
<1> SUFFICES ASSUME TypeOK, PaymentInv, TrackingInv, TypeOK', [Next]_vars
             PROVE  [Promise!Next]_(Promise!vars)
  OBVIOUS
<1>1. CASE UNCHANGED vars
  BY <1>1, MengantarGoesOn DEF vars, rows, mengantar, Promise!Next
<1> QED
  BY <1>1, PayerMaps, CancellerMaps, PullerMaps, WorldStepMaps DEF Next

\* Paying, cancelling, pulling and the webhook keep the lifecycle: ISSUED only after a
\* payment, CANCELLED only for an order that is gone, any other move only on a report.
THEOREM LifecycleImplemented == Spec => ImplementsLifecycle
<1>1. Init => Promise!Init
  <2> SUFFICES ASSUME Init PROVE Promise!Init
    OBVIOUS
  <2>1. {s \in Shipments : paid[s] > 0} = {} /\ {s \in Shipments : real[s] \in Gone} = {}
    BY DEF Init, Gone
  <2>2. ASSUME NEW s \in Shipments PROVE SaidOf(s) \ {"NONE"} = {}
    <3>1. \A i \in DOMAIN reports[s] : reports[s][i] = "PENDING"
      BY DEF Init
    <3> QED
      BY <3>1 DEF SaidOf, PulledState, WebhookState
  <2> QED
    BY <2>1, <2>2 DEF Init, Promise!Init
<1> QED
  BY <1>1, StepMaps, PaymentSound, TrackingSound, PTL DEF Spec, ImplementsLifecycle, Promise!Spec

\* Whatever pulls, webhooks, payments and cancellations race, and in whatever order their
\* reports come: a delivered, returned or cancelled shipment stays so, a return never
\* becomes anything else and never goes back, and nothing becomes unpaid again.
LifeMovesForward ==
    [][\A s \in Shipments :
          /\ shipment[s] \in Final => shipment'[s] = shipment[s]
          /\ ReturnProgress(shipment'[s]) >= ReturnProgress(shipment[s])
          /\ ReturnProgress(shipment[s]) > 0 => ReturnProgress(shipment'[s]) > 0
          /\ shipment'[s] = "AWAITING_UPSTREAM_PAYMENT" => shipment'[s] = shipment[s]]_vars

\* It follows from the lifecycle: every move is one of the transition graph.
THEOREM LifeNeverGoesBack == Spec => LifeMovesForward
<1> DEFINE Forward(s) ==
             /\ shipment[s] \in Final => shipment'[s] = shipment[s]
             /\ ReturnProgress(shipment'[s]) >= ReturnProgress(shipment[s])
             /\ ReturnProgress(shipment[s]) > 0 => ReturnProgress(shipment'[s]) > 0
             /\ shipment'[s] = "AWAITING_UPSTREAM_PAYMENT" => shipment'[s] = shipment[s]
<1>1. ASSUME TypeOK, [Promise!Next]_(Promise!vars), NEW s \in Shipments PROVE Forward(s)
  <2>1. shipment[s] \in Life
    BY <1>1 DEF TypeOK
  <2>2. ASSUME shipment'[s] = shipment[s] PROVE Forward(s)
    <3>1. ReturnProgress(shipment[s]) \in Nat
      BY DEF ReturnProgress
    <3> QED
      BY <2>2, <3>1
  <2>3. ASSUME shipment'[s] \in ALLOWED_TRANSITIONS[shipment[s]] PROVE Forward(s)
    BY <2>1, <2>3 DEF Life, Final, ALLOWED_TRANSITIONS, ReturnProgress
  <2>4. CASE UNCHANGED shipment
    BY <2>2, <2>4
  <2>5. ASSUME NEW t \in Shipments, Promise!Issue(t) PROVE Forward(s)
    <3>1. CASE t = s
      BY <1>1, <2>5, <3>1 DEF Promise!Issue, TypeOK, Final, ReturnProgress
    <3>2. CASE t # s
      BY <1>1, <2>2, <2>5, <3>2 DEF Promise!Issue, TypeOK
    <3> QED
      BY <3>1, <3>2
  <2>6. CASE Promise!Follow
    <3>1. PICK S \in SUBSET Shipments : \E next \in [S -> Promise!Life] :
             /\ \A t \in S : Promise!Supported(t, next[t])
             /\ shipment' = [t \in Shipments |-> IF t \in S THEN next[t] ELSE shipment[t]]
      BY <2>6 DEF Promise!Follow
    <3>2. ASSUME s \in S PROVE shipment'[s] \in ALLOWED_TRANSITIONS[shipment[s]]
      <4>1. PICK next \in [S -> Promise!Life] :
               /\ \A t \in S : Promise!Supported(t, next[t])
               /\ shipment' = [t \in Shipments |-> IF t \in S THEN next[t] ELSE shipment[t]]
        BY <3>1
      <4>2. shipment'[s] = next[s] /\ Promise!Supported(s, next[s])
        BY <3>2, <4>1
      <4>3. Promise!ALLOWED_TRANSITIONS = ALLOWED_TRANSITIONS
        BY DEF Promise!ALLOWED_TRANSITIONS, ALLOWED_TRANSITIONS, Promise!Life, Life
      <4> QED
        BY <4>2, <4>3 DEF Promise!Supported
    <3>3. s \notin S => shipment'[s] = shipment[s]
      BY <3>1
    <3> QED
      BY <2>2, <2>3, <3>2, <3>3
  <2> QED
    BY <1>1, <2>4, <2>5, <2>6 DEF Promise!Next, Promise!World, Promise!vars
<1>2. TypeOK /\ PaymentInv /\ TrackingInv /\ TypeOK' /\ [Next]_vars
        => [\A s \in Shipments : Forward(s)]_vars
  BY <1>1, StepMaps
<1> QED
  BY <1>2, PaymentSound, TrackingSound, PTL DEF Spec, LifeMovesForward
=============================================================================
