-------------------------- MODULE OrderSubmission --------------------------
(***************************************************************************)
(* Submission of confirmed shipments to Mengantar and reconciliation of    *)
(* the submissions whose outcome was lost.                                 *)
(*                                                                         *)
(* The variables are the rows two application instances share (shipments,  *)
(* provider_order_snapshots, provider_batches, ledger_entries), the        *)
(* PostgreSQL advisory lock of each Mengantar account, the orders stored   *)
(* at Mengantar, and the program counter of each server request that runs  *)
(* submitPreparedBatch (a worker) or reconcileFixtureBackedShipment (a     *)
(* reconciler).  One action is one database transaction, one answer of     *)
(* Mengantar, or one failure; a process may stop between any two of them.  *)
(*                                                                         *)
(* A Mengantar order is named by the shipment its POST /order was built    *)
(* for, so created[s] counts the orders Mengantar made for s.              *)
(***************************************************************************)
EXTENDS Naturals, FiniteSets

CONSTANTS
    Shipments,       \* confirmed selections, one per shipment
    Batches,         \* provider_batches rows that a confirmation may create
    Accounts,        \* Mengantar accounts (providerAccountKey)
    Workers,         \* server requests that submit batches
    Reconcilers,     \* server requests that reconcile a shipment
    BatchOf,         \* the batch the grouping of a confirmation puts s in
    AccountOf,       \* the account a batch is submitted on
    Cod,             \* the COD shipments
    LookAlike,       \* <<s, o>>: the order stored for o equals what was sent for s
    PlatformDefault, \* accounts shared by several tenants (platform_default)
    FixtureLookup,   \* the development reconciliation fixture answers
    MaxAttempts,     \* ORDER_CONFLICT_MAX_ATTEMPTS
    None

ASSUME BatchAssumption ==
    /\ BatchOf \in [Shipments -> Batches]
    /\ AccountOf \in [Batches -> Accounts]
    /\ \A b \in Batches : \E s \in Shipments : BatchOf[s] = b

ASSUME LookAlikeAssumption ==
    /\ LookAlike \subseteq Shipments \X Shipments
    /\ \A s \in Shipments : <<s, s>> \in LookAlike

ASSUME ConstantAssumption ==
    /\ Cod \subseteq Shipments
    /\ PlatformDefault \subseteq Accounts
    /\ FixtureLookup \in BOOLEAN
    /\ MaxAttempts \in Nat \ {0}
    /\ None \notin Shipments \cup Workers \cup Batches

VARIABLES
    shipment,      \* shipments.status
    orderStatus,   \* provider_order_snapshots.status, "NONE" before the row exists
    orderId,       \* provider_order_snapshots.provider_order_id
    batch,         \* provider_batches.status, "NONE" before the row exists
    clock,         \* provider_batches.submission_attempted_at against now()
    posted,        \* shipments whose issuance entries are in ledger_entries
    lock,          \* holder of the advisory lock of each account
    created,       \* orders Mengantar made for each shipment
    stored,        \* what Mengantar stores for that order
    late,          \* POST /order requests nobody waits for any more
    pc, held,      \* each worker: where it is, the batch it works on,
    todo, current, \* its members not recorded yet, the one in hand,
    sent, refused, \* the flags of submitPreparedBatch,
    tries,         \* and the attempts of submitWithConflictRetry
    rpc, target,   \* each reconciler: where it is, its shipment,
    listing,       \* the orders GET /order listed,
    found, outcome \* the one it matched and the status that follows from it

rows      == <<shipment, orderStatus, orderId, batch, clock, posted>>
mengantar == <<created, stored, late>>
worker    == <<pc, held, todo, current, sent, refused, tries>>
reconciler == <<rpc, target, listing, found, outcome>>
vars == <<rows, lock, mengantar, worker, reconciler>>

Members(b) == {s \in Shipments : BatchOf[s] = b}

Terminal == {"ISSUED", "AWAITING_UPSTREAM_PAYMENT"}
Kinds    == Terminal \cup {"UNUSABLE"}
Working  == {"prepared", "claimed", "locked", "refreshed", "posting",
             "answered", "closing", "failed", "marking"}

TypeOK ==
    /\ shipment \in [Shipments -> {"ESTIMATED", "SUBMISSION_QUEUED",
                                   "SUBMISSION_UNKNOWN", "FAILED"} \cup Terminal]
    /\ orderStatus \in [Shipments -> {"NONE", "SUBMISSION_QUEUED",
                                      "SUBMISSION_UNKNOWN", "FAILED"} \cup Terminal]
    /\ orderId \in [Shipments -> Shipments \cup {None}]
    /\ batch \in [Batches -> {"NONE", "SUBMISSION_QUEUED", "SUBMITTING",
                              "SUBMISSION_UNKNOWN", "COMPLETED", "FAILED"}]
    /\ clock \in [Batches -> {"null", "fresh", "stale"}]
    /\ posted \in SUBSET Shipments
    /\ lock \in [Accounts -> Workers \cup {None}]
    /\ created \in [Shipments -> Nat]
    /\ stored \in [Shipments -> Kinds \cup {"NONE"}]
    /\ late \in [Shipments -> Nat]
    /\ pc \in [Workers -> Working \cup {"idle"}]
    /\ held \in [Workers -> Batches \cup {None}]
    /\ todo \in [Workers -> SUBSET Shipments]
    /\ current \in [Workers -> Shipments \cup {None}]
    /\ sent \in [Workers -> BOOLEAN]
    /\ refused \in [Workers -> BOOLEAN]
    /\ tries \in [Workers -> 0..MaxAttempts]
    /\ rpc \in [Reconcilers -> {"idle", "loaded", "listed", "matched"}]
    /\ target \in [Reconcilers -> Shipments \cup {None}]
    /\ listing \in [Reconcilers -> SUBSET Shipments]
    /\ found \in [Reconcilers -> Shipments \cup {None}]
    /\ outcome \in [Reconcilers -> {"UNDETERMINED", "FAILED"} \cup Terminal]

Init ==
    /\ shipment = [s \in Shipments |-> "ESTIMATED"]
    /\ orderStatus = [s \in Shipments |-> "NONE"]
    /\ orderId = [s \in Shipments |-> None]
    /\ batch = [b \in Batches |-> "NONE"]
    /\ clock = [b \in Batches |-> "null"]
    /\ posted = {}
    /\ lock = [a \in Accounts |-> None]
    /\ created = [s \in Shipments |-> 0]
    /\ stored = [s \in Shipments |-> "NONE"]
    /\ late = [s \in Shipments |-> 0]
    /\ pc = [w \in Workers |-> "idle"]
    /\ held = [w \in Workers |-> None]
    /\ todo = [w \in Workers |-> {}]
    /\ current = [w \in Workers |-> None]
    /\ sent = [w \in Workers |-> FALSE]
    /\ refused = [w \in Workers |-> FALSE]
    /\ tries = [w \in Workers |-> 0]
    /\ rpc = [r \in Reconcilers |-> "idle"]
    /\ target = [r \in Reconcilers |-> None]
    /\ listing = [r \in Reconcilers |-> {}]
    /\ found = [r \in Reconcilers |-> None]
    /\ outcome = [r \in Reconcilers |-> "UNDETERMINED"]

-----------------------------------------------------------------------------
(* Building blocks of the handlers *)

\* A request ends: it returned, threw out of the action, or its process died.
Return(w) ==
    /\ pc' = [pc EXCEPT ![w] = "idle"]
    /\ held' = [held EXCEPT ![w] = None]
    /\ todo' = [todo EXCEPT ![w] = {}]
    /\ current' = [current EXCEPT ![w] = None]
    /\ sent' = [sent EXCEPT ![w] = FALSE]
    /\ refused' = [refused EXCEPT ![w] = FALSE]
    /\ tries' = [tries EXCEPT ![w] = 0]

\* The request goes on at `next`, everything else it holds unchanged.
Goto(w, next) ==
    /\ pc' = [pc EXCEPT ![w] = next]
    /\ UNCHANGED <<held, todo, current, sent, refused, tries>>

\* Mutant of Unlock: the finally block forgets pg_advisory_unlock.
UnlockForgotten(w) == UNCHANGED lock

\* The finally block of withProviderAccountSerialization, and the release of
\* a session lock when its connection closes.
Unlock(w) == lock' = [a \in Accounts |-> IF lock[a] = w THEN None ELSE lock[a]]

\* Mutant of LoseMembers: the updates forget WHERE status = 'SUBMISSION_QUEUED'.
LoseEveryMember(b) ==
    /\ orderStatus' = [s \in Shipments |->
                         IF s \in Members(b) THEN "SUBMISSION_UNKNOWN" ELSE orderStatus[s]]
    /\ shipment' = [s \in Shipments |->
                      IF s \in Members(b) THEN "SUBMISSION_UNKNOWN" ELSE shipment[s]]

\* The members of b that are still queued become unknown, rows and shipments.
LoseMembers(b) ==
    LET lost == {s \in Members(b) : orderStatus[s] = "SUBMISSION_QUEUED"} IN
    /\ orderStatus' = [s \in Shipments |->
                         IF s \in lost THEN "SUBMISSION_UNKNOWN" ELSE orderStatus[s]]
    /\ shipment' = [s \in Shipments |->
                      IF s \in lost /\ shipment[s] = "SUBMISSION_QUEUED"
                      THEN "SUBMISSION_UNKNOWN" ELSE shipment[s]]

\* What completeProviderOrder and appendLedgerForIssuedProviderOrder accept
\* of an order: an AWB (paid when not COD), or a non-COD order waiting for
\* payment.  Every other order is "UNUSABLE" and rolls the transaction back.
Recordable(s, kind) ==
    \/ kind = "ISSUED"
    \/ kind = "AWAITING_UPSTREAM_PAYMENT" /\ s \notin Cod

\* Mutant of PostIssue: an order that waits for payment is booked too.
PostEveryOrder(s, status) == posted' = posted \cup {s}

\* appendLedgerForIssuedProviderOrder inside the recording transaction.
PostIssue(s, status) ==
    posted' = IF status = "ISSUED" THEN posted \cup {s} ELSE posted

Owned == {orderId[s] : s \in Shipments} \ {None}

\* Mutant of Unowned: neither the check nor the unique index exists.
OwnershipUnchecked(o) == TRUE

\* No other shipment of the tenant owns order o: the unique index on
\* (tenant_id, provider_order_id), and the check of the reconciliation.
Unowned(o) == o \notin Owned

-----------------------------------------------------------------------------
(* Confirmation: prepareProviderBatches *)

\* First confirmation: the batch, its order snapshots and the queued shipments.
PrepareProviderBatch(w, b) ==
    /\ pc[w] = "idle"
    /\ batch[b] = "NONE"
    /\ \A s \in Members(b) : shipment[s] = "ESTIMATED"
    /\ batch' = [batch EXCEPT ![b] = "SUBMISSION_QUEUED"]
    /\ orderStatus' = [s \in Shipments |->
                         IF s \in Members(b) THEN "SUBMISSION_QUEUED" ELSE orderStatus[s]]
    /\ shipment' = [s \in Shipments |->
                      IF s \in Members(b) THEN "SUBMISSION_QUEUED" ELSE shipment[s]]
    /\ pc' = [pc EXCEPT ![w] = "prepared"]
    /\ held' = [held EXCEPT ![w] = b]
    /\ todo' = [todo EXCEPT ![w] = Members(b)]
    /\ UNCHANGED <<orderId, clock, posted, lock, mengantar, current, sent,
                   refused, tries, reconciler>>

\* A repeated confirmation of a batch that went back to the queue unsent.
ResumeProviderBatch(w, b) ==
    /\ pc[w] = "idle"
    /\ batch[b] = "SUBMISSION_QUEUED"
    /\ clock[b] = "null"
    /\ \A s \in Members(b) : /\ orderStatus[s] = "SUBMISSION_QUEUED"
                             /\ shipment[s] = "SUBMISSION_QUEUED"
    /\ pc' = [pc EXCEPT ![w] = "prepared"]
    /\ held' = [held EXCEPT ![w] = b]
    /\ todo' = [todo EXCEPT ![w] = Members(b)]
    /\ UNCHANGED <<rows, lock, mengantar, current, sent, refused, tries, reconciler>>

\* A payload guard refuses a member before the claim: the batch stays queued.
RejectPayload(w) ==
    /\ pc[w] = "prepared"
    /\ Return(w)
    /\ UNCHANGED <<rows, lock, mengantar, reconciler>>

-----------------------------------------------------------------------------
(* submitPreparedBatch *)

ClaimProviderBatch(w) ==
    /\ pc[w] = "prepared"
    /\ batch[held[w]] = "SUBMISSION_QUEUED"
    /\ batch' = [batch EXCEPT ![held[w]] = "SUBMITTING"]
    /\ clock' = [clock EXCEPT ![held[w]] = "fresh"]
    /\ Goto(w, "claimed")
    /\ UNCHANGED <<shipment, orderStatus, orderId, posted, lock, mengantar, reconciler>>

\* Another request claimed the batch between prepare and claim.
ClaimTaken(w) ==
    /\ pc[w] = "prepared"
    /\ batch[held[w]] # "SUBMISSION_QUEUED"
    /\ Return(w)
    /\ UNCHANGED <<rows, lock, mengantar, reconciler>>

\* The loop takes its next member and waits for the account's advisory lock.
AcquireAccountLock(w) ==
    /\ pc[w] = "claimed"
    /\ lock[AccountOf[held[w]]] = None
    /\ lock' = [lock EXCEPT ![AccountOf[held[w]]] = w]
    /\ \E s \in todo[w] : current' = [current EXCEPT ![w] = s]
    /\ pc' = [pc EXCEPT ![w] = "locked"]
    /\ sent' = [sent EXCEPT ![w] = FALSE]
    /\ UNCHANGED <<rows, mengantar, held, todo, refused, tries, reconciler>>

\* Mutant of StillOurs: the answer of the refresh is ignored.
StillOursAssumed(w) == TRUE

\* Inside the lock, just before sending: the claim is still ours, its clock restarts.
StillOurs(w) == batch[held[w]] = "SUBMITTING"

RefreshProviderBatchClaim(w) ==
    /\ pc[w] = "locked"
    /\ StillOurs(w)
    /\ clock' = [clock EXCEPT ![held[w]] = "fresh"]
    /\ Goto(w, "refreshed")
    /\ UNCHANGED <<shipment, orderStatus, orderId, batch, posted, lock, mengantar, reconciler>>

\* ProviderBatchClaimLostError: the sweep took the batch during the wait.
ClaimLost(w) ==
    /\ pc[w] = "locked"
    /\ ~StillOurs(w)
    /\ Unlock(w)
    /\ Return(w)
    /\ UNCHANGED <<rows, mengantar, reconciler>>

\* Any failure before POST /order leaves: no connection, a database error,
\* no pickup slot, a payload refused after the slot is known.
FailBeforeSend(w) ==
    /\ pc[w] \in {"claimed", "locked", "refreshed"}
    /\ Unlock(w)
    /\ Goto(w, "failed")
    /\ UNCHANGED <<rows, mengantar, reconciler>>

SendOrder(w) ==
    /\ pc[w] = "refreshed"
    /\ pc' = [pc EXCEPT ![w] = "posting"]
    /\ sent' = [sent EXCEPT ![w] = TRUE]
    /\ tries' = [tries EXCEPT ![w] = 1]
    /\ UNCHANGED <<rows, lock, mengantar, held, todo, current, refused, reconciler>>

\* Mengantar stores an order for s (external).
CreateAtMengantar(s, kind) ==
    /\ kind = "AWAITING_UPSTREAM_PAYMENT" => s \notin Cod
    /\ created' = [created EXCEPT ![s] = @ + 1]
    /\ stored' = [stored EXCEPT ![s] = kind]

\* A 2xx answer the caller can read.
ProviderAccepts(w) ==
    /\ pc[w] = "posting"
    /\ \E kind \in Kinds : CreateAtMengantar(current[w], kind)
    /\ Unlock(w)
    /\ Goto(w, "answered")
    /\ UNCHANGED <<rows, late, reconciler>>

\* Mutant of AttemptsLeft: the bound is off by one.
AttemptsLeftInclusive(w) == tries[w] <= MaxAttempts

\* 409 with attempts left: the same request again, inside the lock.
AttemptsLeft(w) == tries[w] < MaxAttempts

ConflictRetried(w) ==
    /\ pc[w] = "posting"
    /\ AttemptsLeft(w)
    /\ tries' = [tries EXCEPT ![w] = @ + 1]
    /\ UNCHANGED <<rows, lock, mengantar, pc, held, todo, current, sent, refused, reconciler>>

\* 400, 403, or the last 409: Mengantar created nothing.
ProviderRefuses(w) ==
    /\ pc[w] = "posting"
    /\ Unlock(w)
    /\ pc' = [pc EXCEPT ![w] = "failed"]
    /\ refused' = [refused EXCEPT ![w] = TRUE]
    /\ UNCHANGED <<rows, mengantar, held, todo, current, sent, tries, reconciler>>

\* Mutant of AnswerLost: submitWithConflictRetry retries every error.
AnswerLostRetried(w) ==
    /\ pc[w] = "posting"
    /\ AttemptsLeft(w)
    /\ late' = [late EXCEPT ![current[w]] = @ + 1]
    /\ tries' = [tries EXCEPT ![w] = @ + 1]
    /\ UNCHANGED <<rows, lock, created, stored, pc, held, todo, current, sent,
                   refused, reconciler>>

\* A timeout, a 5xx or any other unproven answer: the request may still land.
AnswerLost(w) ==
    /\ pc[w] = "posting"
    /\ late' = [late EXCEPT ![current[w]] = @ + 1]
    /\ Unlock(w)
    /\ Goto(w, "failed")
    /\ UNCHANGED <<rows, created, stored, reconciler>>

\* A request nobody waits for any more reaches Mengantar, or never does.
LateRequestLands(s) ==
    /\ late[s] > 0
    /\ late' = [late EXCEPT ![s] = @ - 1]
    /\ \E kind \in Kinds : CreateAtMengantar(s, kind)
    /\ UNCHANGED <<rows, lock, worker, reconciler>>

LateRequestDropped(s) ==
    /\ late[s] > 0
    /\ late' = [late EXCEPT ![s] = @ - 1]
    /\ UNCHANGED <<rows, lock, created, stored, worker, reconciler>>

CompleteProviderOrder(w) ==
    /\ pc[w] = "answered"
    /\ batch[held[w]] = "SUBMITTING"
    /\ LET s == current[w]
           status == stored[s] IN
       /\ orderStatus[s] = "SUBMISSION_QUEUED"
       /\ shipment[s] = "SUBMISSION_QUEUED"
       /\ Unowned(s)
       /\ Recordable(s, status)
       /\ orderStatus' = [orderStatus EXCEPT ![s] = status]
       /\ shipment' = [shipment EXCEPT ![s] = status]
       /\ orderId' = [orderId EXCEPT ![s] = s]
       /\ PostIssue(s, status)
       /\ todo' = [todo EXCEPT ![w] = @ \ {s}]
       /\ pc' = [pc EXCEPT ![w] = IF todo[w] = {s} THEN "closing" ELSE "claimed"]
    /\ clock' = [clock EXCEPT ![held[w]] = "fresh"]
    /\ current' = [current EXCEPT ![w] = None]
    /\ sent' = [sent EXCEPT ![w] = FALSE]
    /\ tries' = [tries EXCEPT ![w] = 0]
    /\ UNCHANGED <<batch, lock, mengantar, held, refused, reconciler>>

CompleteProviderBatch(w) ==
    /\ pc[w] = "closing"
    /\ batch[held[w]] = "SUBMITTING"
    /\ \A s \in Members(held[w]) : orderStatus[s] \in Terminal
    /\ batch' = [batch EXCEPT ![held[w]] = "COMPLETED"]
    /\ Return(w)
    /\ UNCHANGED <<shipment, orderStatus, orderId, clock, posted, lock, mengantar, reconciler>>

\* The answer cannot be read or recorded, or a closing transaction fails.
FailAfterAnswer(w) ==
    /\ pc[w] \in {"answered", "closing"}
    /\ Goto(w, "failed")
    /\ UNCHANGED <<rows, lock, mengantar, reconciler>>

\* Mutant of NothingSent: completed === 0 alone releases the claim.
NothingRecorded(w) == todo[w] = Members(held[w])

\* The catch block: may this failure be undone as "nothing was created"?
NothingSent(w) ==
    todo[w] = Members(held[w]) /\ (refused[w] = TRUE \/ sent[w] = FALSE)

ClaimReleasable(b) ==
    /\ batch[b] = "SUBMITTING"
    /\ \A s \in Members(b) : orderStatus[s] = "SUBMISSION_QUEUED"

ReleaseProviderBatchClaim(w) ==
    /\ pc[w] = "failed"
    /\ NothingSent(w)
    /\ ClaimReleasable(held[w])
    /\ batch' = [batch EXCEPT ![held[w]] = "SUBMISSION_QUEUED"]
    /\ clock' = [clock EXCEPT ![held[w]] = "null"]
    /\ Return(w)
    /\ UNCHANGED <<shipment, orderStatus, orderId, posted, lock, mengantar, reconciler>>

\* Not releasable, or the release matched no row: on to the unknown path.
GiveUpRelease(w) ==
    /\ pc[w] = "failed"
    /\ NothingSent(w) => ~ClaimReleasable(held[w])
    /\ Goto(w, "marking")
    /\ UNCHANGED <<rows, lock, mengantar, reconciler>>

MarkProviderBatchUnknown(w) ==
    /\ pc[w] = "marking"
    /\ batch[held[w]] = "SUBMITTING"
    /\ batch' = [batch EXCEPT ![held[w]] = "SUBMISSION_UNKNOWN"]
    /\ LoseMembers(held[w])
    /\ Return(w)
    /\ UNCHANGED <<orderId, clock, posted, lock, mengantar, reconciler>>

\* markProviderBatchUnknown finds no SUBMITTING row and throws.
MarkTooLate(w) ==
    /\ pc[w] = "marking"
    /\ batch[held[w]] # "SUBMITTING"
    /\ Return(w)
    /\ UNCHANGED <<rows, lock, mengantar, reconciler>>

\* The process stops, or a release or mark transaction itself fails: nothing
\* more is written; a request already on its way stays on its way.
Crash(w) ==
    /\ pc[w] # "idle"
    /\ late' = IF pc[w] = "posting" THEN [late EXCEPT ![current[w]] = @ + 1] ELSE late
    /\ Unlock(w)
    /\ Return(w)
    /\ UNCHANGED <<rows, created, stored, reconciler>>

-----------------------------------------------------------------------------
(* The stale sweep: a repeated confirmation or the stale-operation check *)

\* PROVIDER_BATCH_CLAIM_STALE_AFTER_SECONDS (120) pass.  The window of the
\* requests between the refresh and the last answer (about 82 s) is shorter.
ClaimAges(b) ==
    /\ clock[b] = "fresh"
    /\ batch[b] = "SUBMITTING"
    /\ \A w \in Workers : held[w] = b => pc[w] \notin {"refreshed", "posting"}
    /\ clock' = [clock EXCEPT ![b] = "stale"]
    /\ UNCHANGED <<shipment, orderStatus, orderId, batch, posted, lock,
                   mengantar, worker, reconciler>>

AllRecorded(b) == \A s \in Members(b) : orderStatus[s] \in Terminal

\* Neither complete nor in a state a submission can leave: the sweep refuses.
Interrupted(b) ==
    /\ ~AllRecorded(b)
    /\ \A s \in Members(b) : orderStatus[s] \in Terminal \cup {"SUBMISSION_QUEUED"}

\* Mutant of MarkStaleProviderBatch: it has no branch for a recorded batch.
MarkInterruptedOnly(b) ==
    /\ batch[b] = "SUBMITTING"
    /\ clock[b] = "stale"
    /\ Interrupted(b)
    /\ batch' = [batch EXCEPT ![b] = "SUBMISSION_UNKNOWN"]
    /\ LoseMembers(b)
    /\ UNCHANGED <<orderId, clock, posted, lock, mengantar, worker, reconciler>>

MarkStaleProviderBatch(b) ==
    /\ batch[b] = "SUBMITTING"
    /\ clock[b] = "stale"
    /\ \/ /\ AllRecorded(b)
          /\ batch' = [batch EXCEPT ![b] = "COMPLETED"]
          /\ UNCHANGED <<shipment, orderStatus>>
       \/ /\ Interrupted(b)
          /\ batch' = [batch EXCEPT ![b] = "SUBMISSION_UNKNOWN"]
          /\ LoseMembers(b)
    /\ UNCHANGED <<orderId, clock, posted, lock, mengantar, worker, reconciler>>

-----------------------------------------------------------------------------
(* Reconciliation of one unknown shipment *)

\* Mutant of Unresolved: a shipment still being submitted is accepted too.
UnresolvedOrQueued(s) ==
    /\ shipment[s] \in {"SUBMISSION_QUEUED", "SUBMISSION_UNKNOWN"}
    /\ orderStatus[s] = shipment[s]
    /\ orderId[s] = None

Unresolved(s) ==
    /\ shipment[s] = "SUBMISSION_UNKNOWN"
    /\ orderStatus[s] = "SUBMISSION_UNKNOWN"
    /\ batch[BatchOf[s]] = "SUBMISSION_UNKNOWN"
    /\ orderId[s] = None

LoadReconciliationTarget(r, s) ==
    /\ rpc[r] = "idle"
    /\ Unresolved(s)
    /\ rpc' = [rpc EXCEPT ![r] = "loaded"]
    /\ target' = [target EXCEPT ![r] = s]
    /\ UNCHANGED <<rows, lock, mengantar, worker, listing, found, outcome>>

EndReconciliation(r) ==
    /\ rpc' = [rpc EXCEPT ![r] = "idle"]
    /\ target' = [target EXCEPT ![r] = None]
    /\ listing' = [listing EXCEPT ![r] = {}]
    /\ found' = [found EXCEPT ![r] = None]
    /\ outcome' = [outcome EXCEPT ![r] = "UNDETERMINED"]

\* The stored orders of the target's account: GET /order, every page read.
ReadStoredOrders(r) ==
    /\ rpc[r] = "loaded"
    /\ ~FixtureLookup
    /\ rpc' = [rpc EXCEPT ![r] = "listed"]
    /\ listing' = [listing EXCEPT ![r] =
                     {o \in Shipments : /\ created[o] > 0
                                        /\ AccountOf[BatchOf[o]] = AccountOf[BatchOf[target[r]]]}]
    /\ UNCHANGED <<rows, lock, mengantar, worker, target, found, outcome>>

\* Stored orders that equal what was sent for the target and that no shipment owns yet.
Candidates(r) == {o \in listing[r] \ Owned : <<target[r], o>> \in LookAlike}

\* Exactly one candidate, on an account of this tenant alone, with a usable outcome.
ClassifyStoredOrders(r) ==
    /\ rpc[r] = "listed"
    /\ AccountOf[BatchOf[target[r]]] \notin PlatformDefault
    /\ \E o \in Shipments :
          /\ Candidates(r) = {o}
          /\ Recordable(target[r], stored[o])
          /\ found' = [found EXCEPT ![r] = o]
          /\ outcome' = [outcome EXCEPT ![r] = stored[o]]
    /\ rpc' = [rpc EXCEPT ![r] = "matched"]
    /\ UNCHANGED <<rows, lock, mengantar, worker, target, listing>>

\* The development fixture knows the truth (external): the order, or that
\* none exists and none is on its way.
FixtureAnswers(r) ==
    /\ rpc[r] = "loaded"
    /\ FixtureLookup
    /\ \/ /\ Recordable(target[r], stored[target[r]])
          /\ found' = [found EXCEPT ![r] = target[r]]
          /\ outcome' = [outcome EXCEPT ![r] = stored[target[r]]]
       \/ /\ created[target[r]] = 0
          /\ late[target[r]] = 0
          /\ outcome' = [outcome EXCEPT ![r] = "FAILED"]
          /\ UNCHANGED found
    /\ rpc' = [rpc EXCEPT ![r] = "matched"]
    /\ UNCHANGED <<rows, lock, mengantar, worker, target, listing>>

\* UNDETERMINED, a refused guard, an unreadable answer, or a crash.
AbandonReconciliation(r) ==
    /\ rpc[r] # "idle"
    /\ EndReconciliation(r)
    /\ UNCHANGED <<rows, lock, mengantar, worker>>

\* Mutant of ClosedStatus: no early return while a member is unknown.
ClosedAtOnce(statuses) == IF "FAILED" \in statuses THEN "FAILED" ELSE "COMPLETED"

\* The batch's status once its members have these; it stays open while one is unknown.
ClosedStatus(statuses) ==
    CASE "SUBMISSION_UNKNOWN" \in statuses -> "SUBMISSION_UNKNOWN"
      [] "SUBMISSION_UNKNOWN" \notin statuses /\ "FAILED" \in statuses -> "FAILED"
      [] OTHER -> "COMPLETED"

ApplyReconciliation(r) ==
    /\ rpc[r] = "matched"
    /\ LET s == target[r]
           status == outcome[r]
           b == BatchOf[s] IN
       /\ status # "UNDETERMINED"
       /\ Unresolved(s)
       /\ Unowned(found[r])
       /\ orderStatus' = [orderStatus EXCEPT ![s] = status]
       /\ shipment' = [shipment EXCEPT ![s] = status]
       /\ orderId' = [orderId EXCEPT ![s] = found[r]]
       /\ PostIssue(s, status)
       /\ \A m \in Members(b) : orderStatus'[m] # "SUBMISSION_QUEUED"
       /\ batch' = [batch EXCEPT ![b] =
                      ClosedStatus({orderStatus'[m] : m \in Members(b)})]
    /\ EndReconciliation(r)
    /\ UNCHANGED <<clock, lock, mengantar, worker>>

-----------------------------------------------------------------------------
WorkerStep(w) ==
    \/ \E b \in Batches : PrepareProviderBatch(w, b) \/ ResumeProviderBatch(w, b)
    \/ RejectPayload(w)
    \/ ClaimProviderBatch(w)
    \/ ClaimTaken(w)
    \/ AcquireAccountLock(w)
    \/ RefreshProviderBatchClaim(w)
    \/ ClaimLost(w)
    \/ FailBeforeSend(w)
    \/ SendOrder(w)
    \/ ProviderAccepts(w)
    \/ ConflictRetried(w)
    \/ ProviderRefuses(w)
    \/ AnswerLost(w)
    \/ CompleteProviderOrder(w)
    \/ CompleteProviderBatch(w)
    \/ FailAfterAnswer(w)
    \/ ReleaseProviderBatchClaim(w)
    \/ GiveUpRelease(w)
    \/ MarkProviderBatchUnknown(w)
    \/ MarkTooLate(w)
    \/ Crash(w)

ReconcilerStep(r) ==
    \/ \E s \in Shipments : LoadReconciliationTarget(r, s)
    \/ ReadStoredOrders(r)
    \/ ClassifyStoredOrders(r)
    \/ FixtureAnswers(r)
    \/ AbandonReconciliation(r)
    \/ ApplyReconciliation(r)

Next ==
    \/ \E w \in Workers : WorkerStep(w)
    \/ \E r \in Reconcilers : ReconcilerStep(r)
    \/ \E s \in Shipments : LateRequestLands(s) \/ LateRequestDropped(s)
    \/ \E b \in Batches : ClaimAges(b) \/ MarkStaleProviderBatch(b)

Spec == Init /\ [][Next]_vars

\* A step a live request takes by itself.  Failures before the send are not
\* among them; the answer of a POST is, because mengantar-http.ts times out.
Proceed(w) ==
    \/ RejectPayload(w) \/ ClaimProviderBatch(w) \/ ClaimTaken(w)
    \/ RefreshProviderBatchClaim(w) \/ ClaimLost(w) \/ SendOrder(w)
    \/ ProviderAccepts(w) \/ ProviderRefuses(w) \/ AnswerLost(w)
    \/ CompleteProviderOrder(w) \/ CompleteProviderBatch(w) \/ FailAfterAnswer(w)
    \/ ReleaseProviderBatchClaim(w) \/ GiveUpRelease(w)
    \/ MarkProviderBatchUnknown(w) \/ MarkTooLate(w)

\* PostgreSQL grants a lock in the order of arrival, so a request that keeps
\* waiting gets it.  Somebody keeps asking for the stale check of a shipment.
Fairness ==
    /\ \A w \in Workers : WF_vars(Proceed(w)) /\ SF_vars(AcquireAccountLock(w))
    /\ \A b \in Batches : WF_vars(ClaimAges(b)) /\ WF_vars(MarkStaleProviderBatch(b))

FairSpec == Spec /\ Fairness

-----------------------------------------------------------------------------
(* Safety *)

\* Whatever is lost, retried, swept or reconciled, Mengantar never makes two
\* orders for one shipment: no retry of a submission that may have landed.
AtMostOneProviderOrder == \A s \in Shipments : created[s] <= 1

\* A batch offered for another confirmation has no order at Mengantar and no
\* request on its way there (the comment of releaseProviderBatchClaim).
ResumableMeansUnsent ==
    \A s \in Shipments :
        batch[BatchOf[s]] = "SUBMISSION_QUEUED" => created[s] = 0 /\ late[s] = 0

\* While a POST /order is in flight its batch is SUBMITTING: the sweep cannot
\* declare it unknown (the comment of refreshProviderBatchClaim), and at most
\* one request is in flight on each account (DATA-13).
InFlightUnderClaim ==
    \A w \in Workers : pc[w] = "posting" =>
        /\ batch[held[w]] = "SUBMITTING"
        /\ \A v \in Workers \ {w} :
              pc[v] = "posting" => AccountOf[held[v]] # AccountOf[held[w]]

\* One Mengantar order belongs to one shipment, also when two reconciliations,
\* or a reconciliation and the submission that created it, race for it.
OrderOwnedOnce ==
    \A s, t \in Shipments :
        orderId[s] # None /\ orderId[s] = orderId[t] => s = t

\* The batch row, its members' rows and their shipments agree in every state,
\* through partial failures, sweeps and member-by-member reconciliation.
BatchReflectsMembers ==
    \A b \in Batches :
        LET statuses == {orderStatus[s] : s \in Members(b)} IN
        /\ \A s \in Members(b) :
              shipment[s] = IF batch[b] = "NONE" THEN "ESTIMATED" ELSE orderStatus[s]
        /\ batch[b] = "SUBMISSION_QUEUED" => statuses = {"SUBMISSION_QUEUED"}
        /\ batch[b] = "SUBMITTING" => statuses \subseteq Terminal \cup {"SUBMISSION_QUEUED"}
        /\ batch[b] = "SUBMISSION_UNKNOWN" => "SUBMISSION_QUEUED" \notin statuses
        /\ batch[b] = "COMPLETED" => statuses \subseteq Terminal
        /\ batch[b] = "FAILED" => /\ "FAILED" \in statuses
                                  /\ statuses \subseteq Terminal \cup {"FAILED"}

\* The issuance entries of a shipment are in the ledger exactly when it is
\* ISSUED, whichever path issued it.
LedgerFollowsIssue == posted = {s \in Shipments : orderStatus[s] = "ISSUED"}

\* A shipment reconciled to FAILED, which the operator may create anew, has no
\* order at Mengantar and never gets one from an earlier request.
FailedHasNoOrder ==
    \A s \in Shipments : orderStatus[s] = "FAILED" => created[s] = 0 /\ late[s] = 0

\* A test of the stale sweep says of an interrupted batch whose last member
\* was committed that it is finalized ("finalizes a stale batch when the last
\* provider member committed before process death"): an unknown batch is left
\* with a member to reconcile.
UnknownBatchHasUnknownMember ==
    \A b \in Batches : batch[b] = "SUBMISSION_UNKNOWN" =>
        \E s \in Members(b) : orderStatus[s] = "SUBMISSION_UNKNOWN"

-----------------------------------------------------------------------------
(* What makes these invariants inductive *)

\* Where a request is determines what it holds.
WellFormed ==
    /\ \A w \in Workers :
          /\ pc[w] # "idle" => held[w] \in Batches /\ todo[w] \subseteq Members(held[w])
          /\ pc[w] \in {"locked", "refreshed", "posting", "answered"} => current[w] \in todo[w]
    /\ \A r \in Reconcilers : rpc[r] # "idle" => target[r] \in Shipments

\* w won the claim of its batch, and has not returned.
Claimant(w) == pc[w] \in Working \ {"prepared"}

\* Mengantar has no order for s and none is on its way from an abandoned request.
Unsent(s) == created[s] = 0 /\ late[s] = 0

\* The order in hand may exist at Mengantar although it is not recorded.
MayBeSent(w) ==
    pc[w] \in {"answered", "failed", "marking"} /\ sent[w] = TRUE /\ refused[w] = FALSE

\* The flags of submitPreparedBatch say what happened to the order in hand.
FlagsSound(w) ==
    /\ pc[w] \in {"posting", "answered"} => sent[w] = TRUE
    /\ pc[w] \notin {"failed", "marking"} => refused[w] = FALSE

PreparedInFull(w) == pc[w] = "prepared" => todo[w] = Members(held[w])

QueuedIsWhole(s) == batch[BatchOf[s]] \in {"NONE", "SUBMISSION_QUEUED"} => Unsent(s)

\* A claim is of a batch out of the queue, it is the only one of that batch,
\* and what it still has to record is unsent, but for the order in its hand.
ClaimSound(w) == Claimant(w) =>
    /\ batch[held[w]] \notin {"NONE", "SUBMISSION_QUEUED"}
    /\ \A v \in Workers \ {w} : Claimant(v) => held[v] # held[w]
    /\ \A s \in todo[w] : Unsent(s) \/ (MayBeSent(w) /\ s = current[w])

SubmissionInv ==
    /\ \A s \in Shipments : created[s] + late[s] <= 1 /\ QueuedIsWhole(s)
    /\ \A w \in Workers : FlagsSound(w) /\ PreparedInFull(w) /\ ClaimSound(w)

\* What the order rows of a batch's members may say, by the status of the batch.
MemberStatuses(status) ==
    CASE status = "NONE"               -> {"NONE"}
      [] status = "SUBMISSION_QUEUED"  -> {"SUBMISSION_QUEUED"}
      [] status = "SUBMITTING"         -> Terminal \cup {"SUBMISSION_QUEUED"}
      [] status = "SUBMISSION_UNKNOWN" -> Terminal \cup {"SUBMISSION_UNKNOWN", "FAILED"}
      [] status = "COMPLETED"          -> Terminal
      [] status = "FAILED"             -> Terminal \cup {"FAILED"}

RowSound(s) ==
    /\ orderStatus[s] \in MemberStatuses(batch[BatchOf[s]])
    /\ shipment[s] = IF orderStatus[s] = "NONE" THEN "ESTIMATED" ELSE orderStatus[s]

RowsInv ==
    /\ \A s \in Shipments : RowSound(s)
    /\ \A b \in Batches : batch[b] = "FAILED" =>
          \E s \in Members(b) : orderStatus[s] = "FAILED"
    /\ LedgerFollowsIssue
    /\ OrderOwnedOnce

\* Under the lock the lock is held; from the refresh to the answer the claim is too,
\* and its clock has not run down.
FlightSound(w) ==
    /\ pc[w] \in {"locked", "refreshed", "posting"} => lock[AccountOf[held[w]]] = w
    /\ pc[w] \in {"refreshed", "posting"} =>
          batch[held[w]] = "SUBMITTING" /\ clock[held[w]] = "fresh"

FlightInv == \A w \in Workers : FlightSound(w)

\* No submission of the batch goes on.
Over(b) == batch[b] \in {"SUBMISSION_UNKNOWN", "COMPLETED", "FAILED"}

\* What a reconciliation has read stays true until it is applied: the order it found
\* is stored, or nothing is and nothing will be.
LookupSound(r) ==
    /\ rpc[r] # "idle" => Over(BatchOf[target[r]])
    /\ \A o \in listing[r] : created[o] > 0
    /\ rpc[r] # "matched" => found[r] = None
    /\ rpc[r] = "matched" =>
          \/ outcome[r] = "FAILED" /\ found[r] = None /\ Unsent(target[r])
          \/ /\ outcome[r] \in Terminal
             /\ found[r] \in Shipments /\ created[found[r]] > 0
             /\ <<target[r], found[r]>> \in LookAlike

OutcomeInv ==
    /\ \A r \in Reconcilers : LookupSound(r)
    /\ \A w \in Workers : pc[w] = "answered" => created[current[w]] > 0
    /\ \A s \in Shipments : /\ stored[s] # "NONE" => created[s] > 0
                            /\ orderStatus[s] \in Terminal <=> orderId[s] # None
    /\ FailedHasNoOrder

-----------------------------------------------------------------------------
(* Liveness *)

\* A confirmation request ends: it never waits for ever for the account lock
\* of another, and its retries are bounded.
ConfirmationReturns == \A w \in Workers : pc[w] # "idle" ~> pc[w] = "idle"

\* No claim stays for ever: its request, or after a crash the sweep, ends it.
ClaimResolves == \A b \in Batches : batch[b] = "SUBMITTING" ~> batch[b] # "SUBMITTING"

-----------------------------------------------------------------------------
(* Refinement *)

Promise == INSTANCE ShipmentIssuance WITH
    status <- shipment, orders <- created, owner <- orderId, booked <- posted

\* Submission and reconciliation implement the issuance lifecycle of DATA-2.
ImplementsIssuance == Promise!Spec
=============================================================================
