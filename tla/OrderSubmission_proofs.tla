----------------------- MODULE OrderSubmission_proofs -----------------------
(***************************************************************************)
(* Submission and reconciliation for any shipments, batches, accounts and  *)
(* requests: types first, then who may have sent what (SubmissionInv),     *)
(* then rows, flights under a claim, and what a reconciliation may rely    *)
(* on, each proved to be kept by every step. The promises follow from all  *)
(* of them together (AllInv), and so does the refinement of                *)
(* ShipmentIssuance. Last: what an accepted shipment is when payment and   *)
(* tracking take it over (AcceptedInv).                                    *)
(***************************************************************************)
EXTENDS OrderSubmission, TLAPS

\* A request that ends keeps the types of the workers' variables.
LEMMA ReturnType ==
    ASSUME TypeOK, NEW w \in Workers, Return(w)
    PROVE  /\ pc' \in [Workers -> Working \cup {"idle"}]
           /\ held' \in [Workers -> Batches \cup {None}]
           /\ todo' \in [Workers -> SUBSET Shipments]
           /\ current' \in [Workers -> Shipments \cup {None}]
           /\ sent' \in [Workers -> BOOLEAN]
           /\ refused' \in [Workers -> BOOLEAN]
           /\ tries' \in [Workers -> 0..MaxAttempts]
BY ConstantAssumption DEF TypeOK, Return

\* The members of a batch that are lost take a status the schema allows.
LEMMA LoseMembersType ==
    ASSUME TypeOK, NEW b \in Batches, LoseMembers(b)
    PROVE  /\ shipment' \in [Shipments -> {"ESTIMATED", "SUBMISSION_QUEUED",
                                           "SUBMISSION_UNKNOWN", "FAILED"} \cup Terminal]
           /\ orderStatus' \in [Shipments -> {"NONE", "SUBMISSION_QUEUED",
                                              "SUBMISSION_UNKNOWN", "FAILED"} \cup Terminal]
BY DEF TypeOK, LoseMembers, Members

\* Counting one more order, or one more request on its way, keeps a count.
LEMMA CountType ==
    ASSUME NEW f \in [Shipments -> Nat], NEW x
    PROVE  [f EXCEPT ![x] = @ + 1] \in [Shipments -> Nat]
<1>1. CASE x \in Shipments
  BY <1>1
<1>2. CASE x \notin Shipments
  <2>1. [f EXCEPT ![x] = @ + 1] = f
    BY <1>2
  <2> QED
    BY <2>1
<1> QED
  BY <1>1, <1>2

\* Each step keeps the types: a status written is one the schema allows.
LEMMA TypeStep == TypeOK /\ WellFormed /\ [Next]_vars => TypeOK'
<1> SUFFICES ASSUME TypeOK, WellFormed, [Next]_vars PROVE TypeOK'
  OBVIOUS
<1> USE BatchAssumption, ConstantAssumption DEF rows, mengantar, worker, reconciler
<1>1. ASSUME NEW w \in Workers, NEW b \in Batches, PrepareProviderBatch(w, b) PROVE TypeOK'
  BY <1>1 DEF TypeOK, PrepareProviderBatch, Working, Members
<1>2. ASSUME NEW w \in Workers, NEW b \in Batches, ResumeProviderBatch(w, b) PROVE TypeOK'
  BY <1>2 DEF TypeOK, ResumeProviderBatch, Working, Members
<1>3. ASSUME NEW w \in Workers, RejectPayload(w) \/ ClaimTaken(w) \/ MarkTooLate(w) PROVE TypeOK'
  BY <1>3, ReturnType DEF TypeOK, RejectPayload, ClaimTaken, MarkTooLate
<1>4. ASSUME NEW w \in Workers, ClaimProviderBatch(w) PROVE TypeOK'
  BY <1>4 DEF TypeOK, ClaimProviderBatch, Goto, Working
<1>5. ASSUME NEW w \in Workers, AcquireAccountLock(w) PROVE TypeOK'
  <2>1. lock' \in [Accounts -> Workers \cup {None}]
    BY <1>5 DEF TypeOK, AcquireAccountLock
  <2>2. current' \in [Workers -> Shipments \cup {None}]
    BY <1>5 DEF TypeOK, AcquireAccountLock
  <2>3. pc' \in [Workers -> Working \cup {"idle"}] /\ sent' \in [Workers -> BOOLEAN]
    BY <1>5 DEF TypeOK, AcquireAccountLock, Working
  <2> QED
    BY <1>5, <2>1, <2>2, <2>3 DEF TypeOK, AcquireAccountLock
<1>6. ASSUME NEW w \in Workers, RefreshProviderBatchClaim(w) PROVE TypeOK'
  BY <1>6 DEF TypeOK, RefreshProviderBatchClaim, Goto, Working
<1>7. ASSUME NEW w \in Workers, ClaimLost(w) PROVE TypeOK'
  BY <1>7, ReturnType DEF TypeOK, ClaimLost, Unlock
<1>8. ASSUME NEW w \in Workers, FailBeforeSend(w) PROVE TypeOK'
  BY <1>8 DEF TypeOK, FailBeforeSend, Unlock, Goto, Working
<1>9. ASSUME NEW w \in Workers, SendOrder(w) PROVE TypeOK'
  BY <1>9 DEF TypeOK, SendOrder, Working
<1>10. ASSUME NEW w \in Workers, ProviderAccepts(w) PROVE TypeOK'
  <2>1. created' \in [Shipments -> Nat]
    BY <1>10, CountType DEF TypeOK, ProviderAccepts, CreateAtMengantar
  <2>2. stored' \in [Shipments -> Kinds \cup {"NONE"}]
    <3>1. PICK kind \in Kinds : stored' = [stored EXCEPT ![current[w]] = kind]
      BY <1>10 DEF ProviderAccepts, CreateAtMengantar
    <3> QED
      BY <3>1 DEF TypeOK
  <2>3. lock' \in [Accounts -> Workers \cup {None}] /\ pc' \in [Workers -> Working \cup {"idle"}]
    BY <1>10 DEF TypeOK, ProviderAccepts, Unlock, Goto, Working
  <2> QED
    BY <1>10, <2>1, <2>2, <2>3 DEF TypeOK, ProviderAccepts, Goto
<1>11. ASSUME NEW w \in Workers, ConflictRetried(w) PROVE TypeOK'
  BY <1>11 DEF TypeOK, ConflictRetried, AttemptsLeft, Working
<1>12. ASSUME NEW w \in Workers, ProviderRefuses(w) PROVE TypeOK'
  BY <1>12 DEF TypeOK, ProviderRefuses, Unlock, Working
<1>13. ASSUME NEW w \in Workers, AnswerLost(w) PROVE TypeOK'
  <2>1. late' \in [Shipments -> Nat]
    BY <1>13, CountType DEF TypeOK, AnswerLost
  <2> QED
    BY <1>13, <2>1 DEF TypeOK, AnswerLost, Unlock, Goto, Working
<1>14. ASSUME NEW w \in Workers, CompleteProviderOrder(w) PROVE TypeOK'
  <2> DEFINE s == current[w]
  <2>1. s \in Shipments
    BY <1>14 DEF TypeOK, WellFormed, CompleteProviderOrder
  <2>2. stored[s] \in Terminal
    BY <1>14 DEF CompleteProviderOrder, Recordable, Terminal
  <2>3. /\ orderStatus' = [orderStatus EXCEPT ![s] = stored[s]]
        /\ shipment' = [shipment EXCEPT ![s] = stored[s]]
        /\ orderId' = [orderId EXCEPT ![s] = s]
        /\ posted' \in {posted, posted \cup {s}}
        /\ clock' = [clock EXCEPT ![held[w]] = "fresh"]
        /\ todo' = [todo EXCEPT ![w] = @ \ {s}]
        /\ \E next \in {"closing", "claimed"} : pc' = [pc EXCEPT ![w] = next]
        /\ current' = [current EXCEPT ![w] = None]
        /\ sent' = [sent EXCEPT ![w] = FALSE]
        /\ tries' = [tries EXCEPT ![w] = 0]
        /\ UNCHANGED <<batch, lock, mengantar, held, refused, reconciler>>
    BY <1>14 DEF CompleteProviderOrder, PostIssue
  <2>4. /\ todo' \in [Workers -> SUBSET Shipments]
        /\ current' \in [Workers -> Shipments \cup {None}]
        /\ sent' \in [Workers -> BOOLEAN]
        /\ tries' \in [Workers -> 0..MaxAttempts]
    BY <2>3 DEF TypeOK
  <2>5. pc' \in [Workers -> Working \cup {"idle"}]
    BY <2>3 DEF TypeOK, Working
  <2>6. /\ orderStatus' \in [Shipments -> {"NONE", "SUBMISSION_QUEUED",
                                           "SUBMISSION_UNKNOWN", "FAILED"} \cup Terminal]
        /\ shipment' \in [Shipments -> {"ESTIMATED", "SUBMISSION_QUEUED",
                                        "SUBMISSION_UNKNOWN", "FAILED"} \cup Terminal]
        /\ orderId' \in [Shipments -> Shipments \cup {None}]
        /\ posted' \in SUBSET Shipments
        /\ clock' \in [Batches -> {"null", "fresh", "stale"}]
    BY <2>1, <2>2, <2>3 DEF TypeOK
  <2> QED
    BY <2>3, <2>4, <2>5, <2>6 DEF TypeOK
<1>15. ASSUME NEW w \in Workers, CompleteProviderBatch(w) PROVE TypeOK'
  BY <1>15, ReturnType DEF TypeOK, CompleteProviderBatch
<1>16. ASSUME NEW w \in Workers, FailAfterAnswer(w) \/ GiveUpRelease(w) PROVE TypeOK'
  <2>1. CASE FailAfterAnswer(w)
    BY <2>1 DEF TypeOK, FailAfterAnswer, Goto, Working
  <2>2. CASE GiveUpRelease(w)
    BY <2>2 DEF TypeOK, GiveUpRelease, Goto, Working
  <2> QED
    BY <1>16, <2>1, <2>2
<1>17. ASSUME NEW w \in Workers, ReleaseProviderBatchClaim(w) PROVE TypeOK'
  BY <1>17, ReturnType DEF TypeOK, ReleaseProviderBatchClaim
<1>18. ASSUME NEW w \in Workers, MarkProviderBatchUnknown(w) PROVE TypeOK'
  <2>1. held[w] \in Batches
    BY <1>18 DEF WellFormed, MarkProviderBatchUnknown
  <2> QED
    BY <1>18, <2>1, ReturnType, LoseMembersType DEF TypeOK, MarkProviderBatchUnknown
<1>19. ASSUME NEW w \in Workers, Crash(w) PROVE TypeOK'
  <2>1. late' \in [Shipments -> Nat]
    BY <1>19, CountType DEF TypeOK, Crash
  <2>2. lock' \in [Accounts -> Workers \cup {None}]
    BY <1>19 DEF TypeOK, Crash, Unlock
  <2> QED
    BY <1>19, <2>1, <2>2, ReturnType DEF TypeOK, Crash
<1>20. ASSUME NEW r \in Reconcilers, NEW s \in Shipments, LoadReconciliationTarget(r, s) PROVE TypeOK'
  BY <1>20 DEF TypeOK, LoadReconciliationTarget
<1>21. ASSUME NEW r \in Reconcilers, ReadStoredOrders(r) PROVE TypeOK'
  BY <1>21 DEF TypeOK, ReadStoredOrders
<1>22. ASSUME NEW r \in Reconcilers, ClassifyStoredOrders(r) PROVE TypeOK'
  <2>1. PICK o \in Shipments : /\ Recordable(target[r], stored[o])
                              /\ found' = [found EXCEPT ![r] = o]
                              /\ outcome' = [outcome EXCEPT ![r] = stored[o]]
    BY <1>22 DEF ClassifyStoredOrders
  <2>2. stored[o] \in Terminal
    BY <2>1 DEF Recordable, Terminal
  <2> QED
    BY <1>22, <2>1, <2>2 DEF TypeOK, ClassifyStoredOrders
<1>23. ASSUME NEW r \in Reconcilers, FixtureAnswers(r) PROVE TypeOK'
  <2>1. target[r] \in Shipments
    BY <1>23 DEF WellFormed, FixtureAnswers
  <2>2. CASE /\ Recordable(target[r], stored[target[r]])
             /\ found' = [found EXCEPT ![r] = target[r]]
             /\ outcome' = [outcome EXCEPT ![r] = stored[target[r]]]
    <3>1. stored[target[r]] \in Terminal
      BY <2>2 DEF Recordable, Terminal
    <3> QED
      BY <1>23, <2>1, <2>2, <3>1 DEF TypeOK, FixtureAnswers
  <2>3. CASE outcome' = [outcome EXCEPT ![r] = "FAILED"] /\ UNCHANGED found
    BY <1>23, <2>3 DEF TypeOK, FixtureAnswers
  <2> QED
    BY <1>23, <2>2, <2>3 DEF FixtureAnswers
<1>24. ASSUME NEW r \in Reconcilers, AbandonReconciliation(r) PROVE TypeOK'
  BY <1>24 DEF TypeOK, AbandonReconciliation, EndReconciliation
<1>25. ASSUME NEW r \in Reconcilers, ApplyReconciliation(r) PROVE TypeOK'
  <2> DEFINE b == BatchOf[target[r]]
  <2>1. /\ orderStatus' = [orderStatus EXCEPT ![target[r]] = outcome[r]]
        /\ shipment' = [shipment EXCEPT ![target[r]] = outcome[r]]
        /\ orderId' = [orderId EXCEPT ![target[r]] = found[r]]
        /\ posted' \in {posted, posted \cup {target[r]}}
        /\ outcome[r] \in {"FAILED"} \cup Terminal
        /\ batch' \in [Batches -> {"NONE", "SUBMISSION_QUEUED", "SUBMITTING",
                                  "SUBMISSION_UNKNOWN", "COMPLETED", "FAILED"}]
    BY <1>25 DEF TypeOK, ApplyReconciliation, PostIssue, ClosedStatus
  <2>2. target[r] \in Shipments
    BY <1>25 DEF TypeOK, WellFormed, ApplyReconciliation
  <2> QED
    BY <1>25, <2>1, <2>2 DEF TypeOK, ApplyReconciliation, EndReconciliation
<1>26. ASSUME NEW s \in Shipments, LateRequestLands(s) PROVE TypeOK'
  BY <1>26 DEF TypeOK, LateRequestLands, CreateAtMengantar, Kinds
<1>27. ASSUME NEW s \in Shipments, LateRequestDropped(s) PROVE TypeOK'
  BY <1>27 DEF TypeOK, LateRequestDropped
<1>28. ASSUME NEW b \in Batches, ClaimAges(b) PROVE TypeOK'
  BY <1>28 DEF TypeOK, ClaimAges
<1>29. ASSUME NEW b \in Batches, MarkStaleProviderBatch(b) PROVE TypeOK'
  <2>1. CASE AllRecorded(b)
    BY <1>29, <2>1 DEF TypeOK, MarkStaleProviderBatch, Interrupted
  <2>2. CASE ~AllRecorded(b)
    BY <1>29, <2>2, LoseMembersType DEF TypeOK, MarkStaleProviderBatch
  <2> QED
    BY <2>1, <2>2
<1>30. CASE UNCHANGED vars
  BY <1>30 DEF TypeOK, vars
<1> QED
  BY <1>1, <1>2, <1>3, <1>4, <1>5, <1>6, <1>7, <1>8, <1>9, <1>10, <1>11, <1>12, <1>13,
     <1>14, <1>15, <1>16, <1>17, <1>18, <1>19, <1>20, <1>21, <1>22, <1>23, <1>24, <1>25,
     <1>26, <1>27, <1>28, <1>29, <1>30 DEF Next, WorkerStep, ReconcilerStep

-----------------------------------------------------------------------------
\* A request that ends holds nothing, and the others are untouched.
LEMMA ReturnShape ==
    ASSUME TypeOK, NEW w \in Workers, Return(w)
    PROVE  /\ pc'[w] = "idle"
           /\ \A v \in Workers \ {w} : /\ pc'[v] = pc[v]
                                       /\ held'[v] = held[v]
                                       /\ todo'[v] = todo[v]
                                       /\ current'[v] = current[v]
                                       /\ sent'[v] = sent[v]
                                       /\ refused'[v] = refused[v]
BY DEF TypeOK, Return

\* Each step keeps the shape: a request past the preparation holds a batch and
\* members of it, and an order in hand is still to be recorded.
LEMMA ShapeStep == TypeOK /\ WellFormed /\ [Next]_vars => WellFormed'
<1> SUFFICES ASSUME TypeOK, WellFormed, [Next]_vars PROVE WellFormed'
  OBVIOUS
<1> USE BatchAssumption DEF rows, mengantar, worker, reconciler
<1>1. ASSUME NEW w \in Workers, NEW b \in Batches,
             PrepareProviderBatch(w, b) \/ ResumeProviderBatch(w, b)
      PROVE WellFormed'
  <2>1. /\ pc' = [pc EXCEPT ![w] = "prepared"]
        /\ held' = [held EXCEPT ![w] = b]
        /\ todo' = [todo EXCEPT ![w] = Members(b)]
        /\ UNCHANGED <<current, reconciler>>
    BY <1>1 DEF PrepareProviderBatch, ResumeProviderBatch
  <2>2. /\ pc'[w] = "prepared" /\ held'[w] = b /\ todo'[w] = Members(b)
        /\ \A v \in Workers \ {w} : /\ pc'[v] = pc[v] /\ held'[v] = held[v]
                                    /\ todo'[v] = todo[v] /\ current'[v] = current[v]
    BY <2>1 DEF TypeOK
  <2> QED
    BY <2>1, <2>2 DEF WellFormed, Members
<1>2. ASSUME NEW w \in Workers, Return(w), UNCHANGED reconciler PROVE WellFormed'
  BY <1>2, ReturnShape DEF WellFormed, Members
<1>3. ASSUME NEW w \in Workers, NEW next \in Working \cup {"idle"},
             pc' = [pc EXCEPT ![w] = next], pc[w] # "idle",
             next \in {"locked", "refreshed", "posting", "answered"}
               => current'[w] \in todo[w],
             \A v \in Workers \ {w} : current'[v] = current[v],
             UNCHANGED <<held, todo, reconciler>>
      PROVE WellFormed'
  BY <1>3 DEF TypeOK, WellFormed, Members
<1>4. ASSUME NEW w \in Workers,
             \/ RejectPayload(w) \/ ClaimTaken(w) \/ ClaimLost(w) \/ CompleteProviderBatch(w)
             \/ ReleaseProviderBatchClaim(w) \/ MarkProviderBatchUnknown(w)
             \/ MarkTooLate(w) \/ Crash(w)
      PROVE WellFormed'
  <2>1. Return(w) /\ UNCHANGED reconciler
    BY <1>4 DEF RejectPayload, ClaimTaken, ClaimLost, CompleteProviderBatch,
                ReleaseProviderBatchClaim, MarkProviderBatchUnknown, MarkTooLate, Crash
  <2> QED
    BY <1>2, <2>1
<1>5. ASSUME NEW w \in Workers, ClaimProviderBatch(w) \/ FailBeforeSend(w) PROVE WellFormed'
  BY <1>5, <1>3 DEF ClaimProviderBatch, FailBeforeSend, Goto, Working
<1>6. ASSUME NEW w \in Workers, AcquireAccountLock(w) PROVE WellFormed'
  <2>1. PICK s \in todo[w] : current' = [current EXCEPT ![w] = s]
    BY <1>6 DEF AcquireAccountLock
  <2> QED
    BY <1>6, <1>3, <2>1 DEF TypeOK, AcquireAccountLock, Working
<1>7. ASSUME NEW w \in Workers,
             RefreshProviderBatchClaim(w) \/ SendOrder(w) \/ ProviderAccepts(w)
      PROVE WellFormed'
  BY <1>7, <1>3 DEF WellFormed, RefreshProviderBatchClaim, SendOrder, ProviderAccepts,
                    CreateAtMengantar, Goto, Working
<1>8. ASSUME NEW w \in Workers, ConflictRetried(w) PROVE WellFormed'
  BY <1>8 DEF WellFormed, ConflictRetried, Members
<1>9. ASSUME NEW w \in Workers,
             \/ ProviderRefuses(w) \/ AnswerLost(w) \/ FailAfterAnswer(w) \/ GiveUpRelease(w)
      PROVE WellFormed'
  BY <1>9, <1>3 DEF ProviderRefuses, AnswerLost, FailAfterAnswer, GiveUpRelease, Goto, Working
<1>10. ASSUME NEW w \in Workers, CompleteProviderOrder(w) PROVE WellFormed'
  <2>1. /\ \E next \in {"closing", "claimed"} : pc' = [pc EXCEPT ![w] = next]
        /\ todo' = [todo EXCEPT ![w] = @ \ {current[w]}]
        /\ current' = [current EXCEPT ![w] = None]
        /\ UNCHANGED <<held, reconciler>>
        /\ pc[w] = "answered"
    BY <1>10 DEF CompleteProviderOrder
  <2> QED
    BY <2>1 DEF TypeOK, WellFormed, Members
<1>11. ASSUME NEW r \in Reconcilers, NEW s \in Shipments, LoadReconciliationTarget(r, s)
       PROVE WellFormed'
  BY <1>11 DEF TypeOK, WellFormed, LoadReconciliationTarget, Members
<1>12. ASSUME NEW r \in Reconcilers,
              ReadStoredOrders(r) \/ ClassifyStoredOrders(r) \/ FixtureAnswers(r)
       PROVE WellFormed'
  BY <1>12 DEF TypeOK, WellFormed, ReadStoredOrders, ClassifyStoredOrders, FixtureAnswers, Members
<1>13. ASSUME NEW r \in Reconcilers, AbandonReconciliation(r) \/ ApplyReconciliation(r)
       PROVE WellFormed'
  BY <1>13 DEF TypeOK, WellFormed, AbandonReconciliation, ApplyReconciliation,
               EndReconciliation, Members
<1>14. ASSUME UNCHANGED <<worker, reconciler>> PROVE WellFormed'
  BY <1>14 DEF WellFormed, Members
<1>15. ASSUME NEW s \in Shipments, LateRequestLands(s) \/ LateRequestDropped(s) PROVE WellFormed'
  BY <1>15, <1>14 DEF LateRequestLands, LateRequestDropped
<1>16. ASSUME NEW b \in Batches, ClaimAges(b) \/ MarkStaleProviderBatch(b) PROVE WellFormed'
  BY <1>16, <1>14 DEF ClaimAges, MarkStaleProviderBatch
<1>17. CASE UNCHANGED vars
  BY <1>17, <1>14 DEF vars
<1> QED
  BY <1>1, <1>4, <1>5, <1>6, <1>7, <1>8, <1>9, <1>10, <1>11, <1>12, <1>13, <1>15, <1>16,
     <1>17 DEF Next, WorkerStep, ReconcilerStep

\* Every row, lock, request and reconciliation keeps its type, whatever the
\* number of shipments, batches, accounts and requests.
THEOREM TypeCorrect == Spec => [](TypeOK /\ WellFormed)
<1>1. Init => TypeOK /\ WellFormed
  BY ConstantAssumption DEF Init, TypeOK, WellFormed, Working
<1>2. TypeOK /\ WellFormed /\ [Next]_vars => (TypeOK /\ WellFormed)'
  BY TypeStep, ShapeStep
<1> QED
  BY <1>1, <1>2, PTL DEF Spec

-----------------------------------------------------------------------------
\* A request in flight is for an unsent member of a batch that no other
\* request has claimed, so one more order, or one more abandoned request, is
\* the only one of its shipment and concerns nobody else.
LEMMA PostedOnce ==
    ASSUME TypeOK, WellFormed, SubmissionInv,
           NEW w \in Workers, pc[w] = "posting",
           \/ created' = [created EXCEPT ![current[w]] = @ + 1] /\ late' = late
           \/ late' = [late EXCEPT ![current[w]] = @ + 1] /\ created' = created
    PROVE  /\ BatchOf[current[w]] = held[w]
           /\ batch[held[w]] \notin {"NONE", "SUBMISSION_QUEUED"}
           /\ \A v \in Workers \ {w} : Claimant(v) => current[w] \notin todo[v]
           /\ \A s \in Shipments \ {current[w]} : created'[s] = created[s] /\ late'[s] = late[s]
           /\ \A s \in Shipments : created'[s] + late'[s] <= 1
<1> DEFINE c == current[w]
<1>1. Claimant(w) /\ c \in todo[w] /\ c \in Shipments /\ ClaimSound(w)
  BY DEF TypeOK, WellFormed, SubmissionInv, Claimant, Working
<1>2. created[c] = 0 /\ late[c] = 0
  BY <1>1 DEF ClaimSound, MayBeSent, Unsent
<1>3. BatchOf[c] = held[w] /\ batch[held[w]] \notin {"NONE", "SUBMISSION_QUEUED"}
  BY <1>1 DEF WellFormed, ClaimSound, Claimant, Working, Members
<1>4. ASSUME NEW v \in Workers \ {w}, Claimant(v) PROVE c \notin todo[v]
  <2>1. held[v] # held[w]
    BY <1>1, <1>4 DEF ClaimSound
  <2> QED
    BY <1>3, <1>4, <2>1 DEF WellFormed, Claimant, Working, Members
<1>5. \A s \in Shipments \ {c} : created'[s] = created[s] /\ late'[s] = late[s]
  BY DEF TypeOK
<1>6. created'[c] + late'[c] = 1
  BY <1>1, <1>2 DEF TypeOK
<1>7. \A s \in Shipments : created[s] + late[s] <= 1
  BY DEF SubmissionInv
<1> QED
  BY <1>3, <1>4, <1>5, <1>6, <1>7

\* Each step keeps the submission invariant.
LEMMA SubmissionStep ==
    TypeOK /\ WellFormed /\ SubmissionInv /\ [Next]_vars => SubmissionInv'
<1> SUFFICES ASSUME TypeOK, WellFormed, SubmissionInv, [Next]_vars PROVE SubmissionInv'
  OBVIOUS
<1> USE BatchAssumption DEF rows, mengantar, worker, reconciler, Working, Members,
        Claimant, Unsent, MayBeSent, FlagsSound, PreparedInFull, QueuedIsWhole, ClaimSound
\* A request returns and touches neither batches nor Mengantar.
<1>1. ASSUME NEW w \in Workers, Return(w), UNCHANGED <<batch, created, late>>
      PROVE  SubmissionInv'
  BY <1>1, ReturnShape DEF TypeOK, SubmissionInv, Return
\* A batch changes, but not back to the queue.
<1>2. ASSUME NEW b \in Batches, NEW status,
             status \notin {"NONE", "SUBMISSION_QUEUED"},
             batch' = [batch EXCEPT ![b] = status],
             UNCHANGED <<created, late, worker>>
      PROVE  SubmissionInv'
  <2>1. \A c \in Batches : batch'[c] \in {"NONE", "SUBMISSION_QUEUED"} =>
                              batch[c] \in {"NONE", "SUBMISSION_QUEUED"}
    BY <1>2 DEF TypeOK
  <2> QED
    BY <1>2, <2>1 DEF WellFormed, SubmissionInv
\* A claimant goes on with the order in its hand neither posted nor recorded now.
<1>3. ASSUME NEW w \in Workers, NEW next \in Working \ {"prepared"},
             Claimant(w), pc' = [pc EXCEPT ![w] = next],
             MayBeSent(w) => MayBeSent(w)' /\ current'[w] = current[w],
             FlagsSound(w)',
             \A v \in Workers \ {w} :
                current'[v] = current[v] /\ sent'[v] = sent[v] /\ refused'[v] = refused[v],
             UNCHANGED <<batch, created, late, held, todo>>
      PROVE  SubmissionInv'
  <2>1. \A s \in Shipments : (created[s] + late[s] <= 1)' /\ QueuedIsWhole(s)'
    BY <1>3 DEF SubmissionInv
  <2>2. \A v \in Workers : Claimant(v)' <=> Claimant(v)
    BY <1>3 DEF TypeOK
  <2>3. \A v \in Workers : FlagsSound(v)' /\ PreparedInFull(v)'
    BY <1>3 DEF TypeOK, SubmissionInv
  <2>4. ClaimSound(w)'
    BY <1>3, <2>2 DEF SubmissionInv
  <2>5. ASSUME NEW v \in Workers \ {w} PROVE ClaimSound(v)'
    BY <1>3, <2>2 DEF TypeOK, SubmissionInv
  <2> QED
    BY <2>1, <2>3, <2>4, <2>5 DEF SubmissionInv
<1>4. ASSUME NEW w \in Workers, NEW b \in Batches, PrepareProviderBatch(w, b)
      PROVE  SubmissionInv'
  BY <1>4 DEF TypeOK, SubmissionInv, PrepareProviderBatch
<1>5. ASSUME NEW w \in Workers, NEW b \in Batches, ResumeProviderBatch(w, b)
      PROVE  SubmissionInv'
  BY <1>5 DEF TypeOK, SubmissionInv, ResumeProviderBatch
<1>6. ASSUME NEW w \in Workers,
             RejectPayload(w) \/ ClaimTaken(w) \/ ClaimLost(w) \/ MarkTooLate(w)
      PROVE  SubmissionInv'
  BY <1>6, <1>1 DEF RejectPayload, ClaimTaken, ClaimLost, MarkTooLate
<1>7. ASSUME NEW w \in Workers, ClaimProviderBatch(w) PROVE SubmissionInv'
  <2>1. \A s \in todo[w] : created[s] = 0 /\ late[s] = 0
    BY <1>7 DEF TypeOK, SubmissionInv, ClaimProviderBatch
  <2>2. \A v \in Workers : Claimant(v) => held[v] # held[w]
    BY <1>7 DEF SubmissionInv, ClaimProviderBatch
  <2> QED
    BY <1>7, <2>1, <2>2 DEF TypeOK, WellFormed, SubmissionInv, ClaimProviderBatch, Goto
<1>8. ASSUME NEW w \in Workers, AcquireAccountLock(w) PROVE SubmissionInv'
  BY <1>8, <1>3 DEF TypeOK, SubmissionInv, AcquireAccountLock
<1>9. ASSUME NEW w \in Workers,
             RefreshProviderBatchClaim(w) \/ FailBeforeSend(w) \/ FailAfterAnswer(w) \/ GiveUpRelease(w)
      PROVE  SubmissionInv'
  <2>1. UNCHANGED <<batch, created, late>>
    BY <1>9 DEF RefreshProviderBatchClaim, FailBeforeSend, FailAfterAnswer, GiveUpRelease
  <2>2. CASE pc[w] = "locked" /\ Goto(w, "refreshed")
    BY <2>1, <2>2, <1>3 DEF TypeOK, SubmissionInv, Goto
  <2>3. CASE pc[w] \in {"claimed", "locked", "refreshed", "answered", "closing"} /\ Goto(w, "failed")
    BY <2>1, <2>3, <1>3 DEF TypeOK, SubmissionInv, Goto
  <2>4. CASE pc[w] = "failed" /\ Goto(w, "marking")
    BY <2>1, <2>4, <1>3 DEF TypeOK, SubmissionInv, Goto
  <2> QED
    <3>1. CASE RefreshProviderBatchClaim(w)
      BY <3>1, <2>2 DEF RefreshProviderBatchClaim
    <3>2. CASE FailBeforeSend(w)
      <4>1. pc[w] \in {"claimed", "locked", "refreshed"} /\ Goto(w, "failed")
        BY <3>2 DEF FailBeforeSend
      <4> QED
        BY <4>1, <2>3
    <3>3. CASE FailAfterAnswer(w)
      <4>1. pc[w] \in {"answered", "closing"} /\ Goto(w, "failed")
        BY <3>3 DEF FailAfterAnswer
      <4> QED
        BY <4>1, <2>3
    <3>4. CASE GiveUpRelease(w)
      BY <3>4, <2>4 DEF GiveUpRelease
    <3> QED
      BY <1>9, <3>1, <3>2, <3>3, <3>4
<1>10. ASSUME NEW w \in Workers, SendOrder(w) PROVE SubmissionInv'
  BY <1>10, <1>3 DEF TypeOK, SubmissionInv, SendOrder
<1>11. ASSUME NEW w \in Workers, ConflictRetried(w) PROVE SubmissionInv'
  BY <1>11 DEF SubmissionInv, ConflictRetried
<1>12. ASSUME NEW w \in Workers, ProviderRefuses(w) PROVE SubmissionInv'
  BY <1>12, <1>3 DEF TypeOK, SubmissionInv, ProviderRefuses
\* The order in hand is posted for good: it is created, or may land later.
<1>13. ASSUME NEW w \in Workers, NEW next \in {"answered", "failed"},
              pc[w] = "posting", pc' = [pc EXCEPT ![w] = next],
              \/ created' = [created EXCEPT ![current[w]] = @ + 1] /\ late' = late
              \/ late' = [late EXCEPT ![current[w]] = @ + 1] /\ created' = created,
              UNCHANGED <<batch, held, todo, current, sent, refused>>
       PROVE  SubmissionInv'
  <2>0. /\ BatchOf[current[w]] = held[w]
        /\ batch[held[w]] \notin {"NONE", "SUBMISSION_QUEUED"}
        /\ \A v \in Workers \ {w} : Claimant(v) => current[w] \notin todo[v]
        /\ \A s \in Shipments \ {current[w]} : created'[s] = created[s] /\ late'[s] = late[s]
        /\ \A s \in Shipments : created'[s] + late'[s] <= 1
    BY <1>13, PostedOnce
  <2>1. \A s \in Shipments : (created[s] + late[s] <= 1)' /\ QueuedIsWhole(s)'
    BY <1>13, <2>0 DEF SubmissionInv
  <2>2. \A v \in Workers : Claimant(v)' <=> Claimant(v)
    BY <1>13 DEF TypeOK
  <2>3. \A v \in Workers : FlagsSound(v)' /\ PreparedInFull(v)'
    BY <1>13 DEF TypeOK, SubmissionInv
  <2>4. ClaimSound(w)'
    BY <1>13, <2>2, PostedOnce DEF TypeOK, SubmissionInv
  <2>5. ASSUME NEW v \in Workers \ {w} PROVE ClaimSound(v)'
    <3>1. ClaimSound(v) /\ todo[v] \subseteq Shipments
      BY DEF TypeOK, SubmissionInv
    <3>2. \A s \in todo[v] : Claimant(v) => (Unsent(s)' <=> Unsent(s))
      BY <2>0, <3>1
    <3>3. MayBeSent(v)' <=> MayBeSent(v)
      BY <1>13 DEF TypeOK
    <3> QED
      BY <1>13, <2>2, <3>1, <3>2, <3>3
  <2> QED
    BY <2>1, <2>3, <2>4, <2>5 DEF SubmissionInv
<1>14. ASSUME NEW w \in Workers, ProviderAccepts(w) \/ AnswerLost(w) PROVE SubmissionInv'
  BY <1>14, <1>13 DEF ProviderAccepts, CreateAtMengantar, AnswerLost, Goto
<1>15. ASSUME NEW w \in Workers, CompleteProviderOrder(w) PROVE SubmissionInv'
  <2>1. /\ \E next \in {"closing", "claimed"} : pc' = [pc EXCEPT ![w] = next]
        /\ todo' = [todo EXCEPT ![w] = @ \ {current[w]}]
        /\ current' = [current EXCEPT ![w] = None]
        /\ sent' = [sent EXCEPT ![w] = FALSE]
        /\ UNCHANGED <<batch, mengantar, held, refused>>
        /\ pc[w] = "answered"
    BY <1>15 DEF CompleteProviderOrder
  <2> QED
    BY <2>1 DEF TypeOK, WellFormed, SubmissionInv
<1>16. ASSUME NEW w \in Workers, NEW status, Return(w),
              status \notin {"NONE", "SUBMISSION_QUEUED"},
              batch' = [batch EXCEPT ![held[w]] = status],
              UNCHANGED <<created, late>>
       PROVE  SubmissionInv'
  <2>1. \A c \in Batches : batch'[c] \in {"NONE", "SUBMISSION_QUEUED"} =>
                              batch[c] \in {"NONE", "SUBMISSION_QUEUED"}
    BY <1>16 DEF TypeOK
  <2> QED
    BY <1>16, <2>1, ReturnShape DEF TypeOK, WellFormed, SubmissionInv, Return
<1>17. ASSUME NEW w \in Workers, CompleteProviderBatch(w) \/ MarkProviderBatchUnknown(w)
       PROVE  SubmissionInv'
  BY <1>17, <1>16 DEF CompleteProviderBatch, MarkProviderBatchUnknown
<1>18. ASSUME NEW w \in Workers, ReleaseProviderBatchClaim(w) PROVE SubmissionInv'
  <2>1. \A s \in Members(held[w]) : created[s] = 0 /\ late[s] = 0
    BY <1>18 DEF SubmissionInv, ReleaseProviderBatchClaim, NothingSent
  <2>2. \A v \in Workers \ {w} : Claimant(v) => held[v] # held[w]
    BY <1>18 DEF SubmissionInv, ReleaseProviderBatchClaim
  <2>3. Return(w) /\ batch' = [batch EXCEPT ![held[w]] = "SUBMISSION_QUEUED"]
        /\ UNCHANGED <<created, late>>
    BY <1>18 DEF ReleaseProviderBatchClaim
  <2> QED
    BY <2>1, <2>2, <2>3, ReturnShape DEF TypeOK, WellFormed, SubmissionInv, Return
<1>19. ASSUME NEW w \in Workers, Crash(w) PROVE SubmissionInv'
  <2>1. CASE pc[w] # "posting"
    BY <1>19, <2>1, <1>1 DEF Crash
  <2>2. CASE pc[w] = "posting"
    <3>1. /\ Return(w)
          /\ late' = [late EXCEPT ![current[w]] = @ + 1] /\ created' = created
          /\ UNCHANGED batch
      BY <1>19, <2>2 DEF Crash
    <3>2. /\ BatchOf[current[w]] = held[w]
          /\ batch[held[w]] \notin {"NONE", "SUBMISSION_QUEUED"}
          /\ \A v \in Workers \ {w} : Claimant(v) => current[w] \notin todo[v]
          /\ \A s \in Shipments \ {current[w]} : created'[s] = created[s] /\ late'[s] = late[s]
          /\ \A s \in Shipments : created'[s] + late'[s] <= 1
      BY <2>2, <3>1, PostedOnce
    <3>3. \A s \in Shipments : (created[s] + late[s] <= 1)' /\ QueuedIsWhole(s)'
      BY <3>1, <3>2 DEF SubmissionInv
    <3>4. pc'[w] = "idle" /\ refused'[w] = FALSE
      BY <3>1 DEF TypeOK, Return
    <3>5. ASSUME NEW v \in Workers \ {w}
          PROVE  FlagsSound(v)' /\ PreparedInFull(v)' /\ ClaimSound(v)'
      <4>1. /\ pc'[v] = pc[v] /\ held'[v] = held[v] /\ todo'[v] = todo[v]
            /\ current'[v] = current[v] /\ sent'[v] = sent[v] /\ refused'[v] = refused[v]
        BY <3>1 DEF TypeOK, Return
      <4>2. \A u \in Workers \ {v} : Claimant(u)' => Claimant(u) /\ held'[u] = held[u]
        BY <3>1 DEF TypeOK, Return
      <4>3. /\ FlagsSound(v) /\ PreparedInFull(v) /\ ClaimSound(v)
            /\ todo[v] \subseteq Shipments
        BY DEF TypeOK, SubmissionInv
      <4>4. \A s \in todo[v] : Claimant(v) => (Unsent(s)' <=> Unsent(s))
        BY <3>2, <4>3
      <4>5. FlagsSound(v)' /\ PreparedInFull(v)'
        BY <4>1, <4>3
      <4>6. ClaimSound(v)'
        BY <3>1, <4>1, <4>2, <4>3, <4>4
      <4> QED
        BY <4>5, <4>6
    <3>6. FlagsSound(w)' /\ PreparedInFull(w)' /\ ClaimSound(w)'
      BY <3>4
    <3> HIDE DEF FlagsSound, PreparedInFull, ClaimSound, QueuedIsWhole
    <3> QED
      BY <3>3, <3>5, <3>6 DEF SubmissionInv
  <2> QED
    BY <2>1, <2>2
<1>20. ASSUME NEW r \in Reconcilers, ApplyReconciliation(r) PROVE SubmissionInv'
  <2>1. PICK status \in {"SUBMISSION_UNKNOWN", "COMPLETED", "FAILED"} :
           batch' = [batch EXCEPT ![BatchOf[target[r]]] = status]
    BY <1>20 DEF ApplyReconciliation, ClosedStatus
  <2> QED
    BY <1>20, <1>2, <2>1 DEF WellFormed, ApplyReconciliation
<1>21. ASSUME NEW s \in Shipments, LateRequestLands(s) PROVE SubmissionInv'
  BY <1>21 DEF TypeOK, SubmissionInv, LateRequestLands, CreateAtMengantar
<1>22. ASSUME NEW s \in Shipments, LateRequestDropped(s) PROVE SubmissionInv'
  BY <1>22 DEF TypeOK, SubmissionInv, LateRequestDropped
<1>23. ASSUME NEW b \in Batches, MarkStaleProviderBatch(b) PROVE SubmissionInv'
  BY <1>23, <1>2 DEF MarkStaleProviderBatch
<1>24. ASSUME UNCHANGED <<batch, created, late, worker>> PROVE SubmissionInv'
  BY <1>24 DEF SubmissionInv
<1>25. ASSUME NEW r \in Reconcilers,
              \/ \E s \in Shipments : LoadReconciliationTarget(r, s)
              \/ ReadStoredOrders(r) \/ ClassifyStoredOrders(r) \/ FixtureAnswers(r)
              \/ AbandonReconciliation(r)
       PROVE  SubmissionInv'
  BY <1>25, <1>24 DEF LoadReconciliationTarget, ReadStoredOrders, ClassifyStoredOrders,
                      FixtureAnswers, AbandonReconciliation
<1>26. ASSUME NEW b \in Batches, ClaimAges(b) PROVE SubmissionInv'
  BY <1>26, <1>24 DEF ClaimAges
<1>27. CASE UNCHANGED vars
  BY <1>27, <1>24 DEF vars
<1> QED
  BY <1>4, <1>5, <1>6, <1>7, <1>8, <1>9, <1>10, <1>11, <1>12, <1>14, <1>15, <1>17, <1>18,
     <1>19, <1>20, <1>21, <1>22, <1>23, <1>25, <1>26, <1>27 DEF Next, WorkerStep, ReconcilerStep

\* The submission invariant holds in every reachable state.
THEOREM SubmissionCorrect == Spec => [](TypeOK /\ SubmissionInv)
<1>1. Init => TypeOK /\ WellFormed /\ SubmissionInv
  BY ConstantAssumption DEF Init, TypeOK, WellFormed, SubmissionInv, FlagsSound,
     PreparedInFull, QueuedIsWhole, ClaimSound, Claimant, Unsent, Working
<1>2. TypeOK /\ WellFormed /\ SubmissionInv /\ [Next]_vars
        => (TypeOK /\ WellFormed /\ SubmissionInv)'
  BY TypeStep, ShapeStep, SubmissionStep
<1> QED
  BY <1>1, <1>2, PTL DEF Spec

\* However submissions, lost answers, crashes, sweeps and reconciliations
\* interleave, Mengantar never makes two orders for one shipment.
THEOREM NeverTwoOrders == Spec => []AtMostOneProviderOrder
<1>1. TypeOK /\ SubmissionInv => AtMostOneProviderOrder
  BY DEF TypeOK, SubmissionInv, AtMostOneProviderOrder
<1> QED
  BY <1>1, SubmissionCorrect, PTL

\* A batch offered for another confirmation was never sent.
THEOREM QueuedIsUnsent == Spec => []ResumableMeansUnsent
<1>1. SubmissionInv => ResumableMeansUnsent
  BY DEF SubmissionInv, QueuedIsWhole, ResumableMeansUnsent, Unsent
<1> QED
  BY <1>1, SubmissionCorrect, PTL

-----------------------------------------------------------------------------
\* Only these transactions write the rows of batches, orders, shipments and the ledger.
LEMMA RowsWritten ==
    ASSUME [Next]_vars
    PROVE  \/ UNCHANGED <<shipment, orderStatus, orderId, batch, posted>>
           \/ \E w \in Workers :
                \/ \E b \in Batches : PrepareProviderBatch(w, b)
                \/ ClaimProviderBatch(w) \/ CompleteProviderOrder(w) \/ CompleteProviderBatch(w)
                \/ ReleaseProviderBatchClaim(w) \/ MarkProviderBatchUnknown(w)
           \/ \E r \in Reconcilers : ApplyReconciliation(r)
           \/ \E b \in Batches : MarkStaleProviderBatch(b)
<1> USE DEF rows
<1>1. ASSUME NEW w \in Workers, NEW b \in Batches, ResumeProviderBatch(w, b)
      PROVE  UNCHANGED <<shipment, orderStatus, orderId, batch, posted>>
  BY <1>1 DEF ResumeProviderBatch
<1>2. ASSUME NEW w \in Workers,
             \/ RejectPayload(w) \/ ClaimTaken(w) \/ AcquireAccountLock(w)
             \/ RefreshProviderBatchClaim(w) \/ ClaimLost(w) \/ FailBeforeSend(w)
             \/ SendOrder(w) \/ ProviderAccepts(w) \/ ConflictRetried(w) \/ ProviderRefuses(w)
             \/ AnswerLost(w) \/ FailAfterAnswer(w) \/ GiveUpRelease(w) \/ MarkTooLate(w)
             \/ Crash(w)
      PROVE  UNCHANGED <<shipment, orderStatus, orderId, batch, posted>>
  BY <1>2 DEF RejectPayload, ClaimTaken, AcquireAccountLock, RefreshProviderBatchClaim, ClaimLost,
     FailBeforeSend, SendOrder, ProviderAccepts, ConflictRetried, ProviderRefuses, AnswerLost,
     FailAfterAnswer, GiveUpRelease, MarkTooLate, Crash
<1>3. ASSUME NEW r \in Reconcilers,
             \/ \E s \in Shipments : LoadReconciliationTarget(r, s)
             \/ ReadStoredOrders(r) \/ ClassifyStoredOrders(r) \/ FixtureAnswers(r)
             \/ AbandonReconciliation(r)
      PROVE  UNCHANGED <<shipment, orderStatus, orderId, batch, posted>>
  BY <1>3 DEF LoadReconciliationTarget, ReadStoredOrders, ClassifyStoredOrders, FixtureAnswers,
     AbandonReconciliation
<1>4. ASSUME NEW s \in Shipments, LateRequestLands(s) \/ LateRequestDropped(s)
      PROVE  UNCHANGED <<shipment, orderStatus, orderId, batch, posted>>
  BY <1>4 DEF LateRequestLands, LateRequestDropped
<1>5. ASSUME NEW b \in Batches, ClaimAges(b)
      PROVE  UNCHANGED <<shipment, orderStatus, orderId, batch, posted>>
  BY <1>5 DEF ClaimAges
<1>6. CASE UNCHANGED vars
  BY <1>6 DEF vars
<1> QED
  BY <1>1, <1>2, <1>3, <1>4, <1>5, <1>6 DEF Next, WorkerStep, ReconcilerStep

\* Members of one batch are not members of another.
LEMMA Elsewhere ==
    ASSUME TypeOK, NEW b \in Batches, NEW status, batch' = [batch EXCEPT ![b] = status]
    PROVE  /\ batch'[b] = status
           /\ \A c \in Batches \ {b} : batch'[c] = batch[c]
           /\ \A s \in Shipments : BatchOf[s] = b \/ batch'[BatchOf[s]] = batch[BatchOf[s]]
BY BatchAssumption DEF TypeOK

\* Each step keeps the rows of a batch, its members and the ledger together.
LEMMA RowsStep == TypeOK /\ WellFormed /\ RowsInv /\ [Next]_vars => RowsInv'
<1> SUFFICES ASSUME TypeOK, WellFormed, RowsInv, [Next]_vars PROVE RowsInv'
  OBVIOUS
<1> USE BatchAssumption DEF Members
<1>1. ASSUME UNCHANGED <<shipment, orderStatus, orderId, batch, posted>> PROVE RowsInv'
  BY <1>1 DEF RowsInv, RowSound, LedgerFollowsIssue, OrderOwnedOnce
\* The status of a batch moves with no row of a member.
<1>2. ASSUME NEW b \in Batches, NEW status, batch' = [batch EXCEPT ![b] = status],
             UNCHANGED <<shipment, orderStatus, orderId, posted>>,
             status # "FAILED",
             \A s \in Members(b) : orderStatus[s] \in MemberStatuses(status)
      PROVE  RowsInv'
  <2>1. \A s \in Shipments : RowSound(s)'
    BY <1>2, Elsewhere DEF RowsInv, RowSound
  <2>2. \A c \in Batches : batch'[c] = "FAILED" => \E s \in Members(c) : orderStatus'[s] = "FAILED"
    BY <1>2, Elsewhere DEF RowsInv
  <2> QED
    BY <1>2, <2>1, <2>2 DEF RowsInv, LedgerFollowsIssue, OrderOwnedOnce
\* The members of a batch that are still queued become unknown with it.
<1>3. ASSUME NEW b \in Batches, batch[b] = "SUBMITTING", LoseMembers(b),
             batch' = [batch EXCEPT ![b] = "SUBMISSION_UNKNOWN"], UNCHANGED <<orderId, posted>>
      PROVE  RowsInv'
  <2>1. \A s \in Shipments : RowSound(s) /\ orderStatus'[s] =
           IF BatchOf[s] = b /\ orderStatus[s] = "SUBMISSION_QUEUED"
           THEN "SUBMISSION_UNKNOWN" ELSE orderStatus[s]
    BY <1>3 DEF LoseMembers, RowsInv
  <2>2. ASSUME NEW s \in Shipments PROVE RowSound(s)'
    <3>1. /\ orderStatus[s] \in MemberStatuses(batch[BatchOf[s]])
          /\ shipment[s] = IF orderStatus[s] = "NONE" THEN "ESTIMATED" ELSE orderStatus[s]
      BY <2>1 DEF RowSound
    <3>2. CASE BatchOf[s] = b
      <4>1. orderStatus[s] \in Terminal \cup {"SUBMISSION_QUEUED"}
        BY <1>3, <3>1, <3>2 DEF MemberStatuses
      <4>2. /\ orderStatus'[s] \in Terminal \cup {"SUBMISSION_UNKNOWN"}
            /\ shipment'[s] = orderStatus'[s]
        BY <1>3, <2>1, <3>1, <3>2, <4>1 DEF LoseMembers, Terminal
      <4>3. batch'[BatchOf[s]] = "SUBMISSION_UNKNOWN"
        BY <1>3, <3>2, Elsewhere
      <4> QED
        BY <4>2, <4>3 DEF RowSound, MemberStatuses, Terminal
    <3>3. CASE BatchOf[s] # b
      <4>1. orderStatus'[s] = orderStatus[s] /\ shipment'[s] = shipment[s]
        BY <1>3, <3>3 DEF LoseMembers
      <4>2. batch'[BatchOf[s]] = batch[BatchOf[s]]
        BY <1>3, <3>3, Elsewhere
      <4> QED
        BY <3>1, <4>1, <4>2 DEF RowSound
    <3> QED
      BY <3>2, <3>3
  <2>3. \A c \in Batches : batch'[c] = "FAILED" => \E s \in Members(c) : orderStatus'[s] = "FAILED"
    BY <1>3, <2>1, Elsewhere DEF RowsInv
  <2>4. LedgerFollowsIssue' /\ OrderOwnedOnce'
    BY <1>3, <2>1 DEF RowsInv, LedgerFollowsIssue, OrderOwnedOnce
  <2> QED
    BY <2>2, <2>3, <2>4 DEF RowsInv
<1>4. ASSUME NEW w \in Workers, NEW b \in Batches, PrepareProviderBatch(w, b) PROVE RowsInv'
  <2>1. \A s \in Shipments : RowSound(s) /\ orderStatus'[s] =
           IF BatchOf[s] = b THEN "SUBMISSION_QUEUED" ELSE orderStatus[s]
    BY <1>4 DEF PrepareProviderBatch, RowsInv
  <2>2. /\ batch' = [batch EXCEPT ![b] = "SUBMISSION_QUEUED"] /\ batch[b] = "NONE"
        /\ UNCHANGED <<orderId, posted>>
    BY <1>4 DEF PrepareProviderBatch
  <2>3. ASSUME NEW s \in Shipments PROVE RowSound(s)'
    <3>1. shipment'[s] = IF BatchOf[s] = b THEN "SUBMISSION_QUEUED" ELSE shipment[s]
      BY <1>4 DEF PrepareProviderBatch
    <3>2. CASE BatchOf[s] = b
      <4>1. batch'[BatchOf[s]] = "SUBMISSION_QUEUED"
        BY <2>2, <3>2, Elsewhere
      <4> QED
        BY <2>1, <3>1, <3>2, <4>1 DEF RowSound, MemberStatuses
    <3>3. CASE BatchOf[s] # b
      <4>1. batch'[BatchOf[s]] = batch[BatchOf[s]]
        BY <2>2, <3>3, Elsewhere
      <4> QED
        BY <2>1, <3>1, <3>3, <4>1 DEF RowSound
    <3> QED
      BY <3>2, <3>3
  <2>4. \A c \in Batches : batch'[c] = "FAILED" => \E s \in Members(c) : orderStatus'[s] = "FAILED"
    BY <2>1, <2>2, Elsewhere DEF RowsInv
  <2>5. LedgerFollowsIssue' /\ OrderOwnedOnce'
    BY <2>1, <2>2 DEF RowsInv, RowSound, MemberStatuses, LedgerFollowsIssue, OrderOwnedOnce
  <2> QED
    BY <2>3, <2>4, <2>5 DEF RowsInv
<1>5. ASSUME NEW w \in Workers, ClaimProviderBatch(w) PROVE RowsInv'
  <2>1. held[w] \in Batches
    BY <1>5 DEF WellFormed, ClaimProviderBatch
  <2>2. \A s \in Members(held[w]) : orderStatus[s] \in MemberStatuses("SUBMITTING")
    BY <1>5 DEF RowsInv, RowSound, MemberStatuses, ClaimProviderBatch
  <2> QED
    BY <1>2, <1>5, <2>1, <2>2 DEF ClaimProviderBatch
<1>6. ASSUME NEW w \in Workers, CompleteProviderBatch(w) PROVE RowsInv'
  <2>1. held[w] \in Batches
    BY <1>6 DEF WellFormed, CompleteProviderBatch
  <2>2. \A s \in Members(held[w]) : orderStatus[s] \in MemberStatuses("COMPLETED")
    BY <1>6 DEF MemberStatuses, CompleteProviderBatch
  <2> QED
    BY <1>2, <1>6, <2>1, <2>2 DEF CompleteProviderBatch
<1>7. ASSUME NEW w \in Workers, ReleaseProviderBatchClaim(w) PROVE RowsInv'
  <2>1. held[w] \in Batches
    BY <1>7 DEF WellFormed, ReleaseProviderBatchClaim
  <2>2. \A s \in Members(held[w]) : orderStatus[s] \in MemberStatuses("SUBMISSION_QUEUED")
    BY <1>7 DEF MemberStatuses, ReleaseProviderBatchClaim, ClaimReleasable
  <2> QED
    BY <1>2, <1>7, <2>1, <2>2 DEF ReleaseProviderBatchClaim
<1>8. ASSUME NEW w \in Workers, MarkProviderBatchUnknown(w) PROVE RowsInv'
  BY <1>3, <1>8 DEF WellFormed, MarkProviderBatchUnknown
<1>9. ASSUME NEW b \in Batches, MarkStaleProviderBatch(b) PROVE RowsInv'
  <2>1. AllRecorded(b) => \A s \in Members(b) : orderStatus[s] \in MemberStatuses("COMPLETED")
    BY DEF AllRecorded, MemberStatuses
  <2> QED
    BY <1>2, <1>3, <1>9, <2>1 DEF MarkStaleProviderBatch, rows
<1>10. ASSUME NEW w \in Workers, CompleteProviderOrder(w) PROVE RowsInv'
  <2> DEFINE c == current[w]
  <2>1. c \in Shipments /\ BatchOf[c] = held[w] /\ batch[BatchOf[c]] = "SUBMITTING"
    BY <1>10 DEF TypeOK, WellFormed, CompleteProviderOrder
  <2>2. /\ stored[c] \in Terminal /\ orderStatus[c] = "SUBMISSION_QUEUED" /\ Unowned(c)
        /\ orderStatus' = [orderStatus EXCEPT ![c] = stored[c]]
        /\ shipment' = [shipment EXCEPT ![c] = stored[c]]
        /\ orderId' = [orderId EXCEPT ![c] = c]
        /\ PostIssue(c, stored[c])
        /\ batch' = batch
    BY <1>10 DEF CompleteProviderOrder, Recordable, Terminal, rows
  <2>3. ASSUME NEW s \in Shipments PROVE RowSound(s)'
    BY <2>1, <2>2 DEF TypeOK, RowsInv, RowSound, MemberStatuses, Terminal
  <2>4. \A b \in Batches : batch'[b] = "FAILED" => \E s \in Members(b) : orderStatus'[s] = "FAILED"
    BY <2>1, <2>2 DEF TypeOK, RowsInv
  <2>5. LedgerFollowsIssue'
    BY <2>1, <2>2 DEF TypeOK, RowsInv, LedgerFollowsIssue, PostIssue
  <2>6. OrderOwnedOnce'
    BY <2>1, <2>2 DEF TypeOK, RowsInv, OrderOwnedOnce, Unowned, Owned
  <2> QED
    BY <2>3, <2>4, <2>5, <2>6 DEF RowsInv
<1>11. ASSUME NEW r \in Reconcilers, ApplyReconciliation(r) PROVE RowsInv'
  <2> DEFINE t == target[r]
             b == BatchOf[t]
             statuses == {orderStatus'[m] : m \in Members(b)}
  <2>1. t \in Shipments /\ b \in Batches
    BY <1>11 DEF WellFormed, ApplyReconciliation
  <2>2. /\ outcome[r] \in Terminal \cup {"FAILED"}
        /\ orderStatus[t] = "SUBMISSION_UNKNOWN" /\ batch[b] = "SUBMISSION_UNKNOWN"
        /\ Unowned(found[r])
        /\ orderStatus' = [orderStatus EXCEPT ![t] = outcome[r]]
        /\ shipment' = [shipment EXCEPT ![t] = outcome[r]]
        /\ orderId' = [orderId EXCEPT ![t] = found[r]]
        /\ PostIssue(t, outcome[r])
        /\ batch' = [batch EXCEPT ![b] = ClosedStatus(statuses)]
    BY <1>11 DEF TypeOK, ApplyReconciliation, Unresolved
  <2>3. \A s \in Shipments : orderStatus'[s] = IF s = t THEN outcome[r] ELSE orderStatus[s]
    BY <2>2 DEF TypeOK
  <2>4. \A s \in Members(b) :
           orderStatus'[s] \in Terminal \cup {"SUBMISSION_UNKNOWN", "FAILED"}
    BY <2>2, <2>3 DEF RowsInv, RowSound, MemberStatuses
  <2>5. \A s \in Members(b) : orderStatus'[s] \in MemberStatuses(ClosedStatus(statuses))
    BY <2>4 DEF ClosedStatus, MemberStatuses
  <2>6. ASSUME NEW s \in Shipments PROVE RowSound(s)'
    <3>1. CASE BatchOf[s] = b
      BY <2>1, <2>2, <2>3, <2>5, <3>1, Elsewhere DEF TypeOK, RowsInv, RowSound, Terminal
    <3>2. CASE BatchOf[s] # b
      BY <2>1, <2>2, <2>3, <3>2, Elsewhere DEF TypeOK, RowsInv, RowSound
    <3> QED
      BY <3>1, <3>2
  <2>7. ASSUME NEW c \in Batches, batch'[c] = "FAILED"
        PROVE  \E s \in Members(c) : orderStatus'[s] = "FAILED"
    <3>1. CASE c = b
      BY <2>1, <2>2, <2>7, <3>1, Elsewhere DEF ClosedStatus
    <3>2. CASE c # b
      BY <2>1, <2>2, <2>3, <2>7, <3>2, Elsewhere DEF RowsInv
    <3> QED
      BY <3>1, <3>2
  <2>8. LedgerFollowsIssue'
    BY <2>1, <2>2, <2>3 DEF TypeOK, RowsInv, LedgerFollowsIssue, PostIssue
  <2>9. OrderOwnedOnce'
    BY <2>1, <2>2 DEF TypeOK, RowsInv, OrderOwnedOnce, Unowned, Owned
  <2> QED
    BY <2>6, <2>7, <2>8, <2>9 DEF RowsInv
<1> QED
  BY <1>1, <1>4, <1>5, <1>6, <1>7, <1>8, <1>9, <1>10, <1>11, RowsWritten

-----------------------------------------------------------------------------
\* Two requests never hold the claim of one batch, so what a claimant writes to its
\* batch is not the batch of another request in flight.
LEMMA ClaimIsExclusive ==
    ASSUME SubmissionInv, NEW w \in Workers, Claimant(w)
    PROVE  \A v \in Workers \ {w} : Claimant(v) => held[v] # held[w]
BY DEF SubmissionInv, ClaimSound

\* Each step keeps the lock and the claim under a request in flight.
LEMMA FlightStep ==
    TypeOK /\ WellFormed /\ SubmissionInv /\ FlightInv /\ [Next]_vars => FlightInv'
<1> SUFFICES ASSUME TypeOK, WellFormed, SubmissionInv, FlightInv, [Next]_vars PROVE FlightInv'
  OBVIOUS
<1> USE BatchAssumption DEF rows, mengantar, worker, reconciler
\* A request moves and takes nothing from the others.
<1>1. ASSUME NEW w \in Workers, FlightSound(w)',
             \A v \in Workers \ {w} : pc'[v] = pc[v] /\ held'[v] = held[v],
             \A a \in Accounts : lock[a] \in Workers \ {w} => lock'[a] = lock[a],
             \A v \in Workers \ {w} : pc[v] \in {"refreshed", "posting"} =>
                batch'[held[v]] = batch[held[v]] /\ clock'[held[v]] = clock[held[v]]
      PROVE  FlightInv'
  <2>1. ASSUME NEW v \in Workers \ {w} PROVE FlightSound(v)'
    <3>1. FlightSound(v)
      BY DEF FlightInv
    <3>2. pc[v] # "idle" => AccountOf[held[v]] \in Accounts
      BY DEF WellFormed
    <3> QED
      BY <1>1, <3>1, <3>2 DEF FlightSound
  <2> QED
    BY <1>1, <2>1 DEF FlightInv
\* A request ends, or fails, and lets go of its locks and nothing else.
<1>2. ASSUME NEW w \in Workers, lock' = lock \/ Unlock(w), UNCHANGED <<batch, clock>>,
             Return(w) \/ \E next \in {"answered", "failed", "marking"} :
                             pc' = [pc EXCEPT ![w] = next] /\ held' = held
      PROVE  FlightInv'
  <2>1. /\ pc'[w] \in {"idle", "answered", "failed", "marking"}
        /\ \A v \in Workers \ {w} : pc'[v] = pc[v] /\ held'[v] = held[v]
    BY <1>2 DEF TypeOK, Return
  <2>2. \A a \in Accounts : lock[a] \in Workers \ {w} => lock'[a] = lock[a]
    BY <1>2 DEF Unlock
  <2> QED
    BY <1>1, <1>2, <2>1, <2>2 DEF FlightSound
<1>3. ASSUME NEW w \in Workers,
             \/ RejectPayload(w) \/ ClaimTaken(w) \/ ClaimLost(w) \/ FailBeforeSend(w)
             \/ ProviderAccepts(w) \/ ProviderRefuses(w) \/ AnswerLost(w) \/ FailAfterAnswer(w)
             \/ GiveUpRelease(w) \/ MarkTooLate(w) \/ Crash(w)
      PROVE  FlightInv'
  BY <1>2, <1>3 DEF RejectPayload, ClaimTaken, ClaimLost, FailBeforeSend, ProviderAccepts,
     ProviderRefuses, AnswerLost, FailAfterAnswer, GiveUpRelease, MarkTooLate, Crash, Goto
<1>4. ASSUME NEW w \in Workers, NEW b \in Batches,
             PrepareProviderBatch(w, b) \/ ResumeProviderBatch(w, b)
      PROVE  FlightInv'
  <2>1. /\ pc' = [pc EXCEPT ![w] = "prepared"] /\ held' = [held EXCEPT ![w] = b]
        /\ UNCHANGED <<lock, clock>>
    BY <1>4 DEF PrepareProviderBatch, ResumeProviderBatch
  <2>2. \A c \in Batches : batch[c] = "SUBMITTING" => batch'[c] = batch[c]
    BY <1>4 DEF TypeOK, PrepareProviderBatch, ResumeProviderBatch
  <2>3. \A v \in Workers : pc[v] \in {"refreshed", "posting"} =>
           held[v] \in Batches /\ batch[held[v]] = "SUBMITTING"
    BY DEF WellFormed, FlightInv, FlightSound
  <2> QED
    BY <1>1, <2>1, <2>2, <2>3 DEF TypeOK, FlightSound
\* A claimant, or the winner of a claim, writes the row of its own batch.
<1>5. ASSUME NEW w \in Workers, lock' = lock,
             \/ Claimant(w)
             \/ pc[w] # "idle" /\ batch[held[w]] = "SUBMISSION_QUEUED",
             batch' = batch \/ \E status : batch' = [batch EXCEPT ![held[w]] = status],
             clock' = clock \/ \E age : clock' = [clock EXCEPT ![held[w]] = age],
             pc'[w] \in {"idle", "claimed", "closing"},
             \A v \in Workers \ {w} : pc'[v] = pc[v] /\ held'[v] = held[v]
      PROVE  FlightInv'
  <2>1. ASSUME NEW v \in Workers \ {w}, pc[v] \in {"refreshed", "posting"}
        PROVE  held[v] \in Batches /\ held[v] # held[w]
    <3>1. Claimant(v) /\ held[v] \in Batches /\ batch[held[v]] = "SUBMITTING"
      BY <2>1 DEF Claimant, Working, WellFormed, FlightInv, FlightSound
    <3> QED
      BY <1>5, <3>1, ClaimIsExclusive
  <2>2. \A v \in Workers \ {w} : pc[v] \in {"refreshed", "posting"} =>
           batch'[held[v]] = batch[held[v]] /\ clock'[held[v]] = clock[held[v]]
    BY <1>5, <2>1 DEF TypeOK
  <2> QED
    BY <1>1, <1>5, <2>2 DEF FlightSound
<1>6. ASSUME NEW w \in Workers, ClaimProviderBatch(w) PROVE FlightInv'
  BY <1>5, <1>6 DEF TypeOK, ClaimProviderBatch, Goto
<1>7. ASSUME NEW w \in Workers,
             CompleteProviderBatch(w) \/ ReleaseProviderBatchClaim(w) \/ MarkProviderBatchUnknown(w)
      PROVE  FlightInv'
  <2>1. /\ Claimant(w) /\ Return(w) /\ lock' = lock
        /\ \E status : batch' = [batch EXCEPT ![held[w]] = status]
        /\ clock' = clock \/ \E age : clock' = [clock EXCEPT ![held[w]] = age]
    BY <1>7 DEF CompleteProviderBatch, ReleaseProviderBatchClaim, MarkProviderBatchUnknown,
       Claimant, Working
  <2> QED
    BY <1>5, <2>1, ReturnShape
<1>8. ASSUME NEW w \in Workers, CompleteProviderOrder(w) PROVE FlightInv'
  <2>1. /\ pc[w] = "answered" /\ UNCHANGED <<batch, lock, held>>
        /\ clock' = [clock EXCEPT ![held[w]] = "fresh"]
        /\ \E next \in {"closing", "claimed"} : pc' = [pc EXCEPT ![w] = next]
    BY <1>8 DEF CompleteProviderOrder
  <2> QED
    BY <1>5, <2>1 DEF TypeOK, Claimant, Working
<1>9. ASSUME NEW w \in Workers, AcquireAccountLock(w) PROVE FlightInv'
  <2>1. /\ held[w] \in Batches /\ lock[AccountOf[held[w]]] = None /\ UNCHANGED <<batch, clock, held>>
        /\ lock' = [lock EXCEPT ![AccountOf[held[w]]] = w]
        /\ pc' = [pc EXCEPT ![w] = "locked"]
    BY <1>9 DEF WellFormed, AcquireAccountLock
  <2>2. FlightSound(w)'
    BY <2>1 DEF TypeOK, FlightSound
  <2> QED
    BY <1>1, <2>1, <2>2, ConstantAssumption DEF TypeOK
<1>10. ASSUME NEW w \in Workers, RefreshProviderBatchClaim(w) PROVE FlightInv'
  <2>1. /\ held[w] \in Batches /\ batch[held[w]] = "SUBMITTING" /\ UNCHANGED <<batch, lock, held>>
        /\ clock' = [clock EXCEPT ![held[w]] = "fresh"] /\ pc[w] = "locked"
        /\ pc' = [pc EXCEPT ![w] = "refreshed"]
    BY <1>10 DEF WellFormed, RefreshProviderBatchClaim, StillOurs, Goto
  <2>2. FlightSound(w)'
    BY <2>1 DEF TypeOK, FlightInv, FlightSound
  <2>3. \A v \in Workers \ {w} : pc[v] \in {"refreshed", "posting"} =>
           held[v] \in Batches /\ clock'[held[v]] = clock[held[v]]
    BY <2>1 DEF TypeOK, WellFormed, FlightInv, FlightSound
  <2> QED
    BY <1>1, <2>1, <2>2, <2>3 DEF TypeOK
<1>11. ASSUME NEW w \in Workers, SendOrder(w) PROVE FlightInv'
  <2>1. /\ pc[w] = "refreshed" /\ pc' = [pc EXCEPT ![w] = "posting"]
        /\ UNCHANGED <<batch, clock, lock, held>>
    BY <1>11 DEF SendOrder
  <2> QED
    BY <1>1, <2>1 DEF TypeOK, FlightInv, FlightSound
<1>12. ASSUME UNCHANGED <<pc, held, lock, batch, clock>> PROVE FlightInv'
  BY <1>12 DEF FlightInv, FlightSound
<1>13. ASSUME NEW w \in Workers, ConflictRetried(w) PROVE FlightInv'
  BY <1>12, <1>13 DEF ConflictRetried
<1>14. ASSUME NEW r \in Reconcilers,
              \/ \E s \in Shipments : LoadReconciliationTarget(r, s)
              \/ ReadStoredOrders(r) \/ ClassifyStoredOrders(r) \/ FixtureAnswers(r)
              \/ AbandonReconciliation(r)
       PROVE  FlightInv'
  BY <1>12, <1>14 DEF LoadReconciliationTarget, ReadStoredOrders, ClassifyStoredOrders,
     FixtureAnswers, AbandonReconciliation
<1>15. ASSUME NEW s \in Shipments, LateRequestLands(s) \/ LateRequestDropped(s) PROVE FlightInv'
  BY <1>12, <1>15 DEF LateRequestLands, LateRequestDropped
\* A reconciliation and the sweep write batches that no request in flight holds.
<1>16. ASSUME NEW b \in Batches, NEW status, UNCHANGED <<pc, held, lock>>,
              batch' = [batch EXCEPT ![b] = status], clock' = clock,
              batch[b] # "SUBMITTING" \/ clock[b] = "stale"
       PROVE  FlightInv'
  <2>1. \A v \in Workers : pc[v] \in {"refreshed", "posting"} =>
           held[v] # b /\ batch'[held[v]] = batch[held[v]]
    BY <1>16 DEF TypeOK, WellFormed, FlightInv, FlightSound
  <2> QED
    BY <1>16, <2>1 DEF FlightInv, FlightSound
<1>17. ASSUME NEW r \in Reconcilers, ApplyReconciliation(r) PROVE FlightInv'
  <2> DEFINE b == BatchOf[target[r]]
  <2>1. /\ b \in Batches /\ batch[b] = "SUBMISSION_UNKNOWN" /\ UNCHANGED <<pc, held, lock, clock>>
        /\ \E status : batch' = [batch EXCEPT ![b] = status]
    BY <1>17 DEF WellFormed, ApplyReconciliation, Unresolved
  <2> QED
    BY <1>16, <2>1
<1>18. ASSUME NEW b \in Batches, MarkStaleProviderBatch(b) PROVE FlightInv'
  BY <1>16, <1>18 DEF MarkStaleProviderBatch
<1>19. ASSUME NEW b \in Batches, ClaimAges(b) PROVE FlightInv'
  <2>1. /\ UNCHANGED <<pc, held, lock, batch>> /\ clock' = [clock EXCEPT ![b] = "stale"]
        /\ \A v \in Workers : held[v] = b => pc[v] \notin {"refreshed", "posting"}
    BY <1>19 DEF ClaimAges
  <2> QED
    BY <2>1 DEF TypeOK, WellFormed, FlightInv, FlightSound
<1>20. CASE UNCHANGED vars
  BY <1>12, <1>20 DEF vars
<1> QED
  BY <1>3, <1>4, <1>6, <1>7, <1>8, <1>9, <1>10, <1>11, <1>13, <1>14, <1>15, <1>17, <1>18,
     <1>19, <1>20 DEF Next, WorkerStep, ReconcilerStep

-----------------------------------------------------------------------------
\* A batch whose submission is over stays over: the row never returns to the queue.
LEMMA OverStays ==
    ASSUME TypeOK, WellFormed, [Next]_vars, NEW b \in Batches, Over(b)
    PROVE  Over(b)'
<1> USE BatchAssumption DEF Over
<1>1. CASE UNCHANGED <<shipment, orderStatus, orderId, batch, posted>>
  BY <1>1
<1>2. ASSUME NEW w \in Workers,
             \/ \E c \in Batches : PrepareProviderBatch(w, c)
             \/ ClaimProviderBatch(w) \/ CompleteProviderOrder(w) \/ CompleteProviderBatch(w)
             \/ ReleaseProviderBatchClaim(w) \/ MarkProviderBatchUnknown(w)
      PROVE  Over(b)'
  BY <1>2 DEF TypeOK, PrepareProviderBatch, ClaimProviderBatch, CompleteProviderOrder,
     CompleteProviderBatch, ReleaseProviderBatchClaim, ClaimReleasable,
     MarkProviderBatchUnknown, rows
<1>3. ASSUME NEW r \in Reconcilers, ApplyReconciliation(r) PROVE Over(b)'
  BY <1>3 DEF TypeOK, WellFormed, ApplyReconciliation, ClosedStatus
<1>4. ASSUME NEW c \in Batches, MarkStaleProviderBatch(c) PROVE Over(b)'
  BY <1>4 DEF TypeOK, MarkStaleProviderBatch
<1> QED
  BY <1>1, <1>2, <1>3, <1>4, RowsWritten

\* Only these steps change what Mengantar stores or what is on its way there.
LEMMA MengantarWritten ==
    ASSUME [Next]_vars
    PROVE  \/ UNCHANGED mengantar
           \/ \E w \in Workers : ProviderAccepts(w) \/ AnswerLost(w) \/ (Crash(w) /\ pc[w] = "posting")
           \/ \E s \in Shipments : LateRequestLands(s) \/ LateRequestDropped(s)
<1> USE DEF mengantar
<1>1. ASSUME NEW w \in Workers,
             \/ \E b \in Batches : PrepareProviderBatch(w, b) \/ ResumeProviderBatch(w, b)
             \/ RejectPayload(w) \/ ClaimProviderBatch(w) \/ ClaimTaken(w) \/ AcquireAccountLock(w)
             \/ RefreshProviderBatchClaim(w) \/ ClaimLost(w) \/ FailBeforeSend(w)
             \/ SendOrder(w) \/ ConflictRetried(w) \/ ProviderRefuses(w)
             \/ CompleteProviderOrder(w) \/ CompleteProviderBatch(w) \/ FailAfterAnswer(w)
             \/ ReleaseProviderBatchClaim(w) \/ GiveUpRelease(w) \/ MarkProviderBatchUnknown(w)
             \/ MarkTooLate(w) \/ (Crash(w) /\ pc[w] # "posting")
      PROVE  UNCHANGED mengantar
  BY <1>1 DEF PrepareProviderBatch, ResumeProviderBatch, RejectPayload, ClaimProviderBatch,
     ClaimTaken, AcquireAccountLock, RefreshProviderBatchClaim, ClaimLost, FailBeforeSend,
     SendOrder, ConflictRetried, ProviderRefuses, CompleteProviderOrder, CompleteProviderBatch,
     FailAfterAnswer, ReleaseProviderBatchClaim, GiveUpRelease, MarkProviderBatchUnknown,
     MarkTooLate, Crash
<1>2. ASSUME NEW r \in Reconcilers, ReconcilerStep(r) PROVE UNCHANGED mengantar
  BY <1>2 DEF ReconcilerStep, LoadReconciliationTarget, ReadStoredOrders, ClassifyStoredOrders,
     FixtureAnswers, AbandonReconciliation, ApplyReconciliation
<1>3. ASSUME NEW b \in Batches, ClaimAges(b) \/ MarkStaleProviderBatch(b) PROVE UNCHANGED mengantar
  BY <1>3 DEF ClaimAges, MarkStaleProviderBatch
<1>4. CASE UNCHANGED vars
  BY <1>4 DEF vars
<1> QED
  BY <1>1, <1>2, <1>3, <1>4 DEF Next, WorkerStep

\* Mengantar keeps the orders it has made, makes none for an unsent member of a batch
\* whose submission is over, and stores nothing for an order it did not make.
LEMMA MengantarStep ==
    ASSUME TypeOK, WellFormed, FlightInv, [Next]_vars, NEW s \in Shipments
    PROVE  /\ created[s] > 0 => created'[s] > 0
           /\ Over(BatchOf[s]) /\ Unsent(s) => Unsent(s)'
           /\ (stored[s] # "NONE" => created[s] > 0) => (stored'[s] # "NONE" => created'[s] > 0)
<1> USE DEF mengantar, Unsent
\* A request in flight is for a member of a batch whose submission goes on.
<1>1. ASSUME NEW w \in Workers, pc[w] = "posting", current[w] = s PROVE ~Over(BatchOf[s])
  BY <1>1 DEF WellFormed, FlightInv, FlightSound, Over, Members
<1>2. CASE UNCHANGED mengantar
  BY <1>2
<1>3. ASSUME NEW c \in Shipments,
             \/ created' = [created EXCEPT ![c] = @ + 1]
                /\ \E kind \in Kinds : stored' = [stored EXCEPT ![c] = kind]
             \/ UNCHANGED <<created, stored>>,
             \/ c # s \/ ~Over(BatchOf[c]) \/ late[c] > 0,
             \A t \in Shipments : t = c \/ late'[t] = late[t]
      PROVE  /\ created[s] > 0 => created'[s] > 0
             /\ Over(BatchOf[s]) /\ Unsent(s) => Unsent(s)'
             /\ (stored[s] # "NONE" => created[s] > 0) => (stored'[s] # "NONE" => created'[s] > 0)
  BY <1>3 DEF TypeOK
<1>4. ASSUME NEW w \in Workers,
             ProviderAccepts(w) \/ AnswerLost(w) \/ (Crash(w) /\ pc[w] = "posting")
      PROVE  /\ created[s] > 0 => created'[s] > 0
             /\ Over(BatchOf[s]) /\ Unsent(s) => Unsent(s)'
             /\ (stored[s] # "NONE" => created[s] > 0) => (stored'[s] # "NONE" => created'[s] > 0)
  <2>1. pc[w] = "posting" /\ current[w] \in Shipments
    BY <1>4 DEF TypeOK, WellFormed, ProviderAccepts, AnswerLost
  <2>2. \/ created' = [created EXCEPT ![current[w]] = @ + 1]
           /\ \E kind \in Kinds : stored' = [stored EXCEPT ![current[w]] = kind]
        \/ UNCHANGED <<created, stored>>
    BY <1>4 DEF ProviderAccepts, AnswerLost, Crash, CreateAtMengantar
  <2>3. \A t \in Shipments : t = current[w] \/ late'[t] = late[t]
    BY <1>4, <2>1 DEF TypeOK, ProviderAccepts, AnswerLost, Crash
  <2> QED
    BY <1>1, <1>3, <2>1, <2>2, <2>3
<1>5. ASSUME NEW c \in Shipments, LateRequestLands(c) \/ LateRequestDropped(c)
      PROVE  /\ created[s] > 0 => created'[s] > 0
             /\ Over(BatchOf[s]) /\ Unsent(s) => Unsent(s)'
             /\ (stored[s] # "NONE" => created[s] > 0) => (stored'[s] # "NONE" => created'[s] > 0)
  <2>1. /\ \/ created' = [created EXCEPT ![c] = @ + 1]
              /\ \E kind \in Kinds : stored' = [stored EXCEPT ![c] = kind]
           \/ UNCHANGED <<created, stored>>
        /\ late[c] > 0
        /\ \A t \in Shipments : t = c \/ late'[t] = late[t]
    BY <1>5 DEF TypeOK, LateRequestLands, LateRequestDropped, CreateAtMengantar
  <2> QED
    BY <1>3, <2>1
<1> QED
  BY <1>2, <1>4, <1>5, MengantarWritten

\* A step of a reconciler leaves the workers, and what Mengantar stores, alone;
\* every other step leaves all reconcilers alone.
LEMMA ReconcilersWritten ==
    ASSUME [Next]_vars
    PROVE  \/ UNCHANGED reconciler
           \/ \E r \in Reconcilers : ReconcilerStep(r) /\ UNCHANGED <<mengantar, worker>>
<1> USE DEF reconciler, mengantar, worker
<1>1. ASSUME NEW w \in Workers, WorkerStep(w) PROVE UNCHANGED reconciler
  BY <1>1 DEF WorkerStep, PrepareProviderBatch, ResumeProviderBatch, RejectPayload,
     ClaimProviderBatch, ClaimTaken, AcquireAccountLock, RefreshProviderBatchClaim, ClaimLost,
     FailBeforeSend, SendOrder, ProviderAccepts, ConflictRetried, ProviderRefuses, AnswerLost,
     CompleteProviderOrder, CompleteProviderBatch, FailAfterAnswer, ReleaseProviderBatchClaim,
     GiveUpRelease, MarkProviderBatchUnknown, MarkTooLate, Crash
<1>2. ASSUME NEW r \in Reconcilers, ReconcilerStep(r) PROVE UNCHANGED <<mengantar, worker>>
  BY <1>2 DEF ReconcilerStep, LoadReconciliationTarget, ReadStoredOrders, ClassifyStoredOrders,
     FixtureAnswers, AbandonReconciliation, ApplyReconciliation
<1>3. ASSUME NEW s \in Shipments, LateRequestLands(s) \/ LateRequestDropped(s)
      PROVE  UNCHANGED reconciler
  BY <1>3 DEF LateRequestLands, LateRequestDropped
<1>4. ASSUME NEW b \in Batches, ClaimAges(b) \/ MarkStaleProviderBatch(b)
      PROVE  UNCHANGED reconciler
  BY <1>4 DEF ClaimAges, MarkStaleProviderBatch
<1>5. CASE UNCHANGED vars
  BY <1>5 DEF vars
<1> QED
  BY <1>1, <1>2, <1>3, <1>4, <1>5 DEF Next

\* What a reconciliation has read stays true until it is applied.
LEMMA LookupStep ==
    ASSUME TypeOK, WellFormed, FlightInv, OutcomeInv, [Next]_vars, NEW r \in Reconcilers
    PROVE  LookupSound(r)'
<1> USE BatchAssumption
<1>1. /\ \A b \in Batches : Over(b) => Over(b)'
      /\ \A s \in Shipments : created[s] > 0 => created'[s] > 0
      /\ \A s \in Shipments : Over(BatchOf[s]) /\ Unsent(s) => Unsent(s)'
  BY OverStays, MengantarStep
<1>2. /\ LookupSound(r) /\ listing[r] \subseteq Shipments
      /\ rpc[r] # "idle" => target[r] \in Shipments /\ BatchOf[target[r]] \in Batches
  BY DEF TypeOK, WellFormed, OutcomeInv
<1>3. ASSUME rpc'[r] = rpc[r], target'[r] = target[r], listing'[r] = listing[r],
             found'[r] = found[r], outcome'[r] = outcome[r]
      PROVE  LookupSound(r)'
  <2>1. (rpc[r] # "idle" => Over(BatchOf[target[r]]))'
    BY <1>1, <1>2, <1>3 DEF LookupSound, Over
  <2>2. (\A o \in listing[r] : created[o] > 0)' /\ (rpc[r] # "matched" => found[r] = None)'
    BY <1>1, <1>2, <1>3 DEF LookupSound
  <2>3. (rpc[r] = "matched" =>
           \/ outcome[r] = "FAILED" /\ found[r] = None /\ Unsent(target[r])
           \/ /\ outcome[r] \in Terminal
              /\ found[r] \in Shipments /\ created[found[r]] > 0
              /\ <<target[r], found[r]>> \in LookAlike)'
    BY <1>1, <1>2, <1>3 DEF LookupSound, Unsent
  <2> QED
    BY <2>1, <2>2, <2>3 DEF LookupSound
<1>4. CASE UNCHANGED reconciler
  BY <1>3, <1>4 DEF reconciler
<1>5. ASSUME NEW q \in Reconcilers \ {r}, ReconcilerStep(q) PROVE LookupSound(r)'
  <2>1. /\ rpc'[r] = rpc[r] /\ target'[r] = target[r] /\ listing'[r] = listing[r]
        /\ found'[r] = found[r] /\ outcome'[r] = outcome[r]
    BY <1>5 DEF TypeOK, ReconcilerStep, LoadReconciliationTarget, ReadStoredOrders,
       ClassifyStoredOrders, FixtureAnswers, AbandonReconciliation, ApplyReconciliation,
       EndReconciliation
  <2> QED
    BY <1>3, <2>1
<1>6. ASSUME NEW s \in Shipments, LoadReconciliationTarget(r, s) PROVE LookupSound(r)'
  BY <1>2, <1>6 DEF TypeOK, LoadReconciliationTarget, LookupSound, Unresolved, Over, rows, mengantar
<1>7. CASE ReadStoredOrders(r)
  BY <1>2, <1>7 DEF TypeOK, ReadStoredOrders, LookupSound, Over, rows, mengantar
<1>8. CASE ClassifyStoredOrders(r)
  <2>1. PICK o \in Shipments : /\ Candidates(r) = {o} /\ Recordable(target[r], stored[o])
                              /\ found' = [found EXCEPT ![r] = o]
                              /\ outcome' = [outcome EXCEPT ![r] = stored[o]]
    BY <1>8 DEF ClassifyStoredOrders
  <2>2. o \in listing[r] /\ <<target[r], o>> \in LookAlike
    BY <2>1 DEF Candidates
  <2>3. stored[o] \in Terminal
    BY <2>1 DEF Recordable, Terminal
  <2> QED
    BY <1>2, <1>8, <2>1, <2>2, <2>3
    DEF TypeOK, ClassifyStoredOrders, LookupSound, Over, rows, mengantar
<1>9. CASE FixtureAnswers(r)
  <2> DEFINE t == target[r]
  <2>1. /\ rpc[r] = "loaded" /\ rpc' = [rpc EXCEPT ![r] = "matched"]
        /\ UNCHANGED <<batch, created, late, target, listing>>
    BY <1>9 DEF FixtureAnswers, rows, mengantar
  <2>2. t \in Shipments /\ Over(BatchOf[t])' /\ \A o \in listing'[r] : created'[o] > 0
    BY <1>2, <2>1 DEF LookupSound, Over
  <2>3. rpc'[r] = "matched" /\ target'[r] = t
    BY <2>1 DEF TypeOK
  <2>4. \/ /\ outcome'[r] \in Terminal /\ found'[r] = t /\ created'[t] > 0
           /\ <<t, t>> \in LookAlike
        \/ outcome'[r] = "FAILED" /\ found'[r] = None /\ Unsent(t)'
    <3>1. CASE /\ Recordable(t, stored[t]) /\ found' = [found EXCEPT ![r] = t]
               /\ outcome' = [outcome EXCEPT ![r] = stored[t]]
      <4>1. stored[t] \in Terminal
        BY <3>1 DEF Recordable, Terminal
      <4>2. created[t] > 0
        BY <2>2, <4>1 DEF OutcomeInv, Terminal
      <4> QED
        BY <2>1, <2>2, <3>1, <4>1, <4>2, LookAlikeAssumption DEF TypeOK
    <3>2. CASE /\ created[t] = 0 /\ late[t] = 0 /\ UNCHANGED found
               /\ outcome' = [outcome EXCEPT ![r] = "FAILED"]
      BY <1>2, <2>1, <3>2 DEF TypeOK, LookupSound, Unsent
    <3> QED
      BY <1>9, <3>1, <3>2 DEF FixtureAnswers
  <2> QED
    BY <2>2, <2>3, <2>4 DEF LookupSound, Over, Unsent
<1>10. CASE AbandonReconciliation(r) \/ ApplyReconciliation(r)
  BY <1>10 DEF TypeOK, AbandonReconciliation, ApplyReconciliation, EndReconciliation, LookupSound
<1> QED
  BY <1>4, <1>5, <1>6, <1>7, <1>8, <1>9, <1>10, ReconcilersWritten DEF ReconcilerStep

\* An answer in hand is of an order that Mengantar has made.
LEMMA AnswerStep ==
    ASSUME TypeOK, WellFormed, FlightInv, OutcomeInv, [Next]_vars,
           NEW w \in Workers, pc'[w] = "answered"
    PROVE  created'[current'[w]] > 0
<1>1. \A s \in Shipments : created[s] > 0 => created'[s] > 0
  BY MengantarStep
<1>2. ASSUME pc[w] = "answered", current'[w] = current[w] PROVE created'[current'[w]] > 0
  BY <1>1, <1>2 DEF TypeOK, WellFormed, OutcomeInv
<1>3. ASSUME ~ProviderAccepts(w), WorkerStep(w) PROVE FALSE
  BY <1>3 DEF TypeOK, WorkerStep, PrepareProviderBatch, ResumeProviderBatch, RejectPayload,
     ClaimProviderBatch, ClaimTaken, AcquireAccountLock, RefreshProviderBatchClaim, ClaimLost,
     FailBeforeSend, SendOrder, ConflictRetried, ProviderRefuses, AnswerLost,
     CompleteProviderOrder, CompleteProviderBatch, FailAfterAnswer, ReleaseProviderBatchClaim,
     GiveUpRelease, MarkProviderBatchUnknown, MarkTooLate, Crash, Goto, Return
<1>4. CASE ProviderAccepts(w)
  <2>1. /\ created' = [created EXCEPT ![current[w]] = @ + 1] /\ current' = current
        /\ current[w] \in Shipments
    BY <1>4 DEF TypeOK, WellFormed, ProviderAccepts, CreateAtMengantar, Goto
  <2> QED
    BY <2>1 DEF TypeOK
<1>5. ASSUME NEW v \in Workers \ {w}, WorkerStep(v) PROVE pc'[w] = pc[w] /\ current'[w] = current[w]
  BY <1>5 DEF TypeOK, WorkerStep, PrepareProviderBatch, ResumeProviderBatch, RejectPayload,
     ClaimProviderBatch, ClaimTaken, AcquireAccountLock, RefreshProviderBatchClaim, ClaimLost,
     FailBeforeSend, SendOrder, ProviderAccepts, ConflictRetried, ProviderRefuses, AnswerLost,
     CompleteProviderOrder, CompleteProviderBatch, FailAfterAnswer, ReleaseProviderBatchClaim,
     GiveUpRelease, MarkProviderBatchUnknown, MarkTooLate, Crash, Goto, Return
<1>6. ASSUME \/ \E r \in Reconcilers : ReconcilerStep(r)
             \/ \E s \in Shipments : LateRequestLands(s) \/ LateRequestDropped(s)
             \/ \E b \in Batches : ClaimAges(b) \/ MarkStaleProviderBatch(b)
             \/ UNCHANGED vars
      PROVE  UNCHANGED worker
  BY <1>6 DEF ReconcilerStep, LoadReconciliationTarget, ReadStoredOrders, ClassifyStoredOrders,
     FixtureAnswers, AbandonReconciliation, ApplyReconciliation, LateRequestLands,
     LateRequestDropped, ClaimAges, MarkStaleProviderBatch, vars, worker
<1> QED
  BY <1>2, <1>3, <1>4, <1>5, <1>6 DEF Next, worker

\* A shipment has an order id exactly in the statuses that stand for an order, and a
\* failed one has nothing at Mengantar.
LEMMA OwnerStep ==
    ASSUME TypeOK, WellFormed, RowsInv, OutcomeInv, [Next]_vars, NEW s \in Shipments
    PROVE  /\ orderStatus'[s] \in Terminal <=> orderId'[s] # None
           /\ orderStatus'[s] = "FAILED" =>
                 orderStatus[s] = "FAILED" \/ (Over(BatchOf[s]) /\ Unsent(s))
<1> DEFINE Kept == /\ orderStatus'[s] \in Terminal <=> orderId'[s] # None
                   /\ orderStatus'[s] = "FAILED" =>
                         orderStatus[s] = "FAILED" \/ (Over(BatchOf[s]) /\ Unsent(s))
<1> USE BatchAssumption
<1>1. orderStatus[s] \in Terminal <=> orderId[s] # None
  BY DEF OutcomeInv
<1>2. ASSUME UNCHANGED <<orderStatus, orderId>> PROVE Kept
  BY <1>1, <1>2
<1>3. ASSUME NEW b \in Batches, LoseMembers(b), UNCHANGED orderId PROVE Kept
  BY <1>1, <1>3 DEF LoseMembers, Terminal
<1>4. ASSUME NEW w \in Workers, NEW b \in Batches, PrepareProviderBatch(w, b) PROVE Kept
  <2>1. BatchOf[s] = b => orderStatus[s] = "NONE"
    BY <1>4 DEF PrepareProviderBatch, RowsInv, RowSound, MemberStatuses
  <2> QED
    BY <1>1, <1>4, <2>1 DEF PrepareProviderBatch, Members, Terminal
<1>5. ASSUME NEW w \in Workers,
             ClaimProviderBatch(w) \/ CompleteProviderBatch(w) \/ ReleaseProviderBatchClaim(w)
      PROVE  Kept
  BY <1>2, <1>5 DEF ClaimProviderBatch, CompleteProviderBatch, ReleaseProviderBatchClaim
<1>6. ASSUME NEW w \in Workers, MarkProviderBatchUnknown(w) PROVE Kept
  BY <1>3, <1>6 DEF WellFormed, MarkProviderBatchUnknown
<1>7. ASSUME NEW b \in Batches, MarkStaleProviderBatch(b) PROVE Kept
  BY <1>2, <1>3, <1>7 DEF MarkStaleProviderBatch
<1>8. ASSUME NEW w \in Workers, CompleteProviderOrder(w) PROVE Kept
  <2> DEFINE c == current[w]
  <2>1. c \in Shipments /\ c # None
    BY <1>8, ConstantAssumption DEF TypeOK, WellFormed, CompleteProviderOrder
  <2>2. /\ stored[c] \in Terminal
        /\ orderStatus' = [orderStatus EXCEPT ![c] = stored[c]]
        /\ orderId' = [orderId EXCEPT ![c] = c]
    BY <1>8 DEF CompleteProviderOrder, Recordable, Terminal
  <2> QED
    BY <1>1, <2>1, <2>2 DEF TypeOK, Terminal
<1>9. ASSUME NEW r \in Reconcilers, ApplyReconciliation(r) PROVE Kept
  <2> DEFINE t == target[r]
  <2>1. /\ t \in Shipments /\ rpc[r] = "matched" /\ LookupSound(r)
        /\ orderStatus' = [orderStatus EXCEPT ![t] = outcome[r]]
        /\ orderId' = [orderId EXCEPT ![t] = found[r]]
    BY <1>9 DEF WellFormed, OutcomeInv, ApplyReconciliation
  <2>2. \/ outcome[r] = "FAILED" /\ found[r] = None /\ Unsent(t) /\ Over(BatchOf[t])
        \/ outcome[r] \in Terminal /\ found[r] # None
    BY <2>1, ConstantAssumption DEF LookupSound
  <2> QED
    BY <1>1, <2>1, <2>2 DEF TypeOK, Terminal
<1> QED
  BY <1>2, <1>4, <1>5, <1>6, <1>7, <1>8, <1>9, RowsWritten

\* What an answer, a listing or a reconciliation says of an order stays true in every step.
LEMMA OutcomeStep ==
    TypeOK /\ WellFormed /\ RowsInv /\ FlightInv /\ OutcomeInv /\ [Next]_vars => OutcomeInv'
<1> SUFFICES ASSUME TypeOK, WellFormed, RowsInv, FlightInv, OutcomeInv, [Next]_vars
             PROVE  OutcomeInv'
  OBVIOUS
<1>1. \A s \in Shipments : stored'[s] # "NONE" => created'[s] > 0
  BY MengantarStep DEF OutcomeInv
<1>2. ASSUME NEW s \in Shipments, orderStatus'[s] = "FAILED" PROVE Unsent(s)'
  <2>1. orderStatus[s] = "FAILED" => Over(BatchOf[s]) /\ Unsent(s)
    <3>1. batch[BatchOf[s]] \in {"NONE", "SUBMISSION_QUEUED", "SUBMITTING",
                                "SUBMISSION_UNKNOWN", "COMPLETED", "FAILED"}
      BY BatchAssumption DEF TypeOK
    <3>2. orderStatus[s] = "FAILED" => Over(BatchOf[s])
      BY <3>1 DEF RowsInv, RowSound, MemberStatuses, Over, Terminal
    <3> QED
      BY <3>2 DEF OutcomeInv, FailedHasNoOrder, Unsent
  <2> QED
    BY <1>2, <2>1, OwnerStep, MengantarStep
<1>3. \A r \in Reconcilers : LookupSound(r)'
  BY LookupStep
<1>4. \A w \in Workers : pc'[w] = "answered" => created'[current'[w]] > 0
  BY AnswerStep
<1>5. \A s \in Shipments : orderStatus'[s] \in Terminal <=> orderId'[s] # None
  BY OwnerStep
<1>6. FailedHasNoOrder'
  BY <1>2 DEF FailedHasNoOrder, Unsent
<1> QED
  BY <1>1, <1>3, <1>4, <1>5, <1>6 DEF OutcomeInv

-----------------------------------------------------------------------------
\* The invariants together: each is kept with the help of those before it.
AllInv == TypeOK /\ WellFormed /\ SubmissionInv /\ RowsInv /\ FlightInv /\ OutcomeInv

\* Nothing is confirmed in the beginning.
LEMMA InitSound == Init => AllInv
<1> SUFFICES ASSUME Init PROVE AllInv
  OBVIOUS
<1>1. TypeOK /\ WellFormed /\ SubmissionInv
  BY ConstantAssumption DEF Init, TypeOK, WellFormed, SubmissionInv, FlagsSound,
     PreparedInFull, QueuedIsWhole, ClaimSound, Claimant, Unsent, Working
<1>2. RowsInv
  BY BatchAssumption
  DEF Init, RowsInv, RowSound, MemberStatuses, Members, LedgerFollowsIssue, OrderOwnedOnce
<1>3. FlightInv /\ OutcomeInv
  BY DEF Init, FlightInv, FlightSound, OutcomeInv, LookupSound, FailedHasNoOrder, Terminal
<1> QED
  BY <1>1, <1>2, <1>3 DEF AllInv

\* Rows, claims, locks, answers and reconciliations stay sound together, for every
\* number of shipments, batches, accounts, requests and instances.
THEOREM SubmissionSound == Spec => []AllInv
<1>1. AllInv /\ [Next]_vars => AllInv'
  BY TypeStep, ShapeStep, SubmissionStep, RowsStep, FlightStep, OutcomeStep DEF AllInv
<1> QED
  BY <1>1, InitSound, PTL DEF Spec

\* The batch row, its members' rows and their shipments agree in every state, through
\* partial failures, sweeps and member-by-member reconciliation.
THEOREM BatchesReflectMembers == Spec => []BatchReflectsMembers
<1>1. TypeOK /\ RowsInv => BatchReflectsMembers
  <2> SUFFICES ASSUME TypeOK, RowsInv, NEW b \in Batches
               PROVE  LET statuses == {orderStatus[s] : s \in Members(b)} IN
                      /\ \A s \in Members(b) :
                            shipment[s] = IF batch[b] = "NONE" THEN "ESTIMATED" ELSE orderStatus[s]
                      /\ batch[b] = "SUBMISSION_QUEUED" => statuses = {"SUBMISSION_QUEUED"}
                      /\ batch[b] = "SUBMITTING" =>
                            statuses \subseteq Terminal \cup {"SUBMISSION_QUEUED"}
                      /\ batch[b] = "SUBMISSION_UNKNOWN" => "SUBMISSION_QUEUED" \notin statuses
                      /\ batch[b] = "COMPLETED" => statuses \subseteq Terminal
                      /\ batch[b] = "FAILED" => /\ "FAILED" \in statuses
                                                /\ statuses \subseteq Terminal \cup {"FAILED"}
    BY DEF BatchReflectsMembers
  <2>1. \A s \in Members(b) : orderStatus[s] \in MemberStatuses(batch[b]) /\ RowSound(s)
    BY DEF RowsInv, RowSound, Members
  <2>2. \E s \in Members(b) : TRUE
    BY BatchAssumption DEF Members
  <2>3. batch[b] \in {"NONE", "SUBMISSION_QUEUED", "SUBMITTING",
                      "SUBMISSION_UNKNOWN", "COMPLETED", "FAILED"}
    BY DEF TypeOK
  <2>4. ASSUME NEW s \in Members(b)
        PROVE  shipment[s] = IF batch[b] = "NONE" THEN "ESTIMATED" ELSE orderStatus[s]
    BY <2>1, <2>3 DEF RowSound, MemberStatuses, Terminal
  <2>5. batch[b] = "FAILED" => \E s \in Members(b) : orderStatus[s] = "FAILED"
    BY DEF RowsInv
  <2>6. batch[b] = "SUBMISSION_UNKNOWN" => \A s \in Members(b) : orderStatus[s] # "SUBMISSION_QUEUED"
    BY <2>1 DEF MemberStatuses, Terminal
  <2>7. /\ batch[b] = "SUBMISSION_QUEUED" => \A s \in Members(b) : orderStatus[s] = "SUBMISSION_QUEUED"
        /\ batch[b] = "SUBMITTING" =>
              \A s \in Members(b) : orderStatus[s] \in Terminal \cup {"SUBMISSION_QUEUED"}
        /\ batch[b] = "COMPLETED" => \A s \in Members(b) : orderStatus[s] \in Terminal
        /\ batch[b] = "FAILED" => \A s \in Members(b) : orderStatus[s] \in Terminal \cup {"FAILED"}
    BY <2>1 DEF MemberStatuses
  <2> QED
    BY <2>2, <2>4, <2>5, <2>6, <2>7
<1> QED
  BY <1>1, SubmissionSound, PTL DEF AllInv

\* The issuance entries are in the ledger exactly for the issued shipments, whichever
\* path issued them.
THEOREM LedgerIsOfIssued == Spec => []LedgerFollowsIssue
<1>1. AllInv => LedgerFollowsIssue
  BY DEF AllInv, RowsInv
<1> QED
  BY <1>1, SubmissionSound, PTL

\* One Mengantar order is given to one shipment, whatever submissions and
\* reconciliations race for it.
THEOREM NoSharedOrder == Spec => []OrderOwnedOnce
<1>1. AllInv => OrderOwnedOnce
  BY DEF AllInv, RowsInv
<1> QED
  BY <1>1, SubmissionSound, PTL

\* A shipment reconciled to FAILED has no order at Mengantar and never gets one from
\* an earlier request.
THEOREM FailedStaysWithoutOrder == Spec => []FailedHasNoOrder
<1>1. AllInv => FailedHasNoOrder
  BY DEF AllInv, OutcomeInv
<1> QED
  BY <1>1, SubmissionSound, PTL

\* A POST /order in flight is under the claim of its batch and alone on its account.
THEOREM FlightsUnderClaim == Spec => []InFlightUnderClaim
<1>1. AllInv => InFlightUnderClaim
  BY DEF AllInv, FlightInv, FlightSound, InFlightUnderClaim
<1> QED
  BY <1>1, SubmissionSound, PTL

-----------------------------------------------------------------------------
(* The refinement of ShipmentIssuance *)

\* A shipment has one order, or one request on its way, or neither.
LEMMA OneOrder ==
    ASSUME TypeOK, SubmissionInv, NEW s \in Shipments
    PROVE  /\ created[s] > 0 => created[s] = 1 /\ late[s] = 0
           /\ late[s] > 0 => created[s] = 0
<1>1. created[s] \in Nat /\ late[s] \in Nat
  BY DEF TypeOK
<1>2. created[s] + late[s] <= 1
  BY DEF SubmissionInv
<1> QED
  BY <1>1, <1>2

\* Mengantar makes its only order for s: the one step of the abstract Create.
LEMMA CreateRefines ==
    ASSUME AllInv, NEW s \in Shipments, created[s] = 0, ~Unsent(s) \/ ~Over(BatchOf[s]),
           batch[BatchOf[s]] \notin {"NONE", "SUBMISSION_QUEUED"},
           created' = [created EXCEPT ![s] = @ + 1],
           UNCHANGED <<shipment, orderId, posted>>
    PROVE  Promise!Next
<1>1. shipment[s] \notin {"ESTIMATED", "FAILED"}
  <2>1. batch[BatchOf[s]] \in {"SUBMITTING", "SUBMISSION_UNKNOWN", "COMPLETED", "FAILED"}
    <3>1. BatchOf[s] \in Batches /\ TypeOK
      BY BatchAssumption DEF AllInv
    <3>2. batch[BatchOf[s]] \in {"NONE", "SUBMISSION_QUEUED", "SUBMITTING",
                                "SUBMISSION_UNKNOWN", "COMPLETED", "FAILED"}
      BY <3>1 DEF TypeOK
    <3> QED
      BY <3>2
  <2>2. orderStatus[s] \in Terminal \cup {"SUBMISSION_QUEUED", "SUBMISSION_UNKNOWN", "FAILED"}
    BY <2>1 DEF AllInv, RowsInv, RowSound, MemberStatuses
  <2>3. orderStatus[s] = "FAILED" => Over(BatchOf[s]) /\ Unsent(s)
    BY <2>1 DEF AllInv, RowsInv, RowSound, MemberStatuses, Terminal, Over, OutcomeInv,
       FailedHasNoOrder, Unsent
  <2>4. shipment[s] = orderStatus[s]
    BY <2>2 DEF AllInv, RowsInv, RowSound, Terminal
  <2> QED
    BY <2>2, <2>3, <2>4 DEF Terminal
<1>2. Promise!Create(s)
  BY <1>1 DEF AllInv, TypeOK, Promise!Create
<1> QED
  BY <1>2 DEF Promise!Next

\* The members of a batch that are lost are those of an abstract LoseTrack, if any.
LEMMA LoseRefines ==
    ASSUME AllInv, NEW b \in Batches, LoseMembers(b), UNCHANGED <<created, orderId, posted>>
    PROVE  Promise!Next \/ UNCHANGED Promise!vars
<1> DEFINE lost == {s \in Members(b) : orderStatus[s] = "SUBMISSION_QUEUED"}
<1>1. \A s \in lost : shipment[s] = "SUBMISSION_QUEUED"
  BY DEF AllInv, RowsInv, RowSound, Members
<1>2. shipment' = [s \in Shipments |-> IF s \in lost THEN "SUBMISSION_UNKNOWN" ELSE shipment[s]]
  BY <1>1 DEF LoseMembers
<1>3. CASE lost = {}
  <2>1. shipment' = shipment
    BY <1>2, <1>3 DEF AllInv, TypeOK
  <2> QED
    BY <2>1 DEF Promise!vars
<1>4. CASE lost # {}
  <2>1. lost \in (SUBSET Shipments) \ {{}}
    BY <1>4 DEF Members
  <2>2. Promise!LoseTrack(lost)
    BY <1>1, <1>2 DEF Promise!LoseTrack
  <2> HIDE DEF lost
  <2> QED
    BY <2>1, <2>2 DEF Promise!Next
<1> QED
  BY <1>3, <1>4

\* An order given to a shipment is the abstract Give.
LEMMA GiveRefines ==
    ASSUME AllInv, NEW s \in Shipments, NEW o \in Shipments, NEW status \in Terminal,
           created[o] > 0, Unowned(o), orderId[s] = None, PostIssue(s, status),
           orderId' = [orderId EXCEPT ![s] = o],
           shipment' = [shipment EXCEPT ![s] = status], created' = created
    PROVE  Promise!Give(s, o, status) /\ status \in Promise!Issuable
<1>1. created[o] = 1
  BY OneOrder DEF AllInv
<1>2. \A t \in Shipments : orderId[t] # o
  BY ConstantAssumption DEF Unowned, Owned
<1> QED
  BY <1>1, <1>2 DEF Promise!Give, Promise!Issuable, PostIssue, Terminal

\* Every step of submission and reconciliation is a step of the issuance lifecycle, or
\* leaves it alone.
LEMMA RefinementStep == AllInv /\ [Next]_vars => [Promise!Next]_(Promise!vars)
<1> SUFFICES ASSUME AllInv, [Next]_vars PROVE Promise!Next \/ UNCHANGED Promise!vars
  OBVIOUS
<1>0. TypeOK /\ WellFormed /\ SubmissionInv /\ RowsInv /\ FlightInv /\ OutcomeInv
  BY DEF AllInv
<1>1. ASSUME UNCHANGED <<shipment, orderId, posted, created>> PROVE UNCHANGED Promise!vars
  BY <1>1 DEF Promise!vars
<1>2. ASSUME NEW w \in Workers, NEW b \in Batches, PrepareProviderBatch(w, b) PROVE Promise!Next
  <2>1. Members(b) \in (SUBSET Shipments) \ {{}}
    BY BatchAssumption DEF Members
  <2>2. Promise!Confirm(Members(b))
    BY <1>2 DEF PrepareProviderBatch, mengantar, Promise!Confirm
  <2> QED
    BY <2>1, <2>2 DEF Promise!Next
<1>3. ASSUME NEW w \in Workers, CompleteProviderOrder(w) PROVE Promise!Next
  <2> DEFINE s == current[w]
  <2>1. s \in Shipments /\ created[s] > 0
    BY <1>0, <1>3 DEF TypeOK, WellFormed, OutcomeInv, CompleteProviderOrder
  <2>2. /\ stored[s] \in Terminal /\ Unowned(s) /\ PostIssue(s, stored[s])
        /\ orderId' = [orderId EXCEPT ![s] = s]
        /\ shipment' = [shipment EXCEPT ![s] = stored[s]] /\ created' = created
        /\ shipment[s] = "SUBMISSION_QUEUED" /\ orderStatus[s] = "SUBMISSION_QUEUED"
    BY <1>3 DEF CompleteProviderOrder, Recordable, Terminal, mengantar
  <2>3. orderId[s] = None
    BY <1>0, <2>1, <2>2 DEF OutcomeInv, Terminal
  <2>4. Promise!Give(s, s, stored[s]) /\ stored[s] \in Promise!Issuable
    BY <2>1, <2>2, <2>3, GiveRefines
  <2>5. Promise!Record(s, stored[s])
    BY <2>2, <2>4 DEF Promise!Record
  <2> QED
    BY <2>1, <2>4, <2>5 DEF Promise!Next
<1>4. ASSUME NEW w \in Workers, MarkProviderBatchUnknown(w)
      PROVE  Promise!Next \/ UNCHANGED Promise!vars
  BY <1>0, <1>4, LoseRefines DEF WellFormed, MarkProviderBatchUnknown, mengantar
<1>5. ASSUME NEW b \in Batches, MarkStaleProviderBatch(b)
      PROVE  Promise!Next \/ UNCHANGED Promise!vars
  BY <1>1, <1>5, LoseRefines DEF MarkStaleProviderBatch, mengantar
<1>6. ASSUME NEW r \in Reconcilers, ApplyReconciliation(r) PROVE Promise!Next
  <2> DEFINE t == target[r]
  <2>1. /\ t \in Shipments /\ LookupSound(r) /\ rpc[r] = "matched"
        /\ shipment[t] = "SUBMISSION_UNKNOWN" /\ orderId[t] = None /\ Unowned(found[r])
        /\ shipment' = [shipment EXCEPT ![t] = outcome[r]]
        /\ orderId' = [orderId EXCEPT ![t] = found[r]]
        /\ PostIssue(t, outcome[r]) /\ created' = created
    BY <1>0, <1>6 DEF WellFormed, OutcomeInv, ApplyReconciliation, Unresolved, mengantar
  <2>2. CASE outcome[r] = "FAILED" /\ found[r] = None /\ Unsent(t)
    <3>1. orderId' = orderId /\ posted' = posted
      BY <1>0, <2>1, <2>2 DEF TypeOK, PostIssue
    <3>2. Promise!Fail(t)
      BY <2>1, <2>2, <3>1 DEF Promise!Fail, Unsent
    <3> QED
      BY <2>1, <3>2 DEF Promise!Next
  <2>3. CASE /\ outcome[r] \in Terminal /\ found[r] \in Shipments /\ created[found[r]] > 0
             /\ <<t, found[r]>> \in LookAlike
    <3>1. Promise!Give(t, found[r], outcome[r]) /\ outcome[r] \in Promise!Issuable
      BY <2>1, <2>3, GiveRefines
    <3>2. Promise!Find(t, found[r], outcome[r])
      BY <2>1, <2>3, <3>1 DEF Promise!Find
    <3> QED
      BY <2>1, <2>3, <3>1, <3>2 DEF Promise!Next
  <2> QED
    BY <2>1, <2>2, <2>3 DEF LookupSound
<1>7. ASSUME NEW w \in Workers, ProviderAccepts(w) PROVE Promise!Next
  <2> DEFINE s == current[w]
  <2>1. /\ pc[w] = "posting" /\ s \in Shipments
        /\ created' = [created EXCEPT ![s] = @ + 1] /\ late' = late
        /\ UNCHANGED <<shipment, orderId, posted>>
    BY <1>0, <1>7 DEF TypeOK, WellFormed, ProviderAccepts, CreateAtMengantar, rows
  <2>2. /\ BatchOf[s] = held[w] /\ batch[held[w]] = "SUBMITTING"
        /\ created'[s] + late'[s] <= 1
    BY <1>0, <2>1, PostedOnce DEF FlightInv, FlightSound
  <2>3. created[s] = 0
    <3>1. created[s] \in Nat /\ late[s] \in Nat
      BY <1>0, <2>1 DEF TypeOK
    <3>2. created'[s] = created[s] + 1 /\ late'[s] = late[s]
      BY <1>0, <2>1 DEF TypeOK
    <3> QED
      BY <2>2, <3>1, <3>2
  <2>4. ~Over(BatchOf[s])
    BY <2>2 DEF Over
  <2> QED
    BY <2>1, <2>2, <2>3, <2>4, CreateRefines
<1>8. ASSUME NEW s \in Shipments, LateRequestLands(s) PROVE Promise!Next
  <2>1. /\ late[s] > 0 /\ created' = [created EXCEPT ![s] = @ + 1]
        /\ UNCHANGED <<shipment, orderId, posted>>
    BY <1>8 DEF LateRequestLands, CreateAtMengantar, rows
  <2>2. created[s] = 0 /\ ~Unsent(s) /\ batch[BatchOf[s]] \notin {"NONE", "SUBMISSION_QUEUED"}
    BY <1>0, <2>1, OneOrder DEF SubmissionInv, QueuedIsWhole, Unsent
  <2> QED
    BY <2>1, <2>2, CreateRefines
<1>9. ASSUME NEW w \in Workers,
             \/ ClaimProviderBatch(w) \/ CompleteProviderBatch(w) \/ ReleaseProviderBatchClaim(w)
             \/ AnswerLost(w) \/ Crash(w)
      PROVE  UNCHANGED Promise!vars
  BY <1>1, <1>9 DEF ClaimProviderBatch, CompleteProviderBatch, ReleaseProviderBatchClaim,
     AnswerLost, Crash, mengantar, rows
<1>10. ASSUME NEW s \in Shipments, LateRequestDropped(s) PROVE UNCHANGED Promise!vars
  BY <1>1, <1>10 DEF LateRequestDropped, rows
<1>11. CASE UNCHANGED <<shipment, orderStatus, orderId, batch, posted>> /\ UNCHANGED mengantar
  BY <1>1, <1>11 DEF mengantar
<1>12. CASE /\ ~UNCHANGED <<shipment, orderStatus, orderId, batch, posted>>
  BY <1>2, <1>3, <1>4, <1>5, <1>6, <1>9, <1>12, RowsWritten
<1>13. CASE ~UNCHANGED mengantar
  BY <1>7, <1>8, <1>9, <1>10, <1>13, MengantarWritten
<1> QED
  BY <1>11, <1>12, <1>13

\* Submission and reconciliation, with all their claims, locks, crashes and lost
\* answers, implement the issuance lifecycle of DATA-2.
THEOREM IssuanceImplemented == Spec => ImplementsIssuance
<1>1. Init => Promise!Init
  BY DEF Init, Promise!Init
<1>2. Spec => Promise!Spec
  BY <1>1, RefinementStep, SubmissionSound, PTL DEF Spec, Promise!Spec
<1> QED
  BY <1>2 DEF ImplementsIssuance

-----------------------------------------------------------------------------
(* What an accepted shipment is when the rest of its life begins *)

\* No order is forgotten: while Mengantar has an order for a shipment, or a request for
\* one is still on its way, the shipment is accepted, or a reconciliation can take it up,
\* or its batch is SUBMITTING, which its request or the sweep ends.
NothingForgotten ==
    \A s \in Shipments : created[s] + late[s] > 0 =>
        \/ batch[BatchOf[s]] = "SUBMITTING"
        \/ orderStatus[s] \in Terminal
        \/ Unresolved(s)

\* It holds whatever is lost, retried, swept or crashes: an order is on its way only out
\* of a claimed batch, and no claim ends in a status that drops a member with an order.
THEOREM NoOrderForgotten == Spec => []NothingForgotten
<1>1. AllInv => NothingForgotten
  <2> SUFFICES ASSUME AllInv, NEW s \in Shipments, created[s] + late[s] > 0,
                      batch[BatchOf[s]] # "SUBMITTING"
               PROVE  orderStatus[s] \in Terminal \/ Unresolved(s)
    BY DEF NothingForgotten
  <2>1. ~Unsent(s)
    BY DEF Unsent
  <2>2. batch[BatchOf[s]] \in {"SUBMISSION_UNKNOWN", "COMPLETED", "FAILED"}
    <3>1. batch[BatchOf[s]] \in {"NONE", "SUBMISSION_QUEUED", "SUBMITTING",
                                "SUBMISSION_UNKNOWN", "COMPLETED", "FAILED"}
      BY BatchAssumption DEF AllInv, TypeOK
    <3> QED
      BY <2>1, <3>1 DEF AllInv, SubmissionInv, QueuedIsWhole
  <2>3. orderStatus[s] \in Terminal \cup {"SUBMISSION_UNKNOWN", "FAILED"}
    BY <2>2 DEF AllInv, RowsInv, RowSound, MemberStatuses
  <2>4. orderStatus[s] # "FAILED"
    BY <2>1 DEF AllInv, OutcomeInv, FailedHasNoOrder, Unsent
  <2>5. CASE orderStatus[s] = "SUBMISSION_UNKNOWN"
    <3>1. batch[BatchOf[s]] = "SUBMISSION_UNKNOWN"
      BY <2>2, <2>5 DEF AllInv, RowsInv, RowSound, MemberStatuses, Terminal
    <3>2. shipment[s] = "SUBMISSION_UNKNOWN" /\ orderId[s] = None
      BY <2>5 DEF AllInv, RowsInv, RowSound, OutcomeInv, Terminal
    <3> QED
      BY <2>5, <3>1, <3>2 DEF Unresolved
  <2> QED
    BY <2>3, <2>4, <2>5
<1> QED
  BY <1>1, SubmissionSound, PTL

\* An accepted shipment has an order that Mengantar made, its own or one that cannot be
\* told from it, and its status is what Mengantar stores for that order.
AcceptedSound(s) == orderStatus[s] \in Terminal =>
    /\ orderId[s] \in Shipments /\ <<s, orderId[s]>> \in LookAlike
    /\ created[orderId[s]] > 0
    /\ stored[orderId[s]] = orderStatus[s]
    /\ Recordable(s, orderStatus[s])

\* An order that was matched is still stored as it was read.
MatchSound(r) == rpc[r] = "matched" /\ found[r] # None =>
    outcome[r] = stored[found[r]] /\ Recordable(target[r], outcome[r])

AcceptedInv ==
    /\ \A s \in Shipments : AcceptedSound(s)
    /\ \A r \in Reconcilers : MatchSound(r)

\* What Mengantar stores for an order it has made never changes: no second request of
\* that shipment ever lands.
LEMMA StoredStays ==
    ASSUME AllInv, [Next]_vars, NEW o \in Shipments, created[o] > 0
    PROVE  stored'[o] = stored[o] /\ created'[o] > 0
<1>0. TypeOK /\ WellFormed /\ SubmissionInv /\ FlightInv
  BY DEF AllInv
<1>1. created[o] = 1 /\ late[o] = 0
  BY <1>0, OneOrder
<1>2. ASSUME NEW c \in Shipments, c # o,
             \E kind \in Kinds : stored' = [stored EXCEPT ![c] = kind]
      PROVE  stored'[o] = stored[o]
  BY <1>0, <1>2 DEF TypeOK
<1>3. ASSUME NEW w \in Workers, ProviderAccepts(w) PROVE stored'[o] = stored[o]
  <2>1. /\ pc[w] = "posting" /\ current[w] \in Shipments
        /\ created' = [created EXCEPT ![current[w]] = @ + 1] /\ late' = late
        /\ \E kind \in Kinds : stored' = [stored EXCEPT ![current[w]] = kind]
    BY <1>0, <1>3 DEF TypeOK, WellFormed, ProviderAccepts, CreateAtMengantar
  <2>2. created'[o] + late'[o] <= 1
    BY <1>0, <2>1, PostedOnce
  <2>3. current[w] # o
    BY <1>0, <1>1, <2>1, <2>2 DEF TypeOK
  <2> QED
    BY <1>2, <2>1, <2>3
<1>4. ASSUME NEW c \in Shipments, LateRequestLands(c) PROVE stored'[o] = stored[o]
  <2>1. late[c] > 0 /\ \E kind \in Kinds : stored' = [stored EXCEPT ![c] = kind]
    BY <1>4 DEF LateRequestLands, CreateAtMengantar
  <2> QED
    BY <1>1, <1>2, <2>1
<1>5. ASSUME NEW w \in Workers, AnswerLost(w) \/ Crash(w) PROVE stored'[o] = stored[o]
  BY <1>5 DEF AnswerLost, Crash
<1>6. ASSUME NEW c \in Shipments, LateRequestDropped(c) PROVE stored'[o] = stored[o]
  BY <1>6 DEF LateRequestDropped
<1>7. CASE UNCHANGED mengantar
  BY <1>7 DEF mengantar
<1>8. created'[o] > 0
  BY <1>0, MengantarStep
<1> QED
  BY <1>3, <1>4, <1>5, <1>6, <1>7, <1>8, MengantarWritten

\* A shipment is accepted by its own answer or by a reconciliation, with the order and
\* the status that one had in hand; no other step makes a shipment accepted, and none
\* takes it back.
LEMMA AcceptedBy ==
    ASSUME AllInv, [Next]_vars, NEW s \in Shipments
    PROVE  \/ orderStatus'[s] = orderStatus[s] /\ orderId'[s] = orderId[s]
           \/ orderStatus[s] \notin Terminal /\ orderStatus'[s] \notin Terminal
           \/ /\ orderStatus[s] \notin Terminal /\ created[s] > 0
              /\ orderId'[s] = s /\ orderStatus'[s] = stored[s] /\ Recordable(s, stored[s])
           \/ \E r \in Reconcilers :
                 /\ orderStatus[s] \notin Terminal
                 /\ rpc[r] = "matched" /\ target[r] = s
                 /\ orderId'[s] = found[r] /\ orderStatus'[s] = outcome[r]
<1> DEFINE Kept == orderStatus'[s] = orderStatus[s] /\ orderId'[s] = orderId[s]
           Open == orderStatus[s] \notin Terminal /\ orderStatus'[s] \notin Terminal
<1>0. TypeOK /\ WellFormed /\ SubmissionInv /\ RowsInv /\ OutcomeInv
  BY DEF AllInv
<1>1. ASSUME UNCHANGED <<orderStatus, orderId>> PROVE Kept
  BY <1>1
<1>2. ASSUME NEW b \in Batches, LoseMembers(b), UNCHANGED orderId PROVE Kept \/ Open
  BY <1>2 DEF LoseMembers, Terminal
<1>3. ASSUME NEW w \in Workers, NEW b \in Batches, PrepareProviderBatch(w, b) PROVE Kept \/ Open
  <2>1. BatchOf[s] = b => orderStatus[s] = "NONE"
    BY <1>0, <1>3 DEF PrepareProviderBatch, RowsInv, RowSound, MemberStatuses
  <2> QED
    BY <1>3, <2>1 DEF PrepareProviderBatch, Members, Terminal
<1>4. ASSUME NEW w \in Workers,
             ClaimProviderBatch(w) \/ CompleteProviderBatch(w) \/ ReleaseProviderBatchClaim(w)
      PROVE  Kept
  BY <1>1, <1>4 DEF ClaimProviderBatch, CompleteProviderBatch, ReleaseProviderBatchClaim
<1>5. ASSUME NEW w \in Workers, MarkProviderBatchUnknown(w) PROVE Kept \/ Open
  BY <1>0, <1>2, <1>5 DEF WellFormed, MarkProviderBatchUnknown
<1>6. ASSUME NEW b \in Batches, MarkStaleProviderBatch(b) PROVE Kept \/ Open
  BY <1>1, <1>2, <1>6 DEF MarkStaleProviderBatch
<1>7. ASSUME NEW w \in Workers, CompleteProviderOrder(w)
      PROVE  \/ Kept
             \/ /\ orderStatus[s] \notin Terminal /\ created[s] > 0
                /\ orderId'[s] = s /\ orderStatus'[s] = stored[s] /\ Recordable(s, stored[s])
  <2> DEFINE c == current[w]
  <2>1. c \in Shipments /\ created[c] > 0
    BY <1>0, <1>7 DEF TypeOK, WellFormed, OutcomeInv, CompleteProviderOrder
  <2>2. /\ orderStatus[c] = "SUBMISSION_QUEUED" /\ Recordable(c, stored[c])
        /\ orderStatus' = [orderStatus EXCEPT ![c] = stored[c]]
        /\ orderId' = [orderId EXCEPT ![c] = c]
    BY <1>7 DEF CompleteProviderOrder
  <2>3. CASE c = s
    BY <1>0, <2>1, <2>2, <2>3 DEF TypeOK, Terminal
  <2>4. CASE c # s
    BY <1>0, <2>2, <2>4 DEF TypeOK
  <2> QED
    BY <2>3, <2>4
<1>8. ASSUME NEW r \in Reconcilers, ApplyReconciliation(r)
      PROVE  \/ Kept
             \/ /\ orderStatus[s] \notin Terminal
                /\ rpc[r] = "matched" /\ target[r] = s
                /\ orderId'[s] = found[r] /\ orderStatus'[s] = outcome[r]
  <2> DEFINE t == target[r]
  <2>1. /\ t \in Shipments /\ rpc[r] = "matched" /\ orderStatus[t] = "SUBMISSION_UNKNOWN"
        /\ orderStatus' = [orderStatus EXCEPT ![t] = outcome[r]]
        /\ orderId' = [orderId EXCEPT ![t] = found[r]]
    BY <1>0, <1>8 DEF WellFormed, ApplyReconciliation, Unresolved
  <2>2. CASE t = s
    BY <1>0, <2>1, <2>2 DEF TypeOK, Terminal
  <2>3. CASE t # s
    BY <1>0, <2>1, <2>3 DEF TypeOK
  <2> QED
    BY <2>2, <2>3
<1>9. CASE UNCHANGED <<shipment, orderStatus, orderId, batch, posted>>
  BY <1>1, <1>9
<1> QED
  BY <1>3, <1>4, <1>5, <1>6, <1>7, <1>8, <1>9, RowsWritten

\* A match is made of an order as it is stored; what is stored does not change under it.
LEMMA MatchStep ==
    ASSUME AllInv, AcceptedInv, [Next]_vars, NEW r \in Reconcilers
    PROVE  MatchSound(r)'
<1>0. TypeOK /\ WellFormed /\ OutcomeInv /\ LookupSound(r) /\ MatchSound(r)
  BY DEF AllInv, OutcomeInv, AcceptedInv
<1>1. ASSUME rpc'[r] = rpc[r], target'[r] = target[r], found'[r] = found[r],
             outcome'[r] = outcome[r]
      PROVE  MatchSound(r)'
  <2> SUFFICES ASSUME rpc[r] = "matched", found[r] # None
               PROVE  outcome[r] = stored'[found[r]] /\ Recordable(target[r], outcome[r])
    BY <1>1 DEF MatchSound, Recordable
  <2>1. found[r] \in Shipments /\ created[found[r]] > 0
    BY <1>0 DEF LookupSound
  <2> QED
    BY <1>0, <2>1, StoredStays DEF MatchSound
<1>2. CASE UNCHANGED reconciler
  BY <1>1, <1>2 DEF reconciler
<1>3. ASSUME NEW q \in Reconcilers \ {r}, ReconcilerStep(q) PROVE MatchSound(r)'
  <2>1. /\ rpc'[r] = rpc[r] /\ target'[r] = target[r]
        /\ found'[r] = found[r] /\ outcome'[r] = outcome[r]
    BY <1>0, <1>3 DEF TypeOK, ReconcilerStep, LoadReconciliationTarget, ReadStoredOrders,
       ClassifyStoredOrders, FixtureAnswers, AbandonReconciliation, ApplyReconciliation,
       EndReconciliation
  <2> QED
    BY <1>1, <2>1
<1>4. ASSUME \/ \E s \in Shipments : LoadReconciliationTarget(r, s)
             \/ ReadStoredOrders(r) \/ AbandonReconciliation(r) \/ ApplyReconciliation(r)
      PROVE  MatchSound(r)'
  BY <1>0, <1>4 DEF TypeOK, LoadReconciliationTarget, ReadStoredOrders, AbandonReconciliation,
     ApplyReconciliation, EndReconciliation, MatchSound
<1>5. ASSUME NEW o \in Shipments, Recordable(target[r], stored[o]), UNCHANGED <<stored, target>>,
             rpc' = [rpc EXCEPT ![r] = "matched"],
             found' = [found EXCEPT ![r] = o], outcome' = [outcome EXCEPT ![r] = stored[o]]
      PROVE  MatchSound(r)'
  BY <1>0, <1>5 DEF TypeOK, MatchSound, Recordable
<1>6. CASE ClassifyStoredOrders(r)
  BY <1>5, <1>6 DEF ClassifyStoredOrders, mengantar
<1>7. CASE FixtureAnswers(r)
  <2>1. /\ target[r] \in Shipments /\ rpc[r] = "loaded" /\ UNCHANGED <<stored, target>>
        /\ rpc' = [rpc EXCEPT ![r] = "matched"]
    BY <1>0, <1>7 DEF WellFormed, FixtureAnswers, mengantar
  <2>2. CASE UNCHANGED found
    BY <1>0, <2>1, <2>2 DEF LookupSound, MatchSound
  <2>3. CASE ~UNCHANGED found
    BY <1>5, <1>7, <2>1, <2>3 DEF FixtureAnswers
  <2> QED
    BY <2>2, <2>3
<1> QED
  BY <1>2, <1>3, <1>4, <1>6, <1>7, ReconcilersWritten DEF ReconcilerStep

\* Each step keeps what is said of the accepted shipments.
LEMMA AcceptedStep == AllInv /\ AcceptedInv /\ [Next]_vars => AcceptedInv'
<1> SUFFICES ASSUME AllInv, AcceptedInv, [Next]_vars PROVE AcceptedInv'
  OBVIOUS
<1>1. ASSUME NEW s \in Shipments PROVE AcceptedSound(s)'
  <2> DEFINE o == orderId'[s]
  <2> SUFFICES ASSUME orderStatus'[s] \in Terminal
               PROVE  /\ o \in Shipments /\ <<s, o>> \in LookAlike
                      /\ created'[o] > 0 /\ stored'[o] = orderStatus'[s]
                      /\ Recordable(s, orderStatus'[s])
    BY DEF AcceptedSound, Recordable
  <2>1. /\ o \in Shipments /\ <<s, o>> \in LookAlike
        /\ created[o] > 0 /\ stored[o] = orderStatus'[s]
        /\ Recordable(s, orderStatus'[s])
    <3>1. CASE orderStatus'[s] = orderStatus[s] /\ orderId'[s] = orderId[s]
      BY <3>1 DEF AcceptedInv, AcceptedSound
    <3>2. CASE /\ created[s] > 0
               /\ orderId'[s] = s /\ orderStatus'[s] = stored[s] /\ Recordable(s, stored[s])
      BY <3>2, LookAlikeAssumption
    <3>3. ASSUME NEW r \in Reconcilers, rpc[r] = "matched", target[r] = s,
                 orderId'[s] = found[r], orderStatus'[s] = outcome[r]
          PROVE  /\ o \in Shipments /\ <<s, o>> \in LookAlike
                 /\ created[o] > 0 /\ stored[o] = orderStatus'[s]
                 /\ Recordable(s, orderStatus'[s])
      <4>1. /\ found[r] \in Shipments /\ created[found[r]] > 0
            /\ <<s, found[r]>> \in LookAlike
        BY <3>3 DEF AllInv, OutcomeInv, LookupSound, Terminal
      <4>2. outcome[r] = stored[found[r]] /\ Recordable(s, outcome[r])
        BY <3>3, <4>1, ConstantAssumption DEF AcceptedInv, MatchSound
      <4> QED
        BY <3>3, <4>1, <4>2
    <3> QED
      BY <3>1, <3>2, <3>3, AcceptedBy
  <2> HIDE DEF o
  <2> QED
    BY <2>1, StoredStays
<1>2. \A r \in Reconcilers : MatchSound(r)'
  BY MatchStep
<1> QED
  BY <1>1, <1>2 DEF AcceptedInv

\* In every reachable state an accepted shipment stands for an order as Mengantar stores it.
THEOREM AcceptedIsStored == Spec => [](AllInv /\ AcceptedInv)
<1>1. Init => AcceptedInv
  BY DEF Init, AcceptedInv, AcceptedSound, MatchSound, Terminal
<1>2. AllInv /\ [Next]_vars => AllInv'
  BY TypeStep, ShapeStep, SubmissionStep, RowsStep, FlightStep, OutcomeStep DEF AllInv
<1> QED
  BY <1>1, <1>2, InitSound, AcceptedStep, PTL DEF Spec

\* What PaymentAndTracking starts from: an accepted shipment has a Mengantar order that no
\* other shipment has, made once and with no request for it on its way any more; its status
\* is the one stored for that order, its issuance is booked exactly if it is ISSUED, and it
\* waits for a payment only if it is not COD (Init and OrderAssumption there).
HandedOver ==
    \A s \in Shipments : shipment[s] \in Terminal =>
        /\ orderId[s] \in Shipments
        /\ created[orderId[s]] = 1 /\ late[orderId[s]] = 0
        /\ \A t \in Shipments \ {s} : orderId[t] # orderId[s]
        /\ shipment[s] = stored[orderId[s]]
        /\ s \in posted <=> shipment[s] = "ISSUED"
        /\ shipment[s] = "AWAITING_UPSTREAM_PAYMENT" => s \notin Cod

\* Submission and reconciliation hand every accepted shipment over in that state.
THEOREM AcceptedIsHandedOver == Spec => []HandedOver
<1>1. AllInv /\ AcceptedInv => HandedOver
  <2> SUFFICES ASSUME AllInv, AcceptedInv, NEW s \in Shipments, shipment[s] \in Terminal
               PROVE  /\ orderId[s] \in Shipments
                      /\ created[orderId[s]] = 1 /\ late[orderId[s]] = 0
                      /\ \A t \in Shipments \ {s} : orderId[t] # orderId[s]
                      /\ shipment[s] = stored[orderId[s]]
                      /\ s \in posted <=> shipment[s] = "ISSUED"
                      /\ shipment[s] = "AWAITING_UPSTREAM_PAYMENT" => s \notin Cod
    BY DEF HandedOver
  <2>1. orderStatus[s] = shipment[s]
    BY DEF AllInv, RowsInv, RowSound, Terminal
  <2>2. /\ orderId[s] \in Shipments /\ created[orderId[s]] > 0
        /\ stored[orderId[s]] = shipment[s] /\ Recordable(s, shipment[s])
    BY <2>1 DEF AcceptedInv, AcceptedSound
  <2>3. created[orderId[s]] = 1 /\ late[orderId[s]] = 0
    BY <2>2, OneOrder DEF AllInv
  <2>4. \A t \in Shipments \ {s} : orderId[t] # orderId[s]
    BY <2>2, ConstantAssumption DEF AllInv, RowsInv, OrderOwnedOnce
  <2>5. s \in posted <=> shipment[s] = "ISSUED"
    BY <2>1 DEF AllInv, RowsInv, LedgerFollowsIssue
  <2>6. shipment[s] = "AWAITING_UPSTREAM_PAYMENT" => s \notin Cod
    BY <2>2 DEF Recordable
  <2> QED
    BY <2>2, <2>3, <2>4, <2>5, <2>6
<1> QED
  BY <1>1, AcceptedIsStored, PTL

\* An accepted shipment keeps its status and its order: no sweep, late answer, second
\* confirmation or reconciliation takes an acceptance back, moves it to another order, or
\* takes its issuance out of the ledger.
AcceptedStands ==
    [][\A s \in Shipments : shipment[s] \in Terminal =>
          /\ shipment'[s] = shipment[s] /\ orderId'[s] = orderId[s]
          /\ s \in posted => s \in posted']_vars

\* This is so in every step of every behaviour.
THEOREM AcceptanceIsFinal == Spec => AcceptedStands
<1> DEFINE Stands == \A s \in Shipments : shipment[s] \in Terminal =>
                         /\ shipment'[s] = shipment[s] /\ orderId'[s] = orderId[s]
                         /\ s \in posted => s \in posted'
<1>1. ASSUME AllInv, AllInv', [Next]_vars PROVE Stands
  <2> SUFFICES ASSUME NEW s \in Shipments, shipment[s] \in Terminal
               PROVE  /\ shipment'[s] = shipment[s] /\ orderId'[s] = orderId[s]
                      /\ s \in posted => s \in posted'
    OBVIOUS
  <2>1. orderStatus[s] = shipment[s]
    BY <1>1 DEF AllInv, RowsInv, RowSound, Terminal
  <2>2. orderStatus'[s] = orderStatus[s] /\ orderId'[s] = orderId[s]
    BY <1>1, <2>1, AcceptedBy
  <2>3. shipment'[s] = orderStatus'[s]
    BY <1>1, <2>1, <2>2 DEF AllInv, RowsInv, RowSound, Terminal
  <2>4. s \in posted => s \in posted'
    BY <1>1, <2>2 DEF AllInv, RowsInv, LedgerFollowsIssue
  <2> QED
    BY <2>1, <2>2, <2>3, <2>4
<1>2. AllInv /\ AllInv' /\ [Next]_vars => [Stands]_vars
  BY <1>1
<1> QED
  BY <1>2, SubmissionSound, PTL DEF Spec, AcceptedStands
=============================================================================
