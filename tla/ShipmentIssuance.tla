-------------------------- MODULE ShipmentIssuance --------------------------
(***************************************************************************)
(* What submission and reconciliation promise about a shipment (DATA-2, up *)
(* to issuance): the statuses it passes, the one order Mengantar makes for *)
(* it, which order it is given, and when its issuance is booked.  Requests, *)
(* batches, claims, locks and lost answers do not appear here.             *)
(***************************************************************************)
EXTENDS Naturals

CONSTANTS
    Shipments,
    LookAlike,  \* <<s, o>>: the order stored for o equals what was sent for s
    None

VARIABLES
    status,     \* status of each shipment
    orders,     \* orders Mengantar made for each shipment
    owner,      \* the Mengantar order each shipment is given, or None
    booked      \* shipments whose issuance is in the ledger

vars == <<status, orders, owner, booked>>

Issuable == {"ISSUED", "AWAITING_UPSTREAM_PAYMENT"}

Init ==
    /\ status = [s \in Shipments |-> "ESTIMATED"]
    /\ orders = [s \in Shipments |-> 0]
    /\ owner = [s \in Shipments |-> None]
    /\ booked = {}

\* The shipments of a confirmed batch are accepted together.
Confirm(S) ==
    /\ \A s \in S : status[s] = "ESTIMATED"
    /\ status' = [s \in Shipments |->
                    IF s \in S THEN "SUBMISSION_QUEUED" ELSE status[s]]
    /\ UNCHANGED <<orders, owner, booked>>

\* Mengantar makes its only order for s.
Create(s) ==
    /\ status[s] \notin {"ESTIMATED", "FAILED"}
    /\ orders[s] = 0
    /\ orders' = [orders EXCEPT ![s] = 1]
    /\ UNCHANGED <<status, owner, booked>>

\* s is given an order nobody has, and is booked in the same step if issued.
Give(s, o, outcome) ==
    /\ orders[o] = 1
    /\ \A t \in Shipments : owner[t] # o
    /\ owner[s] = None
    /\ owner' = [owner EXCEPT ![s] = o]
    /\ status' = [status EXCEPT ![s] = outcome]
    /\ booked' = IF outcome = "ISSUED" THEN booked \cup {s} ELSE booked
    /\ UNCHANGED orders

\* The answer of Mengantar is recorded: a shipment's own order.
Record(s, outcome) == status[s] = "SUBMISSION_QUEUED" /\ Give(s, s, outcome)

\* The outcome of queued shipments is not known.
LoseTrack(S) ==
    /\ \A s \in S : status[s] = "SUBMISSION_QUEUED"
    /\ status' = [s \in Shipments |->
                    IF s \in S THEN "SUBMISSION_UNKNOWN" ELSE status[s]]
    /\ UNCHANGED <<orders, owner, booked>>

\* Reconciliation finds the order, or one that cannot be told from it.
Find(s, o, outcome) ==
    /\ status[s] = "SUBMISSION_UNKNOWN"
    /\ <<s, o>> \in LookAlike
    /\ Give(s, o, outcome)

\* Reconciliation proves that nothing was created.
Fail(s) ==
    /\ status[s] = "SUBMISSION_UNKNOWN"
    /\ orders[s] = 0
    /\ status' = [status EXCEPT ![s] = "FAILED"]
    /\ UNCHANGED <<orders, owner, booked>>

Next ==
    \/ \E S \in (SUBSET Shipments) \ {{}} : Confirm(S) \/ LoseTrack(S)
    \/ \E s \in Shipments :
         \/ Create(s) \/ Fail(s)
         \/ \E outcome \in Issuable :
              \/ Record(s, outcome)
              \/ \E o \in Shipments : Find(s, o, outcome)

Spec == Init /\ [][Next]_vars
=============================================================================
