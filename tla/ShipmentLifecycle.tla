------------------------- MODULE ShipmentLifecycle -------------------------
(***************************************************************************)
(* What the status of an accepted shipment promises to its reader: it      *)
(* becomes ISSUED only when Mengantar took the payment, CANCELLED only     *)
(* when Mengantar has the order no more, anything else only when Mengantar *)
(* reported it, and it moves along ALLOWED_TRANSITIONS alone, so a final   *)
(* status stays.                                                           *)
(***************************************************************************)
EXTENDS DeliveryStatus

CONSTANTS Shipments, Unpaid

VARIABLES
    status,  \* shipments.status
    charged, \* shipments Mengantar was paid for
    gone,    \* shipments whose order Mengantar deleted or cancelled
    said     \* the lifecycle states Mengantar reported for each shipment

vars == <<status, charged, gone, said>>

Init ==
    /\ status = [s \in Shipments |->
                   IF s \in Unpaid THEN "AWAITING_UPSTREAM_PAYMENT" ELSE "ISSUED"]
    /\ charged = {}
    /\ gone = {}
    /\ said = [s \in Shipments |-> {}]

\* Mengantar and the courier act on their own; what happened stays happened.
World ==
    /\ charged \subseteq charged'
    /\ gone \subseteq gone'
    /\ said' \in [Shipments -> SUBSET Life]
    /\ \A s \in Shipments : said[s] \subseteq said'[s]
    /\ UNCHANGED status

\* A recovered payment.
Issue(s) ==
    /\ status[s] = "AWAITING_UPSTREAM_PAYMENT"
    /\ s \in charged
    /\ status' = [status EXCEPT ![s] = "ISSUED"]
    /\ UNCHANGED <<charged, gone, said>>

\* A move that Mengantar's word supports; without an AWB only a cancellation is.
Supported(s, next) ==
    /\ next \in ALLOWED_TRANSITIONS[status[s]]
    /\ \/ next = "CANCELLED" /\ s \in gone
       \/ next \in said[s] /\ status[s] # "AWAITING_UPSTREAM_PAYMENT"

\* Some shipments follow Mengantar at once.
Follow ==
    /\ \E S \in SUBSET Shipments :
         \E next \in [S -> Life] :
           /\ \A s \in S : Supported(s, next[s])
           /\ status' = [s \in Shipments |-> IF s \in S THEN next[s] ELSE status[s]]
    /\ UNCHANGED <<charged, gone, said>>

Next == World \/ (\E s \in Shipments : Issue(s)) \/ Follow

Spec == Init /\ [][Next]_vars
=============================================================================
