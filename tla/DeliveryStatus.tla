--------------------------- MODULE DeliveryStatus ---------------------------
(***************************************************************************)
(* The one decision of what a Mengantar-reported status does to            *)
(* shipments.status: decideProviderDeliveryTransition, which the status    *)
(* pull takes in the application, and provider_delivery_outcome, its copy  *)
(* in SQL, which the webhook takes inside the database.                    *)
(***************************************************************************)
EXTENDS Naturals

\* The delivery life of a shipment that Mengantar accepted.
Life == {"AWAITING_UPSTREAM_PAYMENT", "ISSUED", "IN_TRANSIT", "PROBLEM",
         "DELIVERED", "RTS_QUEUED", "RTS_IN_TRANSIT", "RTS_RECEIVED", "CANCELLED"}

\* No transition leaves these.
Final == {"DELIVERED", "RTS_RECEIVED", "CANCELLED"}

\* What a report may be mapped to; "NONE" stands for a value that is
\* recognised but names no state, and for one that is not recognised.
Mapped == {"IN_TRANSIT", "PROBLEM", "DELIVERED", "RTS_QUEUED",
           "RTS_IN_TRANSIT", "RTS_RECEIVED", "CANCELLED", "NONE"}

\* Mutant of ALLOWED_TRANSITIONS: a problem is taken for an end.
TransitionsUntilProblem ==
    [current \in Life |->
       IF current \in {"ISSUED", "AWAITING_UPSTREAM_PAYMENT", "IN_TRANSIT"}
       THEN Mapped \ {"NONE", current} ELSE {}]

ALLOWED_TRANSITIONS ==
    [current \in Life |->
       CASE current \in {"ISSUED", "AWAITING_UPSTREAM_PAYMENT"} ->
                {"IN_TRANSIT", "PROBLEM", "DELIVERED", "RTS_QUEUED",
                 "RTS_IN_TRANSIT", "CANCELLED"}
         [] current = "IN_TRANSIT"     -> {"PROBLEM", "DELIVERED", "RTS_QUEUED",
                                           "RTS_IN_TRANSIT", "CANCELLED"}
         [] current = "PROBLEM"        -> {"DELIVERED", "RTS_QUEUED",
                                           "RTS_IN_TRANSIT", "CANCELLED"}
         [] current = "RTS_QUEUED"     -> {"RTS_IN_TRANSIT", "RTS_RECEIVED"}
         [] current = "RTS_IN_TRANSIT" -> {"RTS_RECEIVED"}
         [] OTHER                      -> {}]

\* How far a return has come; 0 outside a return.
ReturnProgress(status) ==
    CASE status = "RTS_QUEUED" -> 1
      [] status = "RTS_IN_TRANSIT" -> 2
      [] status = "RTS_RECEIVED" -> 3
      [] OTHER -> 0

\* A return report at or behind where the return already stands.
ReturnAlreadyAtOrPast(mapped, current) ==
    /\ ReturnProgress(mapped) > 0
    /\ ReturnProgress(mapped) <= ReturnProgress(current)

\* Mutant of Outcome: the transition graph is not consulted.
OutcomeUngraphed(mapped, current) ==
    IF mapped = "NONE" THEN "NO_LIFECYCLE_STATE" ELSE "APPLIED"

\* decideProviderDeliveryTransition, from the mapped state on.
Outcome(mapped, current) ==
    CASE mapped = "NONE" -> "NO_LIFECYCLE_STATE"
      [] mapped # "NONE" /\ (mapped = current \/ ReturnAlreadyAtOrPast(mapped, current)) ->
            "UNCHANGED"
      [] OTHER -> IF mapped \in ALLOWED_TRANSITIONS[current] THEN "APPLIED" ELSE "REFUSED"

\* The pairs provider_delivery_outcome applies, as migrations 0063 and 0068 list them.
SqlPairs ==
    ({"ISSUED", "AWAITING_UPSTREAM_PAYMENT", "IN_TRANSIT", "PROBLEM"}
        \X {"DELIVERED", "RTS_QUEUED", "RTS_IN_TRANSIT", "CANCELLED"})
    \cup ({"ISSUED", "AWAITING_UPSTREAM_PAYMENT"} \X {"IN_TRANSIT", "PROBLEM"})
    \cup {<<"IN_TRANSIT", "PROBLEM">>, <<"RTS_QUEUED", "RTS_IN_TRANSIT">>,
          <<"RTS_QUEUED", "RTS_RECEIVED">>, <<"RTS_IN_TRANSIT", "RTS_RECEIVED">>}

\* provider_delivery_outcome; the comparison with a missing array position is
\* NULL in SQL, which does not take the branch.
SqlOutcome(mapped, current) ==
    CASE mapped = "NONE" -> "NO_LIFECYCLE_STATE"
      [] mapped # "NONE" /\ (mapped = current \/ ReturnAlreadyAtOrPast(mapped, current)) ->
            "UNCHANGED"
      [] OTHER -> IF <<current, mapped>> \in SqlPairs THEN "APPLIED" ELSE "REFUSED"
=============================================================================
