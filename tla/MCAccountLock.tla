--------------------------- MODULE MCAccountLock ---------------------------
(* Instances of AccountLock for TLC. *)
EXTENDS AccountLock

CONSTANTS a1, a2, a3, b1

\* Three requests on one account, one of them a cancellation, and one on another.
TwoAccounts == [r \in Requests |-> IF r = b1 THEN "B" ELSE "A"]
=============================================================================
