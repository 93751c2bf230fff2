------------------------- MODULE MCOrderSubmission -------------------------
(* Instances of OrderSubmission for TLC. *)
EXTENDS OrderSubmission, TLC

CONSTANTS s1, s2, s3, b1, b2, own, platform

\* s1 and s2 are one batch; s3, or in the two-shipment instances s2, another.
OneAndTwo == [s \in Shipments |-> IF s = s3 THEN b2 ELSE b1]
Apart     == [s \in Shipments |-> IF s = s1 THEN b1 ELSE b2]

\* Every batch on the tenant's own account, or b2 on the shared one.
OneAccount  == [b \in Batches |-> own]
TwoAccounts == [b \in Batches |-> IF b = b1 THEN own ELSE platform]

\* Every order differs from every other, or all carry the same facts.
AllDistinct == {<<s, s>> : s \in Shipments}
Twins       == Shipments \X Shipments

\* Requests are interchangeable.
RequestSymmetry == Permutations(Workers) \cup Permutations(Reconcilers)
=============================================================================
