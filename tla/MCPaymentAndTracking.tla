----------------------- MODULE MCPaymentAndTracking -----------------------
(* Instances of PaymentAndTracking for TLC. *)
EXTENDS PaymentAndTracking, TLC

\* All the shipments of an instance are one provider batch.
OneBatch == [s \in Shipments |-> 1]

\* Requests are interchangeable.
RequestSymmetry ==
    Permutations(Payers) \cup Permutations(Cancellers) \cup Permutations(Pullers)

\* So are the shipments of an instance where all are unpaid and in one batch.
Symmetry == RequestSymmetry \cup Permutations(Shipments)
=============================================================================
