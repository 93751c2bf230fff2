SPECIFICATION Spec
CONSTANTS
    Shipments = {u1, u2}
    Unpaid = {u1, u2}
    Cod = {}
    BatchOf <- OneBatch
    Payers = {p1, p2}
    Cancellers = {c1}
    Pullers = {}
    Webhook = {}
    MaxReports = 1
    None = None
SYMMETRY Symmetry
INVARIANTS
    TypeOK
    NoDoubleCharge
    NeverPaidAndCancelled
\* Every order may be settled and every request ended.
CHECK_DEADLOCK FALSE
