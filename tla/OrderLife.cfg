SPECIFICATION FairSpec
CONSTANTS
    Shipments = {u1}
    Unpaid = {u1}
    Cod = {}
    BatchOf <- OneBatch
    Payers = {p1}
    Cancellers = {c1}
    Pullers = {q1}
    Webhook = {u1}
    MaxReports = 3
    None = None
INVARIANTS
    LedgerFollowsLife
PROPERTIES
    ImplementsLifecycle
    RequestsReturn
    PayingResolves
\* Every order may be settled and every request ended.
CHECK_DEADLOCK FALSE
