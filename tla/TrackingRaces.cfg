SPECIFICATION FairSpec
CONSTANTS
    Shipments = {d1}
    Unpaid = {}
    Cod = {d1}
    BatchOf <- OneBatch
    Payers = {}
    Cancellers = {c1, c2}
    Pullers = {q1}
    Webhook = {d1}
    MaxReports = 4
    None = None
INVARIANTS
    CancelledIsGone
    LedgerFollowsLife
    FinalReportHolds
PROPERTIES
    DeliveredIsSeen
    CancelledCodIsReversed
\* Every order may be settled and every request ended.
CHECK_DEADLOCK FALSE
