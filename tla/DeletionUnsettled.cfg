SPECIFICATION FairSpec
CONSTANTS
    Shipments = {u1}
    Unpaid = {u1}
    Cod = {}
    BatchOf <- OneBatch
    Payers = {}
    Cancellers = {c1}
    Pullers = {q1}
    Webhook = {}
    MaxReports = 1
    None = None
PROPERTIES
    DeletionIsSettled
\* Every order may be settled and every request ended.
CHECK_DEADLOCK FALSE
