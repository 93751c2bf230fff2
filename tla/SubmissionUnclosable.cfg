SPECIFICATION Spec
CONSTANTS
    s1 = s1
    s2 = s2
    s3 = s3
    b1 = b1
    b2 = b2
    own = own
    platform = platform
    Shipments = {s1}
    Batches = {b1}
    Accounts = {own}
    Workers = {w1}
    Reconcilers = {r1}
    BatchOf <- OneAndTwo
    AccountOf <- OneAccount
    Cod = {}
    LookAlike <- AllDistinct
    PlatformDefault = {}
    FixtureLookup = FALSE
    MaxAttempts = 3
    None = None
INVARIANTS
    UnknownBatchHasUnknownMember
\* Every shipment may be settled and every request ended.
CHECK_DEADLOCK FALSE
