SPECIFICATION FairSpec
CONSTANTS
    s1 = s1
    s2 = s2
    s3 = s3
    b1 = b1
    b2 = b2
    own = own
    platform = platform
    Shipments = {s1, s2}
    Batches = {b1, b2}
    Accounts = {own}
    Workers = {w1, w2}
    Reconcilers = {}
    BatchOf <- Apart
    AccountOf <- OneAccount
    Cod = {s1, s2}
    LookAlike <- AllDistinct
    PlatformDefault = {}
    FixtureLookup = FALSE
    MaxAttempts = 2
    None = None
PROPERTIES
    ConfirmationReturns
    ClaimResolves
\* Every shipment may be settled and every request ended.
CHECK_DEADLOCK FALSE
