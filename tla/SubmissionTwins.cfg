SPECIFICATION Spec
CONSTANTS
    s1 = s1
    s2 = s2
    s3 = s3
    b1 = b1
    b2 = b2
    own = own
    platform = platform
    Shipments = {s1, s2}
    Batches = {b1, b2}
    Accounts = {own}
    Workers = {w1, w2}
    Reconcilers = {r1, r2}
    BatchOf <- Apart
    AccountOf <- OneAccount
    Cod = {}
    LookAlike <- Twins
    PlatformDefault = {}
    FixtureLookup = FALSE
    MaxAttempts = 1
    None = None
SYMMETRY RequestSymmetry
INVARIANTS
    InFlightUnderClaim
    OrderOwnedOnce
PROPERTIES
    ImplementsIssuance
\* Every shipment may be settled and every request ended.
CHECK_DEADLOCK FALSE
