SPECIFICATION Spec
CONSTANTS
    s1 = s1
    s2 = s2
    s3 = s3
    b1 = b1
    b2 = b2
    own = own
    platform = platform
    Shipments = {s1, s2, s3}
    Batches = {b1, b2}
    Accounts = {own, platform}
    Workers = {w1, w2}
    Reconcilers = {r1}
    BatchOf <- OneAndTwo
    AccountOf <- TwoAccounts
    Cod = {s1}
    LookAlike <- AllDistinct
    PlatformDefault = {platform}
    FixtureLookup = TRUE
    MaxAttempts = 2
    None = None
SYMMETRY RequestSymmetry
INVARIANTS
    TypeOK
    AtMostOneProviderOrder
    ResumableMeansUnsent
    BatchReflectsMembers
    LedgerFollowsIssue
    
\* Every shipment may be settled and every request ended.
CHECK_DEADLOCK FALSE
