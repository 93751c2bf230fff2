SPECIFICATION FairSpec
CONSTANTS
    a1 = a1
    a2 = a2
    a3 = a3
    b1 = b1
    Requests = {a1, a2, a3, b1}
    AccountOf <- TwoAccounts
    Cancels = {a3}
    PoolSize = 5
INVARIANTS
    TypeOK
    HolderServed
PROPERTIES
    RequestsProceed
