SPECIFICATION PlaySpec
CONSTANTS
    t1 = t1
    t2 = t2
    ani = ani
    budi = budi
    oki = oki
    nia = nia
    dewi = dewi
    root = root
    g1 = g1
    g2 = g2
    Stores = {t1, t2, "t3"}
    Users = {ani, budi, oki, nia, dewi, root}
    Platform = {root}
    Requests = {g1, g2}
    Forms <- SomeForms
    Orders <- SomeOrders
    FirstStore <- ThreeStores
    FirstMember <- Staff
    Nobody = Nobody
    Accounts = {x1, x2}
    Addresses = {e1}
    Confirmations = {f1, f2}
    Recoveries = {r1}
    MaxPasswords = 2
    Released = Released
    NoAccount = NoAccount
    Calls = {c1, c2, c3}
    Visits = {h1, h2}
    Readers = {k1, k2, k3}
    MaxCalls = 2
    Window = 3
    MaxReaders = 2
    Delay = 1
    Horizon = 5
    NoRow = NoRow
    p1 = p1
    p2 = p2
    p3 = p3
    m1 = m1
    m2 = m2
    u1 = u1
    v1 = v1
    i1 = i1
    i2 = i2
    Parcels = {1, 2}
    Prints = {p1, p2, p3}
    Marks = {m1, m2}
    Undos = {u1}
    Moves = {v1}
    Issues = {i1, i2}
    Wanted <- DeskWanted
    AttemptOf <- DeskAttempts
    NoRequest = NoRequest
    NoAnswer = NoAnswer
    s1 = s1
    s2 = s2
    s3 = s3
    s4 = s4
    a1 = a1
    q1 = q1
    o1 = o1
    o2 = o2
    OutletCasts <- OrderingCasts
    Pickups = {"w1", "w2"}
    OwnAccounts = {"y1", "y2"}
    PlatformAllowed = TRUE
    PlatformAccount = "z"
    PlatformPickup = "w1"
    Saves = {s1, s2, s3, s4}
    Adds = {a1}
    Quotings = {q1}
    Orderings = {o1, o2}
    FormOf <- OutletForms
    TargetOf <- OutletTargets
    Stamps = {"j1"}
    MaxVersion = 3
    MaxQuotes = 2
    Nothing = Nothing
    d1 = d1
    d2 = d2
    d3 = d3
    x1 = x1
    x2 = x2
    x3 = x3
    y1 = y1
    y2 = y2
    y3 = y3
    Deals = {d1, d2, d3}
    KindOf <- LedgerKinds
    PriceOf <- LedgerPrices
    Corrections = {x1, x2, x3}
    Closings = {y1, y2, y3}
    CorrectionOf <- LedgerCorrections
    ClosingOf <- LedgerClosings
    Days = 2
    Unanswered = Unanswered
    Denied = Denied
    MaxAmount = 150000
    NoAmount = NoAmount
    Quotes <- CodQuotes
    Values = {1, 5000, 33333}
    Issuances = {l1, l2}
    MaxEstimates = 2
    StorePrefixes = {"GC", "AB", "CD"}
    DefaultPrefix = "GC"
    Creations = {"n1", "n2", "n3"}
    Savings = {"b1", "b2"}
    PrefixOf <- NumberPrefixes
    MaxUnlocks = 1
    OldNumbers = 2
    Nil = Nil
PROPERTIES
    EveryPickupPointShips
\* Attempts, accounts, instants and versions are used up in the end.
CHECK_DEADLOCK FALSE
