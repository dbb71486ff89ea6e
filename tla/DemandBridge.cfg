SPECIFICATION BridgeSpec
CONSTANTS
    c1 = c1
    c2 = c2
    p1 = p1
    p2 = p2
    f1 = f1
    NoCall = NoCall
    Files = {f1}
    Clients = {c1, c2}
    Callers = {p1, p2}
    Lifetimes = {0, 1}
    Nonces = {0, 1}
    Difficulties = {1}
    LeadingZeros <- MCLeadingZeros
    MaxTime = 2
    MaxRecords = 2
    Providers = {p1, p2}
    CachedFiles = {f1}
    Versions = {1, 2}
    TTLs = {0}
INVARIANTS
    StoreHoldsThePending
PROPERTIES
    RevivedInForce
    EveryRequestEnds
    EndsOnce
CONSTRAINT MCOneAtATime
CHECK_DEADLOCK FALSE
