SPECIFICATION SettlementSpec
CONSTANTS
    c1 = c1
    c2 = c2
    e1 = e1
    ch1 = ch1
    ch2 = ch2
    ch3 = ch3
    peer1 = peer1
    pub = pub
    prov = prov
    Contracts = {e1}
    Accounts = {pub, prov}
    ZeroAddress = ZeroAddress
    Rewards = {2}
    Durations = {1}
    Collaterals = {1}
    Penalties = {1}
    PaymentStates = {}
    SETTLEMENT_WINDOW = 1
    MaxUint64 = 3
    MaxTime = 3
    ContractIDs = {c1}
    ChallengeIDs = {ch1, ch2}
    Peers = {peer1}
    ProviderOf <- MCProviderOf
    None = None
    publisherID = pub
    PassPayments = {1, 2}
    MaxPayments = {2}
    TTLs = {2}
    DefaultTTL = 1
    failureThreshold = 1
    MaxUint32 = 1
    MaxCalls = 2
SYMMETRY MCSymmetry
INVARIANTS
    ChainFollowsStore
    PaidAtMostEarned
CHECK_DEADLOCK FALSE
