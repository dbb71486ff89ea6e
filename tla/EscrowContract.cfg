SPECIFICATION Spec
CONSTANTS
    c1 = c1
    c2 = c2
    pub = pub
    prov = prov
    Contracts = {c1, c2}
    Accounts = {pub, prov}
    ZeroAddress = ZeroAddress
    Rewards = {0, 2}
    Durations = {1, 4}
    Collaterals = {1}
    Penalties = {2}
    MaxSequence = 2
    MaxCumulative = 3
    PaymentStates <- MCPaymentStates
    SETTLEMENT_WINDOW = 1
    MaxUint64 = 4
    MaxTime = 3
INVARIANTS
    EscrowSplit
    CollateralSplit
    Solvency
PROPERTIES
    VouchersAdvance
    ImplementsPromise
CHECK_DEADLOCK FALSE
