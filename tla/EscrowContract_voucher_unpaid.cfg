SPECIFICATION Spec
CONSTANTS
    c1 = c1
    c2 = c2
    pub = pub
    prov = prov
    Contracts = {c1}
    Accounts = {pub, prov}
    ZeroAddress = ZeroAddress
    Rewards = {2}
    Durations = {1}
    Collaterals = {1}
    Penalties = {1}
    MaxSequence = 2
    MaxCumulative = 2
    PaymentStates <- MCPaymentStates
    SETTLEMENT_WINDOW = 1
    MaxUint64 = 6
    MaxTime = 4
INVARIANT AcceptedVoucherIsPaid
CHECK_DEADLOCK FALSE
