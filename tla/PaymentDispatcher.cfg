SPECIFICATION Spec
CONSTANTS
    c1 = c1
    c2 = c2
    e1 = e1
    e2 = e2
    ch1 = ch1
    ch2 = ch2
    ch3 = ch3
    ch4 = ch4
    peer1 = peer1
    addr1 = addr1
    ContractIDs = {c1, c2}
    EscrowIDs = {e1, e2}
    ChallengeIDs = {ch1, ch2, ch3, ch4}
    Peers = {peer1}
    ProviderOf <- MCProviderOf
    Addresses = {addr1}
    None = None
    publisherID = publisherID
    PassPayments = {2}
    MaxPayments = {1, 3}
    TTLs = {0, 2}
    DefaultTTL = 1
    failureThreshold = 2
    MaxUint64 = 3
    MaxUint32 = 2
    MaxClock = 1
SYMMETRY MCSymmetry
INVARIANTS
    VouchersFormChain
    EarnedOnce
    EvidenceIsUnbroken
CHECK_DEADLOCK FALSE
