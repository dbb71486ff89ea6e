SPECIFICATION AvailSpec
CONSTANTS
    c1 = c1
    c2 = c2
    p1 = p1
    k1 = k1
    k2 = k2
    k3 = k3
    NoTree = NoTree
    Corrupted = Corrupted
    ContractIDs = {c1, c2}
    Providers = {p1}
    Manifests <- MCManifests
    Amounts = {3}
    Durations = {2}
    MaxTimeout = 1
    Int64Modulus = 64
    MaxTime = 2
    MaxEpochs = 3
    MaxAsks = 2
    MaxAnswers = 1
INVARIANTS
    EpochAsksOnce
    OneResultPerChallenge
    
    
    SettlementIsProportional
PROPERTIES
    EndedStaysEnded
CONSTRAINT MCOneAtATime
SYMMETRY MCSymmetry
CHECK_DEADLOCK FALSE
