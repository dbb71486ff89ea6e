SPECIFICATION PublisherSpec
CONSTANTS
    p1 = p1
    p2 = p2
    NoTree = NoTree
    Garbage = Garbage
    Providers = {p1, p2}
    MaxChunks = 2
    MaxStreams = 3
    MaxRetriesPerChunk = 2
    FailoverRounds = 2
    Scenarios <- MCScenarios
    ChallengeRounds = 2
    Unit = 25
    Uint64Modulus = 18446
INVARIANT StoredIsWhole
