SPECIFICATION DownloadSpec
CONSTANTS
    p1 = p1
    p2 = p2
    k1 = k1
    k2 = k2
    Garbage = Garbage
    NoManifest = NoManifest
    NoChunk = NoChunk
    NoTask = NoTask
    NoSession = NoSession
    ContentID = ContentID
    Sources = {p1, p2}
    Peers <- MCPeers
    ChunkIDs <- MCChunkIDs
    Replicas <- MCReplicas
    CipherSize = 32796
    TicketSize = 600
    ErrorTextSize = 80
    Modes = {"ack", "ticket", "forged"}
    MaxAttempts = 2
    MaxFaults = 1
    MaxRuns = 2
CONSTRAINT MCCases
INVARIANTS
    StoredIsGenuine
    
    TasksConserved
    InStep
    ReadersAgree
    TicketOnItsWay
PROPERTIES
    ProgressKept
    EveryDownloadEnds
