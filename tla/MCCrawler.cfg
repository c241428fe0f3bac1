CONSTANTS
    NumAddrs = 2
    LAST_SEEN_CUTOFF = 0
    MaxTime = 2
    MaxAddrsPerMsg = 1
    mainLoop = mainLoop
    Readers <- MCReaders
    MainLoop <- mainLoop
    SeedAddrs <- MCSeedAddrs
    NUM_CONN_ATTEMPTS_PERIODIC = 2
    MAX_FAILURES = 1
    SEED_RESPONSE_TIMEOUT = 1
    MaxInFlight = 1

SPECIFICATION CrawlSpec

CHECK_DEADLOCK FALSE

INVARIANT UniqueConnections
INVARIANT NodeClosure
 
PROPERTY LoopStartsAfterAnswer
PROPERTY ImplementsGraph
PROPERTY FailuresNeverReset
