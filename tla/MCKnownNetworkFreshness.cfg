CONSTANTS
    NumAddrs = 2
    LAST_SEEN_CUTOFF = 1
    MaxTime = 3
    MaxAddrsPerMsg = 1
    r1 = r1
    mainLoop = mainLoop
    Readers <- MCReaders
    MainLoop <- mainLoop

SPECIFICATION HistSpec

INVARIANT ReportedConnectionsKept
