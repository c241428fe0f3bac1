CONSTANTS
    Kinds = {"zcashd", "zebra"}
    InitialActions <- MCInitialActions
    NumTestnetBlocks = 3
    IoMayFail = TRUE
    ProcMayFail = FALSE
    SutMayExit = TRUE

SPECIFICATION Spec

INVARIANT TypeOK
INVARIANT NoOrphanedSUT
INVARIANT SeedingComplete
INVARIANT StartFailsOnlyOnFault
PROPERTY CrashNotHidden
PROPERTY StartReturns
