CONSTANTS
    Kinds = {"zcashd"}
    InitialActions <- MCInitialActions
    NumTestnetBlocks = 3
    IoMayFail = FALSE
    ProcMayFail = TRUE
    SutMayExit = FALSE

SPECIFICATION Spec

INVARIANT NoOrphanedSUT
