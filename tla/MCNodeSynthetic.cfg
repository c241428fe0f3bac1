CONSTANTS
    Kinds = {"zcashd"}
    InitialActions <- MCInitialActions
    NumTestnetBlocks = 3
    IoMayFail = FALSE
    ProcMayFail = FALSE
    SutMayExit = TRUE

SPECIFICATION Spec

INVARIANT SyntheticShutDownBeforeStop
