CONSTANTS
    Kinds = {"zcashd"}
    InitialActions <- MCSeedOne
    NumTestnetBlocks = 3
    IoMayFail = FALSE
    ProcMayFail = FALSE
    SutMayExit = FALSE

SPECIFICATION Spec

INVARIANT StartFailsOnlyOnFault
