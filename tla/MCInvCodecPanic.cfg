CONSTANTS
    HashLen <- MCHashLen
    InvValues <- MCInvValues
    Inputs <- MCInputs

SPECIFICATION Spec

\* Inv::decode returns; a finished decode is a final state.
CHECK_DEADLOCK FALSE

INVARIANT DecodeNeverPanics
