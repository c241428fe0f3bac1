CONSTANTS
    Tests = {"001", "002", "003", "004", "006"}
    NumMessages = 2
    Reactions <- MCAnsweringReactions

SPECIFICATION Spec

\* The test ends once every message is checked, or at its first panic.
CHECK_DEADLOCK FALSE

INVARIANT NoFalseFailure
INVARIANT PassImpliesConforming
PROPERTY TestEnds
