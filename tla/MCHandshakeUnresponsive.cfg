CONSTANTS
    Tests = {"003"}
    NumMessages = 2
    Reactions = {"unresponsive"}

SPECIFICATION Spec

\* The test ends once every message is checked, or at its first panic.
CHECK_DEADLOCK FALSE

PROPERTY TestEnds
