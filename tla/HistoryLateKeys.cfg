SPECIFICATION Spec
CONSTANTS
    Keys = {k1, k2}
    Histories = {}
    Reports = {r1}
    Late = TRUE
    Numbered = {k1}
    Switches = FALSE
    MaxOwn = 1
    Batch = 1
    MaxBlocks = 2
INVARIANTS
    HeldKeysComplete
CHECK_DEADLOCK FALSE
