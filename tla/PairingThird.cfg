SPECIFICATION Spec
CONSTANTS
    Devices = {1, 2, 3}
    Guided = TRUE
    MaxPairs = 4
INVARIANTS
    GroupInSync
CHECK_DEADLOCK FALSE
