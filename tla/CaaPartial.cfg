SPECIFICATION Spec
CONSTANTS
    N = 2
    Deadline = 3
    BondAttached = TRUE
    Participants = FALSE
    Clashes = {}
    Faulty = FALSE
    HandOvers = {}
    MaxAttempts = 1
    MaxRequests = 1
    MaxSkew = 0
    MaxTime = 3
CHECK_DEADLOCK FALSE
INVARIANTS AllOrNothing
