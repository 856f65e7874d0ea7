SPECIFICATION FairSpec
CONSTANTS
    N = 3
    Deadline = 9
    BondAttached = TRUE
    Participants = FALSE
    Clashes = {}
    Faulty = FALSE
    HandOvers = {}
    MaxAttempts = 1
    MaxRequests = 1
    MaxSkew = 1
    MaxTime = 3
CHECK_DEADLOCK FALSE
PROPERTIES Completes
