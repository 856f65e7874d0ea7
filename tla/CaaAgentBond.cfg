SPECIFICATION FairSpec
CONSTANTS
    N = 2
    Deadline = 9
    BondAttached = FALSE
    Participants = FALSE
    Clashes = {}
    Faulty = FALSE
    HandOvers = {}
    MaxAttempts = 1
    MaxRequests = 1
    MaxSkew = 0
    MaxTime = 3
CHECK_DEADLOCK FALSE
PROPERTIES Completes
