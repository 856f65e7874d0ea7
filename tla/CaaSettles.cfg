SPECIFICATION TrafficSpec
CONSTANTS
    N = 2
    Deadline = 3
    BondAttached = TRUE
    Participants = FALSE
    Clashes = {}
    Faulty = TRUE
    HandOvers = {0}
    MaxAttempts = 2
    MaxRequests = 1
    MaxSkew = 0
    MaxTime = 3
CHECK_DEADLOCK FALSE
INVARIANTS DoneMeansBound
PROPERTIES EscrowSettles HandOverHappens
