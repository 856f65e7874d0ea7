SPECIFICATION Spec
CONSTANTS
    N = 3
    Deadline = 2
    BondAttached = TRUE
    Participants = TRUE
    Clashes = {}
    Faulty = FALSE
    HandOvers = {}
    MaxAttempts = 1
    MaxRequests = 1
    MaxSkew = 0
    MaxTime = 2
CHECK_DEADLOCK FALSE
INVARIANTS RecordedInOrder BindingNeedsAll
PROPERTIES OuroborosSpec
