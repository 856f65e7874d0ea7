SPECIFICATION Spec
CONSTANTS
    Tabs = {"t1", "t2"}
    Swaps = {"s1", "s2"}
    Secs = 2
    Happenings = {}
    MaxTime = 3
INVARIANTS
    LockedIsListed
CHECK_DEADLOCK FALSE
