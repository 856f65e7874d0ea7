SPECIFICATION Spec
CONSTANTS
    k1 = k1
    k2 = k2
    k3 = k3
    k4 = k4
    k5 = k5
    f1 = f1
    f2 = f2
    Keys = {k1, k2, k3, k4, k5}
    Funded = {k1}
    Flushers = {f1, f2}
    NoKey = NoKey
    Happenings = {"lost"}
    MaxBuilds = 2
INVARIANTS
    NewKeysStored
CHECK_DEADLOCK FALSE
