SPECIFICATION Spec
CONSTANTS
    a = a
    b = b
    k1 = k1
    k2 = k2
    k3 = k3
    r1 = r1
    r2 = r2
    NoKey = NoKey
    Devices = {a, b}
    Keys = {k1, k2}
    Issued = {k1}
    Runs = {r1}
    Escrows = FALSE
    Outages = FALSE
    MaxPayloads = 3
INVARIANTS
    SpendIsTold
CHECK_DEADLOCK FALSE
