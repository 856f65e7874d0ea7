SPECIFICATION Spec
CONSTANTS
    c = c
    d = d
    Chains = {c, d}
    Amounts = {1, 6}
    Fee = 1
    Ttl = 0
    Sse = FALSE
    Faults = FALSE
    MaxTrades = 1
    MaxDeposits = 2
    MaxTime = 1
    MaxRestarts = 0
PROPERTIES
    RegisteredStay
CHECK_DEADLOCK FALSE
