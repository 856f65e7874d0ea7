SPECIFICATION Spec
CONSTANTS
    c = c
    d = d
    Chains = {c, d}
    Amounts = {1, 6}
    Fee = 1
    Ttl = 0
    Sse = TRUE
    Faults = FALSE
    MaxTrades = 1
    MaxDeposits = 1
    MaxTime = 1
    MaxRestarts = 0
INVARIANTS
    DepositMatched
CHECK_DEADLOCK FALSE
