SPECIFICATION MCSpec
CONSTANTS
    Markets = {"c", "d"}
    Amounts = {1, 7}
    Fee = 1
    Ttl = 0
    Sse = TRUE
    Faults = TRUE
    MaxTrades = 2
    MaxDeposits = 3
    MaxClock = 1
    MaxRestarts = 1
    MaxTroubles = 3
    MaxHeight = 3
    MaxFails = 2
    MaxCrashes = 1
    Batch = 2
    Interval = 1
    Tenants = {"c1", "c2"}
    Blobs = {"b1", "b2"}
    NoRow = NoRow
    Size <- MCSize
    Quota = 2
    Ruled = {"c1"}
    Retention = 1
    Cheap = {"b2"}
    Uploads = {"u1", "u2"}
    MaxTicks = 1
    MaxRequests = 4
    k1 = k1
    k2 = k2
    k3 = k3
    Keys = {k1, k2, k3}
    Issuer = k1
    RotationRate = 2
    RevocationBase = 4
    Lifetimes = {3}
    HoldTime = 2
    Overrides = FALSE
    MaxTime = 7
INVARIANTS
    AuditAgrees
    AlwaysOwned
    PaidOnce
    HistoryKept
    BlobsAccounted
CHECK_DEADLOCK FALSE
