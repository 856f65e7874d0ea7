SPECIFICATION Spec
CONSTANTS
    a = a
    b = b
    c = c
    Devices = {a, b}
    MaxRetained = 2
    Drops = TRUE
    Reloads = {a}
    Forgets = FALSE
    MaxMsgs = 3
    MaxConnects = 3
INVARIANTS
    OnlyReplaysIgnored
CHECK_DEADLOCK FALSE
