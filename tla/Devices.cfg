SPECIFICATION MCSpec
CONSTANTS
    Devices = {1, 2, 3}
    Guided = FALSE
    MaxPairs = 3
    Clients = {"a", "b"}
    MaxRetained = 2
    Drops = TRUE
    Reloads = {"b"}
    Forgets = TRUE
    MaxMsgs = 2
    MaxConnects = 3
    Wallets = {"a", "b"}
    WalletKeys = {"k1", "k2"}
    Issued = {"k1"}
    Runs = {"r1", "r2"}
    Escrows = FALSE
    Outages = FALSE
    MaxPayloads = 2
    Keys = {"k1", "k2", "k3"}
    Funded = {"k1"}
    TwoFunded = {"k1", "k2"}
    Flushers = {"f1", "f2"}
    Losses = {"lost", "reload", "overdue"}
    Choices = {"clear", "unlock", "external"}
    MaxBuilds = 2
    NoSeed = "none"
INVARIANTS
    KeyOfTwo
    HandledOnceInOrder
    SubmittedIsRecorded
    NewKeysStored
PROPERTIES
    SpentStays
CHECK_DEADLOCK FALSE
