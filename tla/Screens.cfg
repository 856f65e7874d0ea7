SPECIFICATION MCSpec
CONSTANTS
    Keys = {"k1", "k2"}
    Reports = {"r1", "r2"}
    Late = TRUE
    Numbered = {"k1"}
    Switches = TRUE
    Batch = 1
    HistoryBlocks = 2
    Chains = {"c1", "c2"}
    NoChain = NoChain
    MaxHeight = 1
    Notes = {"n1"}
    NoNote = NoNote
    Givers = {"g1"}
    LongNotes = {}
    BlockRange = 3
    Troubles = {"select", "fail", "foreign"}
    MaxBlocks = 2
    Builders = {"wallet", "agent"}
    TotalLo = 33180
    TotalHi = 33300
    Sends = {30, 32800}
    Shares = {1000, 2500}
    FeeNum = 1
    FeeDen = 1000
    RewardNum = 0
    RewardDen = 1
    SeqId = 5
    ListingBytes = 40
    OtherBlocks = 1
    OtherFee = 3
    Agents = {"a1", "a2"}
    Cap = 3
    Drop = 1
    SnapshotLimit = 2
    UpdateLimit = 1
    Life = 2
    Happenings = {"lose", "mute"}
    MaxTrades = 5
    MaxLosses = 2
    Buffer = 1
    DataBits = 3
    ValueBits = 8
    MaxVbcBytes = 3
    SafeBits = 7
    Alphabet = {0, 1, 2, 3, 5, 6, 12, 15}
    MaxLen = 4
    Values = {0, 8}
    Numbers = {0, 1, 8}
INVARIANTS
    HistoryIsTrue
    StreamsTrue
    LedgerIsPrefix
    RoundsSuffice
    ItemsTrue
    NoGap
CHECK_DEADLOCK FALSE
