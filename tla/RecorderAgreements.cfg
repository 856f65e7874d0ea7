SPECIFICATION Spec
CONSTANTS
    Keys = {k1, k2, k3}
    RewardKeys = {w1, w2, w3}
    IssuerKey = k0
    Caas = {c1}
    Agreements = {a1}
    NoAgreement = noAgreement
    AgreementDeadline <- MCDeadlines
    AgreementGivers <- MCGivers
    GenesisRecorder = r0
    Successors = {}
    None = none
    GenesisShares = 10
    FeeNum = 1
    FeeDen = 16
    RewardRates = {0, 1}
    RewardDen = 2
    ExpiryPeriod = 3
    MaxEscrow = 2
    Cooldown = 1
    MaxActivePerGiver = 3
    MinBondNum = 1
    MinBondDen = 10
    Bonds = {1}
    MaxSeq = 7
    MaxTime = 5
    MaxLag = 0
    MaxReceivers = 1
SYMMETRY Symmetry
CHECK_DEADLOCK FALSE
INVARIANTS RecordedOnce
PROPERTIES RefutedStaysOut NothingMinted
