SPECIFICATION Spec
CONSTANTS
    Keys = {k1, k2}
    RewardKeys = {}
    IssuerKey = k0
    Caas = {c1, c2}
    Agreements = {a1}
    NoAgreement = noAgreement
    AgreementDeadline <- MCDeadlines
    AgreementGivers <- MCGivers
    GenesisRecorder = r0
    Successors = {}
    None = none
    GenesisShares = 6
    FeeNum = 1
    FeeDen = 8
    RewardRates = {0}
    RewardDen = 4
    ExpiryPeriod = 2
    MaxEscrow = 2
    Cooldown = 1
    MaxActivePerGiver = 3
    MinBondNum = 1
    MinBondDen = 10
    Bonds = {1, 2}
    MaxSeq = 4
    MaxTime = 4
    MaxLag = 1
    MaxReceivers = 1
SYMMETRY Symmetry
CHECK_DEADLOCK FALSE
PROPERTIES RefutedNeverRecorded
