SPECIFICATION Spec
CONSTANTS
    Keys = {k1, k2, k3}
    RewardKeys = {}
    IssuerKey = k0
    Caas = {c1, c2}
    Agreements = {}
    NoAgreement = noAgreement
    AgreementDeadline <- MCNoDeadlines
    AgreementGivers <- MCGivers
    GenesisRecorder = r0
    Successors = {r1, r2}
    None = none
    GenesisShares = 5
    FeeNum = 1
    FeeDen = 8
    RewardRates = {0}
    RewardDen = 4
    ExpiryPeriod = 2
    MaxEscrow = 2
    Cooldown = 1
    MaxActivePerGiver = 3
    MinBondNum = 1
    MinBondDen = 10
    Bonds = {1}
    MaxSeq = 5
    MaxTime = 5
    MaxLag = 1
    MaxReceivers = 2
SYMMETRY Symmetry
CHECK_DEADLOCK FALSE
INVARIANTS EscrowsOfIncumbent
PROPERTIES FrozenForGood PendingHonoured
