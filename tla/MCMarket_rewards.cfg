SPECIFICATION MCSpec
CONSTANTS
    alice = alice
    bob = bob
    None = None
    Scale = 100
    TaxRate = 0
    TaxCap = 0
    ZeroSends = TRUE
    Users = {alice, bob}
    InterestModels = {im}
    DistributionModels = {dm}
    InterestConfigs <- Precise
    EmissionConfigs <- Emission
    BorrowFactors = {90}
    InitialEmission = 200
    InitialDeposit = 7
    TargetRates = {10}
    EpochRates = {0}
    ThresholdRates = {20}
    BorrowLimits = {6}
    Amounts = {3}
    MaxHeight = 3
    MaxCalls = 8
INVARIANTS
    DebtsCovered
    RewardsCovered
