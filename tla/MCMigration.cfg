SPECIFICATION MCSpec
CONSTANTS
    alice = alice
    None = None
    Scale = 10
    TaxRate = 0
    TaxCap = 0
    ZeroSends = TRUE
    Users = {alice}
    InterestModels = {im}
    DistributionModels = {dm}
    InterestConfigs <- Steep
    EmissionConfigs <- NoEmission
    BorrowFactors = {9}
    InitialEmission = 0
    InitialDeposit = 3
    TargetRates = {0, 1}
    EpochRates = {0}
    ThresholdRates = {0}
    BorrowLimits = {6}
    Amounts = {3}
    LegacyMarkets <- OldMarkets
    MaxHeight = 4
    MaxCalls = 6
INVARIANTS
    MigratedSafe
    LegacyRateKept
