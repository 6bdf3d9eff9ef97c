SPECIFICATION MCSpec
CONSTANTS
    alice = alice
    bob = bob
    None = None
    Scale = 10
    TaxRate = 0
    TaxCap = 0
    ZeroSends = TRUE
    Users = {alice, bob}
    InterestModels = {im}
    DistributionModels = {dm}
    InterestConfigs <- OneInterest
    EmissionConfigs <- NoEmission
    BorrowFactors = {9}
    InitialEmission = 0
    InitialDeposit = 8
    TargetRates = {0}
    EpochRates = {0}
    ThresholdRates = {0}
    BorrowLimits = {0}
    Amounts = {1, 3}
    Prices = {1, 20}
    MaxLtvs = {2, 5}
    Lots = {3}
    MaxLocked = 6
    MaxHeight = 2
    MaxCalls = 7
INVARIANTS
    CanAlwaysLeave
PROPERTIES
    OnlyTimePricesAndOwners
    UnsecuredOnlyByLiquidation
