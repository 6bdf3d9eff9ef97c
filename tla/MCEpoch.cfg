SPECIFICATION MCFairSpec
CONSTANTS
    alice = alice
    luna = luna
    krt = krt
    custody1 = custody1
    custody2 = custody2
    Listed <- OneToken
    None = None
    Scale = 100
    TaxRate = 10
    TaxCap = 2
    ZeroSends = FALSE
    Users = {alice}
    InterestModels = {im}
    DistributionModels = {dm}
    InterestConfigs <- Steep
    EmissionConfigs <- Emission
    BorrowFactors = {90}
    InitialEmission = 0
    InitialDeposit = 10
    TargetRates = {1}
    EpochRates = {}
    ThresholdRates = {}
    BorrowLimits = {6}
    Amounts = {4}
    Custodies = {custody1, custody2}
    Denoms = {luna, krt}
    SwapRates = {50}
    OverseerConfigs <- OverseerChoices
    DefaultLimit = 10
    MaxTokens = 2
    Fees = {20}
    Rewards <- Mixed
    MaxHeight = 3
    MaxCalls = 6
INVARIANTS
    EpochTypeOK
    EpochTracksMarket
    EpochNeverPanics
    IncomeCountedOnce
    BufferHeld
    AllRewardsClaimed
PROPERTIES
    ImplementsMarket
    DistributionUpToThreshold
    TransactionsEnd
