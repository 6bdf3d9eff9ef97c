SPECIFICATION MCSpec
CONSTANTS
    alice = alice
    luna = luna
    krt = krt
    custody1 = custody1
    custody2 = custody2
    Listed <- AllCustodies
    None = None
    Scale = 100
    TaxRate = 0
    TaxCap = 0
    ZeroSends = TRUE
    Users = {alice}
    InterestModels = {im}
    DistributionModels = {dm}
    InterestConfigs <- Steep
    EmissionConfigs <- Emission
    BorrowFactors = {90}
    InitialEmission = 0
    InitialDeposit = 10
    TargetRates = {1}
    EpochRates = {}
    ThresholdRates = {}
    BorrowLimits = {6}
    Amounts = {}
    Custodies = {custody1, custody2, custody3, custody4, custody5, custody6, custody7, custody8, custody9, custody10, custody11}
    Denoms = {luna}
    SwapRates = {100}
    OverseerConfigs <- OverseerChoices
    DefaultLimit = 10
    MaxTokens = 11
    Fees = {1}
    Rewards <- Staked
    MaxHeight = 3
    MaxCalls = 3
INVARIANTS
    AllRewardsClaimed
