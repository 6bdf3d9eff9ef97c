SPECIFICATION MCSpec
CONSTANTS
    alice = alice
    bob = bob
    None = None
    Scale = 10
    TaxRate = 1
    TaxCap = 1
    ZeroSends = FALSE
    Users = {alice}
    InterestModels = {im, im2}
    DistributionModels = {dm}
    InterestConfigs <- TwoInterest
    EmissionConfigs <- NoEmission
    BorrowFactors = {9}
    InitialEmission = 0
    InitialDeposit = 10
    TargetRates = {0, 1}
    EpochRates = {0}
    ThresholdRates = {0}
    BorrowLimits = {20}
    Amounts = {2, 15}
    MaxHeight = 3
    MaxCalls = 6
INVARIANTS
    TypeOK
    RateBacked
    InterestNeverStuck
    DepositRedeemNoProfit
    AllRedeemableWithoutDebt
PROPERTIES
    
    ImplementsRateFloor
    PaymentsSpareReserves
    InterestNotRetroactive
