SPECIFICATION MCDeployedSpec
CONSTANTS
    alice = alice
    bob = bob
    bluna = bluna
    beth = beth
    custody1 = custody1
    custody2 = custody2
    Scale = 10
    TaxRate = 0
    TaxCap = 0
    ZeroSends = TRUE
    Users = {alice, bob}
    Tokens = {bluna}
    Custodies = {custody1}
    CustodyToken <- OneCustody
    Wallet = 20
    None = None
    Prices = {10, 5}
    LiquidationConfigs <- BelowThreshold
    PremiumRates = {0, 2}
    Owner = alice
    MaxLtvs = {5}
    PriceTimeframe = 1
    Amounts = {4, 8}
    Loans = {0, 2, 4}
    Borrowers = {alice}
    Bidders = {bob}
    Keepers <- Kept
    MaxTime = 1
    MaxCalls = 7
INVARIANT
    BelowThresholdTakesAll
