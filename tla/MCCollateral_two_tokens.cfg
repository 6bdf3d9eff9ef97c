SPECIFICATION MCDeployedSpec
CONSTANTS
    alice = alice
    bob = bob
    bluna = bluna
    beth = beth
    custody1 = custody1
    custody2 = custody2
    Scale = 10
    TaxRate = 3
    TaxCap = 1
    ZeroSends = FALSE
    Users = {alice, bob}
    Tokens = {bluna, beth}
    Custodies = {custody1, custody2}
    CustodyToken <- TwoTokens
    Wallet = 8
    None = None
    Prices = {10}
    LiquidationConfigs <- OneConfig
    PremiumRates = {1}
    Owner = alice
    MaxLtvs = {5}
    PriceTimeframe = 1
    Amounts = {4}
    Loans = {6}
    Borrowers = {alice}
    Bidders = {bob}
    Keepers <- Replaced
    MaxTime = 0
    MaxCalls = 8
INVARIANTS
    LedgersAgree
PROPERTIES
    ImplementsLedger
