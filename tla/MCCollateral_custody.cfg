SPECIFICATION MCSpec
CONSTANTS
    alice = alice
    bob = bob
    bluna = bluna
    beth = beth
    custody1 = custody1
    custody2 = custody2
    Scale = 10
    TaxRate = 0
    TaxCap = 0
    ZeroSends = TRUE
    Users = {alice}
    Tokens = {bluna}
    Custodies = {custody1, custody2}
    CustodyToken <- TwoCustodies
    Wallet = 3
    None = None
    Prices = {10}
    LiquidationConfigs <- OneConfig
    PremiumRates = {}
    Owner = alice
    MaxLtvs = {5, 10}
    PriceTimeframe = 1
    Amounts = {1, 2}
    Loans = {0, 1}
    Borrowers = {alice}
    Bidders = {}
    Keepers <- Kept
    MaxTime = 2
    MaxCalls = 9
INVARIANTS
    TypeOK
    DebtFreeCanUnlock
PROPERTIES
    ReleasedOnlyIfCovered
    ImplementsLedger
