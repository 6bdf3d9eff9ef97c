SPECIFICATION MCDeployedSpec
CONSTANTS
    alice = alice
    bob = bob
    bluna = bluna
    beth = beth
    custody1 = custody1
    custody2 = custody2
    Scale = 100
    TaxRate = 2
    TaxCap = 500
    ZeroSends = FALSE
    Users = {alice, bob}
    Tokens = {bluna}
    Custodies = {custody1}
    CustodyToken <- OneCustody
    Wallet = 14000
    None = None
    Prices = {100, 70}
    LiquidationConfigs <- Precise
    PremiumRates = {0, 10}
    Owner = alice
    MaxLtvs = {50}
    PriceTimeframe = 1
    Amounts = {4000, 10000}
    Loans = {0, 4000, 4800}
    Borrowers = {alice}
    Bidders = {bob}
    Keepers <- Kept
    MaxTime = 1
    MaxCalls = 7
INVARIANTS
    CustodyBacked
    BidsEscrowed
PROPERTIES
    DebtForgivenIsPaid
    LiquidationRestores
