SPECIFICATION ListingsSpec
CONSTANTS
    Bidders <- MCBidders
    Tokens <- MCTokens
    Assets <- MCAssets
    Limits <- MCLimits
    DefaultLimit = 2
    MaxLimit = 3
    None = None
INVARIANT
    PagesReadable
PROPERTIES
    ListedOnce
    ListingsEnd
