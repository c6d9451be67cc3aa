CONSTANTS
    Bps = 10
    RatePrecision = 10
    NotionalDivisor = 1
    QuotePrecision = 10
    LotScale = 10
    MaxTotalSpread = 9
    LiquidatorBps = 4
    PenaltyInsBps = 4
    MmrTiers <- MCMmrTiers
    MmrTopTier = 20
    NUsers = 2
    NProviders = 1
    Referred = {1}
    FeeSplit <- MCSplit
    TraderFunds = 20
    ProviderFunds = 30
    SponsorFunds = 2
    CollateralAmounts = {20}
    SponsorAmounts = {2}
    PayoutAmounts = {}
    NMarkets = 1
    NPositions = 2
    Owner <- MCOwner
    MarketOf <- MCMarketOf
    Quotes <- MCFlatQuotes
    Sizes = {1}
    Margins = {9}
    TierRates = {3}
    MinNotional = 1
    Params <- MCSkewParams
    Caps <- MCNoCaps
    MarketStatuses = {}
    MinLiquidatorReward = 1
    MaxBorrowIndex = 0
    MaxFundingIndex = 12
    LpDeposits = {30}
    LpRequests = {}
    ExitFeeBps = 1
    PerformanceBps = 1
    MaxRevenue = 6
SPECIFICATION Spec
CONSTRAINTS
    RevenueBound
    Undisturbed
INVARIANTS
    FlatMarketPaysNobody
