CONSTANTS
    Bps = 10
    RatePrecision = 10
    NotionalDivisor = 1
    QuotePrecision = 10
    LotScale = 10
    MaxTotalSpread = 5
    LiquidatorBps = 4
    PenaltyInsBps = 4
    MmrTiers <- MCSteepTiers
    MmrTopTier = 25
    NUsers = 1
    NProviders = 1
    Referred = {1}
    FeeSplit <- MCSplit
    TraderFunds = 20
    ProviderFunds = 30
    SponsorFunds = 2
    CollateralAmounts = {20}
    SponsorAmounts = {}
    PayoutAmounts = {}
    NMarkets = 1
    NPositions = 1
    Owner <- MCSoleOwner
    MarketOf <- MCSoleMarket
    Quotes <- MCRisingQuotes
    Sizes = {1, 2}
    Margins = {9}
    TierRates = {3}
    MinNotional = 1
    Params <- MCParams
    Caps <- MCNoCaps
    MarketStatuses = {}
    MinLiquidatorReward = 1
    MaxBorrowIndex = 2
    MaxFundingIndex = 12
    LpDeposits = {30}
    LpRequests = {}
    ExitFeeBps = 1
    PerformanceBps = 1
    MaxRevenue = 7
SPECIFICATION Spec
CONSTRAINTS
    RevenueBound
    Undisturbed
INVARIANTS
    UnderwaterIsLiquidatable
