CONSTANTS
    Bps = 10
    RatePrecision = 10
    NotionalDivisor = 1
    QuotePrecision = 10
    LotScale = 10
    MaxTotalSpread = 5
    LiquidatorBps = 4
    PenaltyInsBps = 4
    MmrTiers <- MCMmrTiers
    MmrTopTier = 20
    NUsers = 1
    NProviders = 2
    Referred = {1}
    FeeSplit <- MCSplit
    TraderFunds = 14
    ProviderFunds = 3
    SponsorFunds = 2
    CollateralAmounts = {14}
    SponsorAmounts = {}
    PayoutAmounts = {}
    NMarkets = 1
    NPositions = 1
    Owner <- MCSoleOwner
    MarketOf <- MCSoleMarket
    Quotes <- MCQuotes
    Sizes = {1}
    Margins = {9}
    TierRates = {3}
    MinNotional = 1
    Params <- MCParams
    Caps <- MCCaps
    MarketStatuses = {"Active", "ReduceOnly"}
    MinLiquidatorReward = 1
    MaxBorrowIndex = 0
    MaxFundingIndex = 0
    LpDeposits = {3}
    LpRequests = {1}
    ExitFeeBps = 1
    PerformanceBps = 2
    MaxRevenue = 3
SPECIFICATION Spec
CONSTRAINTS
    RevenueBound
    OneSwitch
INVARIANTS
    FundsBacked
    MaturedExitSettles
PROPERTIES
    LpFlowsNeverDilute
    NoNewRiskWhenClosed
