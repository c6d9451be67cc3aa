CONSTANTS
    tight = tight
    loose = loose
    Bps = 10
    RatePrecision = 10
    NotionalDivisor = 4
    QuotePrecision = 10
    LotScale = 10
    MaxTotalSpread = 5
    LiquidatorBps = 4
    PenaltyInsBps = 4
    MmrTiers = {}
    MmrTopTier = 10
    Prices = {3, 4, 6, 9}
    FillSizes = {1, 2, 3}
    MaxTrades = 4
    TradeSizes = {1, 3}
    MaxSide = 5
    Elapsed = {1, 3}
    Hour = 2
    FundingK = 10
    FundingCap = 7
    MaxCranks = 3
    Investors = {"ann", "bob"}
    Traders = {"tom"}
    NOffers = 3
    InvestorOf <- MCInvestorOf
    TraderOf <- MCTraderOf
    Principals = {2, 3}
    OfferTerms = {tight}
    DirectTerms = {loose}
    Wealth <- MCWealth
    Tiers = {"Bronze", "Silver"}
    EntryTier = "Bronze"
    MaxMandate <- MCMaxMandate
    MaxActive <- MCMaxActive
    MaxDust = 1
    NClients = 3
    NIbs = 2
    ReferrerOf <- MCReferrerOf
    ShareTiers <- MCShareTiers
    TopShare = 4
    OverrideBps = 5
    ReferralSplits = {3, 5}
    ReferredFees = {10}
    ReferredNotionals = {1}
    MaxEarmarked = 11
    MaxReferredVolume = 2
    Wallets = {w1, w2}
    Ips = {a1, a2}
    PerIp = 1
    Window = 2
    MaxWaiting = 2
    MaxNow = 3
    MaxRequests = 2
    MaxDeaths = 1
SPECIFICATION LedgersSpec
INVARIANTS
    RoundingNeverPays
    FundingConserved
    OfferedCapitalIsSafe
    RebatesCovered
    LimitsHold
CHECK_DEADLOCK FALSE
