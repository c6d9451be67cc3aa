SPECIFICATION MCSpec
CONSTANTS
  Sequels = 1
  Slots = 2
  Purse = 3
  OrderIds = {1}
  AccountSize = 100
  EvalStake = 2
  TargetBps <- Targets
  MaxDailyLoss = 4
  MaxDrawdown = 8
  MaxRisk = 5
  MaxLeverage = 1
  MinTrades = 1
  MinDays = 1
  MinHold = 1
  MinAvgHold = 1
  ConsistencyBps = 100
  MaxOpen = 2
  MaxPending = 1
  DayLength = 1
  Spots = {10, 14}
  Levels = {9, 12}
  Sides = {"Long"}
  Sizes = {1}
  EntryKinds = {"Limit", "Stop"}
  Expiries = {1}
  Spreads = {0}
  OpenFeeRate = 1
  CloseFeeRate = 1
  Gifts = {1}
  MaxTime = 2
  MaxBorrow = 1
  MaxTrades = 2
  Bps = 100
  RatePrecision = 100
  NotionalDivisor = 1
  QuotePrecision = 1
  LotScale = 1
  MaxTotalSpread = 100
  LiquidatorBps = 40
  PenaltyInsBps = 40
  MmrTiers = {}
  MmrTopTier = 1
INVARIANTS
  RecordExact
  FlatWithinLimits
  OrdersKeepToTheirStage
  StakesAccounted
PROPERTIES
  BreachIsSeen
  EarlyExitLoses
