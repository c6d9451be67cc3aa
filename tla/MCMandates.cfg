SPECIFICATION Spec
CONSTANTS
    Mandated = 1
    Addresses = 2
    MaxPositions = 2
    MaxTotal = 6
    MaxDrawdown = 1
    MaxActive = 1
    Principal = 6
    OpenSize = 2
    OpenMargin = 2
    OpenFee = 1
    OpenNotional = 3
    OrderIds = {1, 2}
    DepositAmounts = {6}
    MarginMoves = {1}
    Credits = {0, 4}
    Drawdowns = {0, 2}
    HeldSlots = 1
    WholeBps = 10000
    FeeBps = 500
    TraderBps = 7000
    MaxOpens = 2
    MaxExtras = 2
INVARIANTS
    ResultsTracked
    PositionsTracked
    StopsHeld
    RecordNeverFlatters
    ReplayAgrees
    SettledInFull
PROPERTIES
    StoppedGetsFlat
CHECK_DEADLOCK FALSE
