\* The indexer: three transactions, pages of two, two workers, one crash.
\* The faucet: two wallets behind one address that may claim once a window;
\* two requests in one window, one crash.
SPECIFICATION ServicesSpec
CONSTANTS
    MaxTxs = 3
    MaxCrashes = 1
    PageSize = 2
    Workers = 2
    NullAnswers = TRUE
    Wallets = {w1, w2}
    Ips = {a1}
    PerIp = 1
    Window = 2
    MaxWaiting = 2
    MaxNow = 2
    MaxRequests = 2
    MaxDeaths = 1
PROPERTIES
    FeedRefinement
    CatchesUp
    EveryClaimEnds
CHECK_DEADLOCK FALSE
