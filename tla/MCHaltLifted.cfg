SPECIFICATION SessionSpec
CONSTANTS
    Week = 6
    PreClose = 1
    GapWindowTicks = 2
    FeedKinds = {"SpotFx", "Crypto"}
    AdminStatuses = {"Initialized", "Active", "ReduceOnly", "Halted", "GapWindow", "Delisted"}
INVARIANTS
    OnlyAdminReopens
