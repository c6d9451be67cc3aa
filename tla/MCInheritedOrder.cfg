\* One address, one order on it, no minimum hold: as markets are deployed.
SPECIFICATION Spec
CONSTANTS
    Addresses = {1}
    Ids = {1}
    Prices = {9, 11}
    Levels = {10}
    Directions = {"Long"}
    Kinds = {"StopLoss"}
    MinHold = 0
    KeeperCap = 1
    MaxSlot = 2
    MaxOpens = 2
PROPERTIES
    FillsItsOwnPosition
CHECK_DEADLOCK FALSE
