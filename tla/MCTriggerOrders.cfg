\* One address whose position can be opened twice, two orders on it, one action in a pass.
SPECIFICATION Spec
CONSTANTS
    Addresses = {1}
    Ids = {1, 2}
    Prices = {9, 11}
    Levels = {10}
    Directions = {"Long"}
    Kinds = {"StopLoss"}
    MinHold = 0
    KeeperCap = 1
    MaxSlot = 2
    MaxOpens = 2
PROPERTIES
    InheritsOnlyWithinSlot
    DueOrderIsServed
CHECK_DEADLOCK FALSE
