SPECIFICATION Spec
CONSTANTS
    Channels = {c1}
    MaxConv = 3
    MaxBlock = 5
    MaxBirths = 3
    MaxItems = 2
    BusDepth = 1
    Resets = {"compact", "strip", "erase", "expire"}
    Faults = {}
PROPERTIES
    OwnItemsKept
    ReseatsOnlyStrangers
CHECK_DEADLOCK FALSE
