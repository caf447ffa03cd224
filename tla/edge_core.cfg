SPECIFICATION Spec
CONSTANTS
    Channels = {c1}
    MaxConv = 3
    MaxBlock = 5
    MaxBirths = 3
    MaxItems = 2
    BusDepth = 2
    Resets = {"wipe", "null", "compact"}
    Faults = {"restart", "overrun", "store"}
INVARIANTS
    AtMostOnce
CHECK_DEADLOCK FALSE
