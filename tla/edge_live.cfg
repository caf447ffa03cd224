SPECIFICATION FairSpec
CONSTANTS
    Channels = {c1, c2}
    MaxConv = 3
    MaxBlock = 6
    MaxBirths = 3
    MaxItems = 2
    BusDepth = 2
    Resets = {"wipe"}
    Faults = {}
PROPERTIES
    EventuallyHanded
CHECK_DEADLOCK FALSE
