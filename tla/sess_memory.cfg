SPECIFICATION Spec
CONSTANTS
    Channels = {g}
    Direct = {}
    People = {p1}
    Workers = {w1, w2}
    MaxConv = 5
    MaxBirths = 6
    MaxMsgs = 2
    Ops = {"compact", "retract", "restart", "wipe", "silence"}
SYMMETRY Interchangeable
INVARIANTS
    LineageSound
PROPERTIES
    MemoryKept
    StoreKept
CHECK_DEADLOCK FALSE
