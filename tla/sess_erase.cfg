SPECIFICATION Spec
CONSTANTS
    Channels = {g}
    Direct = {}
    People = {p1, p2}
    Workers = {w1}
    MaxConv = 6
    MaxBirths = 10
    MaxMsgs = 2
    Ops = {"compact", "erase", "retract", "silence"}
SYMMETRY Interchangeable
INVARIANTS
    ErasedWordsGone
    MappedOrRetired
CHECK_DEADLOCK FALSE
