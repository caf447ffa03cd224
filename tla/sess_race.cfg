SPECIFICATION Spec
CONSTANTS
    Channels = {g}
    Direct = {}
    People = {p1, p2}
    Workers = {w1, w2}
    MaxConv = 7
    MaxBirths = 8
    MaxMsgs = 2
    Ops = {"compact", "erase"}
INVARIANTS ErasedWordsGone
CHECK_DEADLOCK FALSE
