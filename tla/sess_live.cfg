SPECIFICATION FairSpec
CONSTANTS
    Channels = {g}
    Direct = {}
    People = {p1}
    Workers = {w1}
    MaxConv = 5
    MaxBirths = 8
    MaxMsgs = 1
    Ops = {"compact", "retract", "expire", "fault", "torn"}
PROPERTIES OperationsEnd
CHECK_DEADLOCK FALSE
