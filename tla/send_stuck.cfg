SPECIFICATION FairSpec
CONSTANTS
    Tiers <- SmallTiers
    MaxCalls = 2
    MaxSessions = 2
    MaxNow = 1
    Ops = {"compact"}
PROPERTY SendsSettle
CHECK_DEADLOCK FALSE
