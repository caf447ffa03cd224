SPECIFICATION FairSpec
CONSTANTS
    Tiers <- SmallTiers
    MaxCalls = 3
    MaxSessions = 3
    MaxNow = 3
    Ops = {"wipe", "compact", "restart", "cut", "fault"}
INVARIANTS PostedInOrder AllowanceKept
PROPERTIES NoLatePost SettledWhereFiled
CHECK_DEADLOCK FALSE
