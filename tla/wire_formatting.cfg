SPECIFICATION WireSpec
CONSTANTS
    MaxChunks = 2
    Attempts = 3
    Shapes = {"status", "body"}
INVARIANTS FormattingGoes
CHECK_DEADLOCK FALSE
