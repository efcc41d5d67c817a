SPECIFICATION ClientSpec
CONSTANTS
    Calls = {c1, c2}
    Docs = {d1}
    Recoveries = {}
    Confirm = Confirm
    Shared = FALSE
    MaxAttempts = 1
    MaxCrashes = 0
    MaxFlushes = 0
    ConflictAttempts = 1
    MaxVersion = 5
    MaxTheirs = 1
    MaxIngests = 1
    MaxLost = 0
    Refusals = FALSE
    Early = TRUE
CHECK_DEADLOCK FALSE
SYMMETRY Symmetry
PROPERTIES
    NoBlindOverwrite
