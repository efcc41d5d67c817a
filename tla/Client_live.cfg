SPECIFICATION FairClientSpec
CONSTANTS
    Calls = {c1, r1}
    Docs = {d1}
    Recoveries = {r1}
    Confirm = Confirm
    Shared = FALSE
    MaxAttempts = 1
    MaxCrashes = 1
    MaxFlushes = 0
    ConflictAttempts = 1
    MaxVersion = 5
    MaxTheirs = 1
    MaxIngests = 0
    MaxLost = 1
    Refusals = TRUE
    Early = FALSE
CHECK_DEADLOCK FALSE
PROPERTIES
    
    VersionsGrow
    EverythingSettles
