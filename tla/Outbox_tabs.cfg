SPECIFICATION Spec
CONSTANTS
    Calls = {c1, c2}
    Docs = {d1}
    Confirm = Confirm
    Shared = TRUE
    MaxAttempts = 1
    MaxCrashes = 1
    MaxFlushes = 1
CHECK_DEADLOCK FALSE
CONSTRAINT OneFault
SYMMETRY Symmetry
INVARIANTS
    
    SentByOne
