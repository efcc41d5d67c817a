SPECIFICATION SyncSpec
CONSTANTS
    Docs = {1, 2}
    There = {1}
    Modes <- FullOrWindow
    Holders = {h1}
    Window = 1
    PageSize = 1
    Overlap = 0
    Slots = 1
    EvictAfter = 0
    Ordered = TRUE
    MaxVersion = 3
    MaxRuns = 2
    MaxDays = 0
    MaxFaults = 1
CHECK_DEADLOCK FALSE
ACTION_CONSTRAINT FaultsLast
INVARIANTS
    HeldIsActive
    SyncInv
PROPERTIES
    CatchesUp
