SPECIFICATION SyncSpec
CONSTANTS
    Docs = {1, 2}
    There = {1, 2}
    Modes <- FullAlwaysOrWindow
    Holders = {h1}
    Window = 1
    PageSize = 1
    Overlap = 0
    Slots = 1
    EvictAfter = 0
    Ordered = TRUE
    MaxVersion = 2
    MaxRuns = 2
    MaxDays = 1
    MaxFaults = 1
CHECK_DEADLOCK FALSE
INVARIANTS
    SlotsKept
PROPERTIES
    EveryRunEnds
