SPECIFICATION LiveSpec
CONSTANTS
    Watchers = {w1, w2}
    Docs = {d1, d2}
    SubscribeFirst = TRUE
    KeepsMissed = TRUE
    Versioned = TRUE
    HttpOvertakes = FALSE
    FramesOvertake = FALSE
    Patient = TRUE
    SlowStart = FALSE
    SameFilters = FALSE
    MaxWrites = 2
    MaxDrops = 1
    MaxEnds = 1
    MaxFails = 1
CHECK_DEADLOCK FALSE
INVARIANTS
    LiveInv
    CaughtUp
PROPERTIES
    Arrived
