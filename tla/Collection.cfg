SPECIFICATION CollectionSpec
CONSTANTS
    N = 3
    Tags = {x, y}
    Asked = {x}
    None = None
    Limit = 1
    Held = FALSE
    Meets = {}
    MaxQueries = 2
    MaxMore = 1
    MaxWrites = 2
    MaxFails = 1
CHECK_DEADLOCK FALSE
INVARIANTS
    ListInv
    Reachable
PROPERTIES
    Settles
