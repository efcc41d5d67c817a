SPECIFICATION PagingSpec
CONSTANTS
    TextRank <- SameText
    Overwriting = FALSE
    Ids = {1, 2, 3, 4}
    Uuids = {1, 2}
    Values = {1, 2}
    Limit = 2
    Places = {"client", "indexeddb", "mongo", "postgres", "d1"}
    Lacking = {"client", "indexeddb"}
    Turning = {"client", "indexeddb", "postgres", "d1"}
    Counting = {"client", "indexeddb", "postgres"}
    Requests <- PlainOrSome
    MaxWrites = 1
    MaxPages = 5
CHECK_DEADLOCK FALSE
INVARIANTS
    NothingTwice
    NothingLeftOut
    CountsHold
    SamePageEverywhere
