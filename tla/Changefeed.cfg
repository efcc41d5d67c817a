SPECIFICATION ChangefeedSpec
CONSTANTS
    Ids = {"d1", "d2"}
    NewId = "d1"
    Starts <- OneRow
    Owners = {"o1", "o2"}
    Orgs = {"g1", "g2"}
    Values = {1, 2}
    Backends = {"mongo", "postgres", "d1"}
    Scalar = {"mongo", "d1"}
    Taking = {"mongo", "postgres", "d1"}
    Imaging = {TRUE, FALSE}
    Moving = {"mongo", "postgres"}
    Backing = {"mongo"}
    Crossing = FALSE
    Writers <- OneWriter
    MaxWrites = 3
    MaxDrops = 1
    MaxRetries = 1
CHECK_DEADLOCK FALSE
INVARIANTS
    
    OneRowPerAdd
PROPERTIES
    Delivers
