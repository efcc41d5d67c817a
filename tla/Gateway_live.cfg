SPECIFICATION FairGatewaySpec
CONSTANTS
    Sockets = {s1,s2,s3}
    Clients = {c1}
    None = None
    Collection = tasks
    Documents = {t1}
    Probes = TRUE
    SameObject = TRUE
    MaxCloses = 1
    MissedLimit = 2
    MaxChanges = 2
CHECK_DEADLOCK FALSE
INVARIANTS
    RefsMatch
    NoLeak
    MissedArrives
PROPERTIES
    GoneIsForgotten
    ConnectedKeepsRefs
    GatewayKeepsSubscriptions
