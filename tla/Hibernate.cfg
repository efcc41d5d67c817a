SPECIFICATION HibernateSpec
CONSTANTS
    Sockets = {s1, s2, s3}
    Clients = {c1}
    Refs = {r1, r2}
    None = None
    ClosesLate = FALSE
    MaxCloses = 1
    MaxEvictions = 2
CHECK_DEADLOCK FALSE
INVARIANTS
    RegistryInv
    NewestIsConnected
PROPERTIES
    HibernateKeepsSubscriptions
    HibernateForgets
