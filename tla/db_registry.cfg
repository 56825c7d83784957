SPECIFICATION FairSpec
CONSTANTS
    Url = {"u1", "u2", "bad"}
    BadUrl = {"bad"}
    SrvType = {"t1", "t2"}
    Scope = {"A", "B", "C"}
    Peer = {"lo", "h1", "h2", "h6"}
    Loopback = {"lo"}
    Family <- MCFamily
    Xid = {0}
    Pid = {"p1"}
    MaxLifetime = 5
    AgeInterval = 2
    CheckSourceAddr = TRUE
    UseScopes = {"A", "B"}
    IsDA = TRUE
    IPv6 = TRUE
    Group <- MCGroup
    RegMsg <- KeptScopes
    DeregMsg <- KeptScopesDereg
    RegRecord <- MCRegRecord
    BadRecord = BadRecord
    RegFile <- MCRegFile
CONSTRAINT ListeningBound
INVARIANTS
    MortalStaysMortal
    OneRegistrationPerService
PROPERTIES
    OnlyTheRegistrantReplaces
    ImplementsRegistry
    DeregKeepsListening
    OrphansWithdrawn
    UnrefreshedExpire
