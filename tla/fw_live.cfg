SPECIFICATION FairSpec
CONSTANTS
    Url = {"u1", "u2"}
    BadUrl = {}
    SrvType = {"t1"}
    Scope = {"A", "B"}
    Peer = {"lo", "agent"}
    Loopback = {"lo"}
    Family <- MCFamily
    Xid = {0, 1, 2, 3}
    Pid = {}
    MaxLifetime = 5
    AgeInterval = 2
    CheckSourceAddr = TRUE
    UseScopes = {"A", "B"}
    IsDA = FALSE
    AgentAddr = "agent"
    RegMsg <- OneService
    DeregMsg = {}
    Multicast = {TRUE, FALSE}
    StaticRegs <- NoStatic
    Da = {"d1"}
    DaScopes <- MCDaScopes
    PassiveDADetection = TRUE
    ActiveDiscovery = FALSE
    StaleDADetection = TRUE
    Timeouts <- DefaultTimeouts
    Signals = {}
    Ports = {1}
    MaxBoot = 2
INVARIANTS
    RegisteredOrPending
PROPERTIES
    ServicesReachTheDA
