SPECIFICATION RetrySpec
CONSTANTS
    Url = {"u1", "u2"}
    BadUrl = {}
    SrvType = {"t1"}
    Scope = {"A", "B"}
    Peer = {"lo", "agent"}
    Loopback = {"lo"}
    Family <- MCFamily
    Xid = {0, 1, 2, 3}
    Pid = {}
    MaxLifetime = 5
    AgeInterval = 2
    CheckSourceAddr = TRUE
    UseScopes = {"A", "B"}
    IsDA = FALSE
    AgentAddr = "agent"
    RegMsg <- OneService
    DeregMsg <- Withdrawals
    Multicast = {TRUE, FALSE}
    StaticRegs <- OneStatic
    Da = {"d1"}
    DaScopes <- MCDaScopes
    PassiveDADetection = TRUE
    ActiveDiscovery = TRUE
    StaleDADetection = TRUE
    Timeouts <- ShortTimeouts
    Signals = {"HUP", "TERM"}
    Ports = {1, 2}
    MaxBoot = 1
CONSTRAINT TightNetBound
CHECK_DEADLOCK FALSE
PROPERTIES
    SocketsClose
    UnansweredIsForgotten
