SPECIFICATION Spec
CONSTANTS
    c1 = c1
    c2 = c2
    lo = lo
    eth = eth
    Client <- MCClient
    Server <- MCServer
    Plans <- MCPlans
    ReplyLength <- MCReplyLength
    Header = 1
    LowWater = 2
    Addr <- MCAddr
    Loopback <- MCLoopback
    Interfaces <- MCInterfaces
    IPv6 <- MCIPv6
    LinkLocal <- MCIPv6
    IsDA = FALSE
    MayFail <- MCMayFail
    MaxSockets = 7
    ComfortSockets = 6
    CloseConn = 1
    BusyCloseConn = 0
    StartQuiet = TRUE
    MaxHup = 1
CHECK_DEADLOCK FALSE
INVARIANTS
    Framed
PROPERTIES
    IdleConnectionsClose
    WaitingIsAccepted
    AlarmAndTermAreHeeded
