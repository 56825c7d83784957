SPECIFICATION UserAgentSpec
CONSTANTS
    d1 = d1  d2 = d2  s1 = s1  local = local
    a = a  b = b  none = none  nomore = nomore
    DA <- MCDA  SA <- MCSA  Local <- local
    Scope <- MCScope  Scopes <- MCScopes  Big <- MCBig
    Calls <- MCCalls  MaxCalls = 2
    MaxXmit = 2  Groups = 1  MaxResults = 1  MaxDups = 1  MaxSwitches = 2
    TcpMayFail = FALSE
    None <- none  NoMore <- nomore
INVARIANTS AnswersAreMine EndsAsPromised EveryScopeIsAsked
PROPERTY CallsReturn
CHECK_DEADLOCK FALSE
