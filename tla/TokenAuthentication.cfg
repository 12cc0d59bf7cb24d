\* Two connections that authenticate in each of the pairs of ways.
SPECIFICATION Spec
CONSTANTS
    a = a
    b = b
    Conns = {a, b}
    Interactive = {a}
    Requests = {"code", "saml", "cut_off"}
    MaxEpoch = 2
    None = None
    MaxCalls = 3
    Setups <- MCSetups
INVARIANTS OneExchange CacheFileWhole ListenersJoined RefusedIsRenewed
PROPERTIES ConnectReturns
CHECK_DEADLOCK FALSE
