\* Two connections that share the monitor of the routers and the topology.
SPECIFICATION Spec
CONSTANTS
    a = a
    b = b
    x = x
    y = y
    Conns = {a, b}
    Hosts = {x, y}
    None = None
    RouterLists <- MCRouterLists
    MaxRouterRetries = 1
    MaxConnectRetries = 2
    MaxCalls = 4
    MaxFailovers = 1
    Setups <- MCSetups
INVARIANTS NoConnectionLeft MonitorForEveryService RoundRobinIsFair
CHECK_DEADLOCK FALSE
