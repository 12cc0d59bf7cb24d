SPECIFICATION FairSpec
CONSTANTS
    h1 = h1
    h2 = h2
    Hosts = {h1, h2}
    Clients = {c1}
    Handles <- MCHandles
    FirstWriter = h1
    Scenarios <- MCLive
    Reachable = {h1, h2}
    Dialects = {"aurora"}
    MayDestroy = TRUE
    None = None
    Freed = Freed
    Broken = Broken
    Unnamed = Unnamed
PROPERTY PanicEnds
PROPERTY RequestServed
PROPERTY DestructorReturns
CHECK_DEADLOCK FALSE
