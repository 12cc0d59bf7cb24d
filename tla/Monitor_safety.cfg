SPECIFICATION Spec
CONSTANTS
    h1 = h1
    h2 = h2
    Hosts = {h1, h2}
    Clients = {c1}
    Handles <- MCHandles
    FirstWriter = h1
    Scenarios <- MCSafety
    Reachable = {h1, h2}
    Dialects = {"aurora", "multi_az"}
    MayDestroy = FALSE
    None = None
    Freed = Freed
    Broken = Broken
    Unnamed = Unnamed
INVARIANT TypeOK
INVARIANT HandlesOwnedOnce
INVARIANT NoHandleLeaks
INVARIANT WriterHandoffComplete
INVARIANT MainConnMatchesWriterHost
CHECK_DEADLOCK FALSE
