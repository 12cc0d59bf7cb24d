SPECIFICATION Spec
CONSTANTS
    Instances = {i1}
    StartPhases = {"NOT_CREATED"}
    MaxDeployments = 1
    MaxIncidents = 1
    None = None
INVARIANTS
    PostRoutesAddressed
PROPERTIES
    CompletedOnlyWhenSettled
    MonitorsDoNotOverlap
CHECK_DEADLOCK FALSE
