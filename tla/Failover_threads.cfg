SPECIFICATION Spec
CONSTANTS
    Hosts = {h1, h2}
    FilteredHosts = {h1, h2}
    Stmts = {s1, s2}
    Conns = {c1, c2, c3, c4}
    None = None
    FailoverModes = {"STRICT_WRITER"}
    MultiThreaded = TRUE
    Queries <- MCThreadQueries
    AppCalls = {"alloc", "free"}
    MaxFaults = 2
SYMMETRY MCSymmetry
CHECK_DEADLOCK FALSE
INVARIANTS
    VisitedStatementsExist
