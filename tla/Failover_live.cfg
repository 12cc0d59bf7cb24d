SPECIFICATION LiveSpec
CONSTANTS
    Hosts = {h1, h2}
    FilteredHosts = {h1, h2}
    Stmts = {s1}
    Conns = {c1, c2, c3}
    None = None
    FailoverModes = {"STRICT_READER", "READER_OR_WRITER"}
    MultiThreaded = FALSE
    Queries <- MCAutoCommitQueries
    AppCalls = {"alloc", "autocommit"}
    MaxFaults = 1
PROPERTIES
    ExecuteReturns
