SPECIFICATION Spec
CONSTANTS
    Hosts = {h1, h2}
    FilteredHosts = {h1, h2}
    Stmts = {s1, s2}
    Conns = {c1, c2, c3, c4}
    None = None
    FailoverModes = {"STRICT_WRITER", "STRICT_READER", "READER_OR_WRITER"}
    MultiThreaded = FALSE
    Queries <- MCQueries
    AppCalls = {"alloc", "free", "endtran", "disconnect"}
    MaxFaults = 1
SYMMETRY MCSymmetry
INVARIANTS
    TypeOK
    StatementsOnOpenConnection
    TransactionLossReported
    ReportedHostIsCurrent
    VerifiedRole
PROPERTIES
    ImplementsContract
