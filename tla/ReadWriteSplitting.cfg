SPECIFICATION Spec
CONSTANTS
    Handles = {h1, h2, h3, h4}
    Statements = {s1, s2}
    Plugins = {"topology", "endpoints", "verified"}
    KeepAlive = TRUE
    Attempts = 2
    None = None
SYMMETRY MCSymmetry
INVARIANTS
    NoOrphanedConnections
    StatementsOnMain
PROPERTIES
    TransactionStaysOnConnection
