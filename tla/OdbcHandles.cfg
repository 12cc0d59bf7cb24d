CHECK_DEADLOCK FALSE
SPECIFICATION Spec
CONSTANTS
    Threads = {t1, t2}
    Connections = {c1, c2}
    Values = {v, refused, text}
    Refused = {refused}
    Strings = {text}
    Garbled = Garbled
    Libraries = {lib, wide, broken}
    Broken = {broken}
    Foreign = {wide}
    Alone = {refused, text, wide, Garbled}
    None = None
SYMMETRY MCSymmetry
INVARIANTS
    VisitedConnectionsExist
    OnlyEndTranDeadlocks
    ConnectFailureTold
PROPERTIES
    ConnectsWithSettings
