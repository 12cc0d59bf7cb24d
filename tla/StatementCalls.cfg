CHECK_DEADLOCK FALSE
SPECIFICATION Spec
CONSTANTS
    s1 = s1
    s2 = s2
    d1 = d1
    d2 = d2
    Statements = {s1, s2}
    Descriptors = {d1, d2}
    Values = {v, w}
    Names = {n, u}
    Ascii = {n}
    Garbled = Garbled
    Refused = {w}
    Missing = {"SQLSetScrollOptions", "SQLTablePrivileges", "SQLSetDescRec"}
    UsedTogether <- MCUsedTogether
    Configured = {s1}
    MaxFailovers = 2
    MaxUnnamed = 1
    None = None
INVARIANTS
    ListedHandlesLive
    DiagnosticsCurrent
    SettingsKept
