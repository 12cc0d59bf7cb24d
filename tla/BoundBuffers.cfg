SPECIFICATION BufferSpec
CONSTANTS
    Columns = {k, m}
    Params = {p}
    AppBuffers = {b1, b2, b3}
    Rows = {r1}
    Texts = {t1, t2}
    LongTexts = {t2}
    ColumnKinds = {"narrow", "wide"}
    ParamKinds = {"narrow", "wide", "wide_output", "wide_unsized"}
    ExecutionCalls = {"prepared", "direct"}
    MayRefuse = {p}
    UsedTogether <- MCUsedTogether
    NullPtr = NullPtr
    Freed = Freed
SYMMETRY MCSymmetry
INVARIANTS
    DriverBuffersLive
    FetchDelivers
    PreparedExecutionConverts
