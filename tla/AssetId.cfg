CONSTANTS
    Calls = {a1, a2, a3, a4}
    Absent = absent
    Empty = empty
    Nothing = nothing
SPECIFICATION IdSpec
INVARIANTS
    IdsVaryOnlyForCause
    SettledIdIsReported
\* every call may have ended
CHECK_DEADLOCK FALSE
