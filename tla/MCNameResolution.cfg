CONSTANTS
    x = x
    y = y
    n = n
    default = default
    Bases = {x, y, n, default}
    Numeric = {n}
    Params = {p}
    Defaults <- MCDefaults
    NoParent = noparent
    Configs <- MCConfigs
SPECIFICATION Spec
INVARIANTS
    NamesAreUnique
    RefsFollow
    InheritedInAnyOrder
\* the passes return
CHECK_DEADLOCK FALSE
