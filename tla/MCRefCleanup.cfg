CONSTANTS
    Refs = {pool, missing, local}
    Existing = {pool}
    Relative = {local}
    Plain = plain
    MaxProperties = 2
    MaxElems = 3
    Declarations <- MCDeclarations
SPECIFICATION Spec
INVARIANTS
    OnlyDanglingRemoved
    RefPropertiesClean
\* the cleanup returns
CHECK_DEADLOCK FALSE
