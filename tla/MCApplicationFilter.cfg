SPECIFICATION Spec
CONSTANTS
    Segments <- MCSegments
    Declarations <- MCDeclarations
    Vs <- MCVs
    Targets <- MCTargets
INVARIANTS ReferencesMoveAlong GivesUpOnlyForCause
PROPERTIES FindsTheReachable SearchEnds
CHECK_DEADLOCK FALSE
