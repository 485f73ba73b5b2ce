CONSTANTS
    MaxLines = 3
    MaxChunks = 3
    Files <- MCFiles
SPECIFICATION Spec
INVARIANTS
    GroupsDisjoint
    NoHeaderLost
    NoRuleSwallowed
    GroupsAreObjects
PROPERTY RegularParses
\* the parse stops when it has returned or thrown
CHECK_DEADLOCK FALSE
