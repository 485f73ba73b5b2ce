CONSTANTS
    MaxLines = 3
    MaxChunks = 1
    Files <- MCFiles
SPECIFICATION Spec
PROPERTY ParseEnds
CHECK_DEADLOCK FALSE
