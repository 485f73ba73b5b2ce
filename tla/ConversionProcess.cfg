CONSTANTS
    Requests = {r1, r2}
    Cli = cli
    Uploads = {u1, u2}
    LogFiles = {f}
    NoFile = nofile
SPECIFICATION Spec
INVARIANTS
    LinesDeliveredOnce
    ServedLeavesNothing
    LogFileComplete
    AnsweredOnce
PROPERTIES
    EveryCallAnswered
\* the process idles when no caller calls
CHECK_DEADLOCK FALSE
