CONSTANTS
    Requests = {r1}
    Cli = cli
    Uploads = {u1}
    LogFiles = {f}
    NoFile = nofile
SPECIFICATION Spec
INVARIANT OwnLicense
\* the process idles when no caller calls
CHECK_DEADLOCK FALSE
