\* MCP calls, the trace and the shutdown.
SPECIFICATION DaemonSpec
CONSTANTS
    a = a
    s = s
    Boot = Boot
    NoCaller = NoCaller
    Callers <- MCCallers
    OneShot <- MCOneShot
    MaxRetries = 1
    MaxId = 4
    OwnLines = {0, 2, 3}
    MaxUnread = 1
INVARIANTS
    DaemonTypeOK
    TraceWhole
PROPERTIES
    AnswersOwn
    DaemonStops
CHECK_DEADLOCK FALSE
