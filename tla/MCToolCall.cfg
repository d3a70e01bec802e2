\* Calls with a time limit on approvals: they all end.
SPECIFICATION CallSpec
CONSTANTS
    Sessions = {"s1"}
    Requests = {r1, r2}
    Tools <- MCTools
    Bash = "bash"
    Default <- MCDefault
    Calls <- MCCalls
    Answers = {"allow_once", "always_allow", "always_deny", "other"}
    InitialFile <- MCInitialFile
    Timed = TRUE
    MaxRetries = 2
INVARIANTS
    ToolCallTypeOK
    RunsOnlyApproved
    TimelineClosed
PROPERTIES
    CallEnds
CHECK_DEADLOCK FALSE
