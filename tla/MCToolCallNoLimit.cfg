\* timeout_s = 0: a lost client leaves the approval hanging.
SPECIFICATION CallSpec
CONSTANTS
    Sessions = {"s1"}
    Requests = {r1}
    Tools <- MCTools
    Bash = "bash"
    Default <- MCDefault
    Calls <- MCCalls
    Answers = {"allow_once", "always_deny"}
    InitialFile <- MCInitialFile
    Timed = FALSE
    MaxRetries = 2
PROPERTIES
    DisconnectReleases
CHECK_DEADLOCK FALSE
