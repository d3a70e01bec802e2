\* The three terminal clients.
SPECIFICATION TerminalsSpec
CONSTANTS
    Commands <- MCCommands
    Sends <- MCSends
    OwnAsks = {"p"}
    OtherAsks = {}
    MaxOthers = 1
    MaxLines = 2
    MaxConnections = 1
    Kinds = {"tui", "chat", "run"}
INVARIANTS
    TerminalsTypeOK
    EachAnswered
PROPERTIES
    TurnEnds
CHECK_DEADLOCK FALSE
