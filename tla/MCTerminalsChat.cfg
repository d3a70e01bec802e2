\* An approval in kama chat.
SPECIFICATION TerminalsSpec
CONSTANTS
    Commands <- MCCommands
    Sends <- MCSends
    OwnAsks = {"p"}
    OtherAsks = {}
    MaxOthers = 0
    MaxLines = 2
    MaxConnections = 1
    Kinds = {"chat"}
PROPERTIES
    ShownIsPrompted
CHECK_DEADLOCK FALSE
