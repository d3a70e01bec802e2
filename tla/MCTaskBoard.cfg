\* Completion and dependencies on one board.
SPECIFICATION BoardSpec
CONSTANTS
    MaxTasks = 3
PROPERTIES
    CompletionsFree
CHECK_DEADLOCK FALSE
