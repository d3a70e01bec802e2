\* Automatic compaction on: what the next run finds in the thread.
SPECIFICATION ConversationSpec
CONSTANTS
    MaxSteps = 2
    AutoModes = {TRUE}
    MaxMessages = 3
    MaxCalls = 1
INVARIANTS
    RequestValid
CHECK_DEADLOCK FALSE
