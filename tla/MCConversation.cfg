\* Whatever interrupts the runs, with and without automatic compaction.
SPECIFICATION ConversationSpec
CONSTANTS
    MaxSteps = 2
    AutoModes = {TRUE, FALSE}
    MaxMessages = 3
    MaxCalls = 2
INVARIANTS
    ConversationTypeOK
    PlainRequestValid
    AsksLatest
    OutcomeHonest
    SaidInOrder
PROPERTIES
    RunEnds
CHECK_DEADLOCK FALSE
