\* Clients that send, close and compact at the same time, with every failure
\* between their steps.
SPECIFICATION MCSessionSpec
CONSTANTS
    Sessions = {"s1", "s2"}
    Requests = {q1, q2, q3}
    Free = Free
INVARIANTS
    SessionTypeOK
    ExchangesWhole
    MetaKeepsUp
PROPERTIES
    SummaryIsCurrent
    BusyEnds
    ImplementsDialogue
\* Every request may be over.
CHECK_DEADLOCK FALSE
