\* Who waits for which sub-agent, and who is told what of it.
SPECIFICATION AgentsSpec
CONSTANTS
    r1 = r1
    NoAgent = NoAgent
    Runs <- MCRuns
    Children = {1, 2, 3}
    MaxRetries = 1
INVARIANTS
    AgentsTypeOK
    ForegroundNested
    RetriesFailuresOnly
PROPERTIES
    AnswersStayFinal
    RunNotHeldUp
CHECK_DEADLOCK FALSE
