\* Two sessions that answer differently and a third call that meets what
\* their answers left in the caches and in policy.toml.
SPECIFICATION Spec
CONSTANTS
    Sessions = {"s1", "s2"}
    Requests = {r1, r2, r3}
    Tools <- MCTools
    Bash = "bash"
    Default <- MCDefault
    Calls <- MCCalls
    Answers = {"always_allow", "always_deny"}
    InitialFile <- MCInitialFile
    Timed = TRUE
SYMMETRY Symmetry
INVARIANTS
    TypeOK
    WaiterReachable
    StoresBacked
    GrantJustified
PROPERTIES
    SessionDenyHolds
    ImplementsApproval
\* Every request may be over.
CHECK_DEADLOCK FALSE
