\* Two concurrent runs, two connections, c1 subscribed from the start.
SPECIFICATION MCFanoutSpec
CONSTANTS
    Runs = {"a", "b"}
    Connections = {c1, c2}
    Listener = c1
    Scopes <- MCScopes
    Final <- MCFinal
    Refused <- MCRefused
INVARIANTS
    FanoutTypeOK
    StreamInOrder
    SubscriberComplete
    FileComplete
PROPERTIES
    RunsEnd
\* All runs end.
CHECK_DEADLOCK FALSE
