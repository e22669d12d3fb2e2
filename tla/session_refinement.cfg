\* Generic client refining the session promise: failed handshakes and server
\* closes, links that never break, callers that wait.
CONSTANTS
    DataActions <- GenericDataActions
    WhereActions <- GenericWhereActions
    Faults <- MC_FaultsNoLink
    MaxCalls = 4
    MaxConns = 3
SPECIFICATION Spec
PROPERTY SessionSafety
\* A panic of an unwrap() ends the client's task: a state with no successor.
CHECK_DEADLOCK FALSE
