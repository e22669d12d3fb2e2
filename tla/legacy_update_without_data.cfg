\* The legacy client sends updateUnique/updateMany requests.
CONSTANTS
    Faults <- MC_LegacyFaults
    MaxCalls = 1
    MaxConns = 1
SPECIFICATION Spec
INVARIANT EnvelopeShape
\* A panic of an unwrap() ends the client's task: a state with no successor.
CHECK_DEADLOCK FALSE
