\* Legacy client against the generic client with the legacy wrapper table;
\* every fault kind, callers with timeouts included.
CONSTANTS
    Faults <- MC_LegacyFaults
    MaxCalls = 3
    MaxConns = 2
SPECIFICATION Spec
PROPERTY ImplementsClient
\* A panic of an unwrap() ends the client's task: a state with no successor.
CHECK_DEADLOCK FALSE
