\* Generic client, every fault kind: the requests its query writes have the
\* data and where fields spec section 8 documents for their action.
CONSTANTS
    DataActions <- GenericDataActions
    WhereActions <- GenericWhereActions
    Faults <- MC_FaultsAll
    MaxCalls = 3
    MaxConns = 2
SPECIFICATION Spec
INVARIANT EnvelopeShape
\* A panic of an unwrap() ends the client's task: a state with no successor.
CHECK_DEADLOCK FALSE
