\* Generic client with every fault but a broken link: disconnect never
\* panics, callers that time out included.
CONSTANTS
    DataActions <- GenericDataActions
    WhereActions <- GenericWhereActions
    Faults <- MC_FaultsNoBreak
    MaxCalls = 3
    MaxConns = 3
SPECIFICATION Spec
INVARIANT DisconnectNeverPanics
\* A query reading a Close frame panics: a state with no successor.
CHECK_DEADLOCK FALSE
