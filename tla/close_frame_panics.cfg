\* The server closes the socket while a query waits for its response.
CONSTANTS
    DataActions <- GenericDataActions
    WhereActions <- GenericWhereActions
    Faults <- MC_FaultsClose
    MaxCalls = 1
    MaxConns = 1
SPECIFICATION Spec
INVARIANT QueryNeverPanics
CHECK_DEADLOCK FALSE
