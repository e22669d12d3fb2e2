\* A caller times out a query; the next query returns the late response.
CONSTANTS
    DataActions <- GenericDataActions
    WhereActions <- GenericWhereActions
    Faults <- MC_FaultsTimeout
    MaxCalls = 2
    MaxConns = 1
SPECIFICATION Spec
INVARIANT ResponseMatchesRequest
CHECK_DEADLOCK FALSE
