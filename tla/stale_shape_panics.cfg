\* A caller times out a query and its next query is of the other result
\* shape; no server close and no broken link.
CONSTANTS
    DataActions <- GenericDataActions
    WhereActions <- GenericWhereActions
    Faults <- MC_FaultsTimeout
    MaxCalls = 2
    MaxConns = 1
SPECIFICATION Spec
INVARIANT QueryNeverPanics
CHECK_DEADLOCK FALSE
