\* The link breaks after disconnect has taken the connection, while its
\* close() is pending.
CONSTANTS
    DataActions <- GenericDataActions
    WhereActions <- GenericWhereActions
    Faults <- MC_FaultsLink
    MaxCalls = 1
    MaxConns = 1
SPECIFICATION Spec
INVARIANT DisconnectNeverPanics
CHECK_DEADLOCK FALSE
