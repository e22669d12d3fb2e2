\* Generic client under every fault, callers that time out included.
CONSTANTS
    DataActions <- GenericDataActions
    WhereActions <- GenericWhereActions
    Faults <- MC_FaultsAll
    MaxCalls = 3
    MaxConns = 2
SPECIFICATION FairSpec
PROPERTY CallReturns
CHECK_DEADLOCK FALSE
