\* Generic client; server closes, broken links, failed handshakes; no timeouts.
CONSTANTS
    DataActions <- GenericDataActions
    WhereActions <- GenericWhereActions
    Faults <- MC_FaultsNoTimeout
    MaxCalls = 4
    MaxConns = 3
SPECIFICATION FairSpec
INVARIANT TypeOK
INVARIANT ResponseMatchesRequest
INVARIANT SingleOutstanding
PROPERTY CallReturns
\* A panic of an unwrap() ends the client's task: a state with no successor.
CHECK_DEADLOCK FALSE
