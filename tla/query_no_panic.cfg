\* Generic client with failed handshakes and broken links, no server Close
\* frame and no caller timeout: no query panics.
CONSTANTS
    DataActions <- GenericDataActions
    WhereActions <- GenericWhereActions
    Faults <- MC_FaultsNoClose
    MaxCalls = 4
    MaxConns = 3
SPECIFICATION Spec
INVARIANT QueryNeverPanics
\* disconnect on a broken link panics: a state with no successor.
CHECK_DEADLOCK FALSE
