\* Any request of up to two interfaces with up to two addresses each, and its retry.
SPECIFICATION Spec
CONSTANTS
    Width = 3
    Interfaces = {"em0", "em0.21", "em1", "em;1"}
    BadNames = {"em;1"}
    Vlans = {"em0.21"}
    RouteNames = {"net1", "net2"}
    KeyOrder <- MCKeyOrder
    MAX_ALIASES = 1
    Files <- MCFiles
    Requests <- MCRequests
    MaxCmds = 1
    MaxTries = 2
INVARIANTS
    OthersUntouched
    RetryHarmless
    
    GatewayIsNeighbour
    WriteBackKeeps
