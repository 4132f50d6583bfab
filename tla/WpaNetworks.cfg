SPECIFICATION Spec
CONSTANTS
    SSIDs <- MCSSIDs
    Within <- MCWithin
    Ids = {1, 2, 10}
    MaxCmds = 2
    MaxLost = 1
INVARIANTS
    TypeOK
    
    RemoveExact
    ConnectOrders
