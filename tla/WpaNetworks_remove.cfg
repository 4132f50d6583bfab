SPECIFICATION Spec
CONSTANTS
    SSIDs <- MCSSIDs
    Within <- MCWithin
    Ids = {1, 2, 10}
    MaxCmds = 1
    MaxLost = 1
INVARIANT RemovesNamed
