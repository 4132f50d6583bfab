\* Two commands, so that the second meets what the first has left behind.
SPECIFICATION FairSpec
CONSTANTS
    MaxCmds = 2
    MaxEvents = 2
    MaxStops = 1
INVARIANT TypeOK
INVARIANT SelectTruthful
INVARIANT NetworksRestored
PROPERTY CommandEnds
