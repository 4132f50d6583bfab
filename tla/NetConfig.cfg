\* One command, with an act of a DHCP client or of another tool at any step.
SPECIFICATION Spec
CONSTANTS
    Ifs <- MCIfs
    Within <- MCWithin
    Via <- MCVia
    Addrs = {"a", "b"}
    Gateways = {"gw1", "gw10"}
    Nets = {"net"}
    None = "None"
    Localhost = "127.0.0.1"
    MEDIA_STATUS_MAX_RETRIES = 2
    MaxCmds = 1
    MaxActs = 1
INVARIANTS
    TypeOK
    DisabledNotDefault
    ClientStopped
    LosesOnlyMain
    ListsTruthful
PROPERTIES
    SetKeepsRoute
    IfCommandEnds
