\* Signals at any point of the accept loop.
SPECIFICATION FairSpec
CONSTANTS
    Conns = {c1}
    NoConn = NoConn
    Patient = c1
    Kinds = {"req"}
    MaxSend = 1
PROPERTIES
    SignalEndsProcess
