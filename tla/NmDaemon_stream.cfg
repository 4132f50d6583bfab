\* One connection with a stream of up to two pieces of any kind of text, under
\* fairness: what is on the wire, what is executed, and how everything ends.
SPECIFICATION FairSpec
CONSTANTS
    Conns = {c1}
    NoConn = NoConn
    Patient = c1
    Kinds = {"req", "bad", "ws", "nul"}
    MaxSend = 2
INVARIANTS
    FramesWhole
    ServedInOrder
PROPERTIES
    ShutdownBounded
    ConnectionReclaimed
