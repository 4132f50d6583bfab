\* One client that stays and one that does anything, one request each: no
\* client starves another, and the two together see the serial RequestServer.
SPECIFICATION Undisturbed
CONSTANTS
    Conns = {c1, c2}
    NoConn = NoConn
    Patient = c1
    Kinds = {"req"}
    MaxSend = 1
PROPERTIES
    AnsweredIfClientStays
    ImplementsServer
