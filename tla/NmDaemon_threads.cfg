\* Two connections, one request each: the life of objects, threads and mutexes.
SPECIFICATION Spec
CONSTANTS
    Conns = {c1, c2}
    NoConn = NoConn
    Patient = c1
    Kinds = {"req"}
    MaxSend = 1
SYMMETRY ConnSymmetry
INVARIANTS
    WorkersExclusive
    NoUseAfterFree
    DrainedMeansQuiet
