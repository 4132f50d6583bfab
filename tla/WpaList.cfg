CONSTANTS
    Ids = {1, 2}
    SuppParamNames <- MCSuppParamNames
    MaxLeft = 1
    MaxClashes = 1
    MaxStops = 1
SPECIFICATION Spec
INVARIANTS
    TypeOK
    DetailsTrue
    InternalHasCause
PROPERTY ListEnds
