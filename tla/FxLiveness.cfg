SPECIFICATION FairSpec
CONSTANTS
    e1 = e1
    e2 = e2
    d1 = d1
    d2 = d2
    a = a
    b = b
    cep1 = cep1
    cep2 = cep2
    cep3 = cep3
    k1 = k1
    k2 = k2
    Entities = {e1, e2}
    Outputs <- MCOutputs
    Inputs <- MCInputs
    Names = {cep1, cep2, cep3}
    AutoNames <- MCLongAutoNames
    PeerKeys = {k1, k2}
    OwnerTag <- MCOwnerTag
    StaticTag = StaticTag
    StaticWriters = {}
    StaticReaders = {k2}
    MaxEndpointsPerEntity = 1
    MaxPoisoned = 1
    NoName = NoName
    NoDraft = NoDraft
    Idle = Idle
INVARIANT
    AutoNameAvailable
PROPERTIES
    CallsReturn
    DataMakesOperational
