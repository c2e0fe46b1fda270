SPECIFICATION Spec
CONSTANTS
    e1 = e1
    e2 = e2
    d1 = d1
    d2 = d2
    a = a
    b = b
    cep1 = cep1
    cep2 = cep2
    cep3 = cep3
    k1 = k1
    k2 = k2
    Entities = {e1, e2}
    Outputs <- MCOutputs
    Inputs <- MCInputs
    Names = {a, b}
    AutoNames <- MCNoAutoNames
    PeerKeys = {k1, k2}
    OwnerTag <- MCSlashOwnerTag
    StaticTag = StaticTag
    StaticWriters = {}
    StaticReaders = {}
    MaxEndpointsPerEntity = 2
    MaxPoisoned = 1
    NoName = NoName
    NoDraft = NoDraft
    Idle = Idle
INVARIANT
    DataPlaneMatches
