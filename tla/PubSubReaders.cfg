SPECIFICATION Spec
CONSTANTS
    c1 = c1
    c2 = c2
    k1 = k1
    k2 = k2
    a1 = a1
    a2 = a2
    t1 = t1
    t2 = t2
    Coords = {}
    Keys = {k1, k2}
    Addrs = {a1, a2}
    Tags = {t1, t2}
    StaticTag = StaticTag
    Config <- MCReaderConfig
    MaxObjects = 2
    SeqModulus = 2
    None = None
SYMMETRY MCTagSymmetry
INVARIANTS
    ReceiverAccounting
PROPERTIES
    DataPlaneRefined
    NoStaleDelivery
    FailureLeavesNoChange
