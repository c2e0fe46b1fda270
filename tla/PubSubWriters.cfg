SPECIFICATION FairSpec
CONSTANTS
    c1 = c1
    c2 = c2
    k1 = k1
    k2 = k2
    a1 = a1
    a2 = a2
    t1 = t1
    t2 = t2
    Coords = {c1}
    Keys = {}
    Addrs = {}
    Tags = {t1, t2}
    StaticTag = StaticTag
    Config <- MCWriterConfig
    MaxObjects = 2
    SeqModulus = 2
    None = None
INVARIANTS
    TypeOK
    CoordinatesUnique
PROPERTIES
    RemovedIsSilent
    KeepsPublishing
    RemovedIsDestroyed
