SPECIFICATION FairSpec
CONSTANTS
    t1 = t1
    t2 = t2
    k = k
    a = a
    b = b
    s = s
    x = x
    Threads = {t1, t2}
    Configurations <- MCConfigurations
    Names = {k, a, b, s, x}
    Data <- MCData
    ValueFormula <- Sum
    StatusFormula <- Sum
    Null = Null
    None = None
INVARIANTS
    CalculationExclusive
    SynchronizersMatchGraph
    SettledConsistent
PROPERTIES
    SettersReturn
CHECK_DEADLOCK FALSE
