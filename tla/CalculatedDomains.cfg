SPECIFICATION Spec
CONSTANTS
    t1 = t1
    t2 = t2
    k = k
    a = a
    b = b
    s = s
    x = x
    Threads = {t1, t2}
    Configurations <- MCDocumented
    Names = {k, a, b, s, x}
    Data <- MCData
    ValueFormula <- Sum
    StatusFormula <- Sum
    Null = Null
    None = None
INVARIANTS
    CalculationExclusive
