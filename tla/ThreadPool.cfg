SPECIFICATION FairSpec
CONSTANTS
    w1 = w1
    w2 = w2
    u1 = u1
    j1 = j1
    j2 = j2
    j3 = j3
    m1 = m1
    Workers = {w1, w2}
    Users = {u1}
    Jobs = {j1, j2, j3}
    Mutexes = {m1}
    JobMutex <- MCJobMutex
    MaxJobs = 2
    None = None
INVARIANTS
    JobsConserved
    NothingSurvives
PROPERTIES
    DestructorReturns
    NoHeadOfLineBlocking
    MutexJobServed
