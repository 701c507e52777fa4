\* Two threads, two descriptors, and the programs of MCResourceOwner.
CONSTANTS
    t1 = t1  t2 = t2  r1 = r1  r2 = r2
    Threads = {t1, t2}
    Main = t1
    Resources = {r1, r2}
    Descriptors = {r1, r2}
    MaxOwners = 4
    MaxId = 2
    MaxDepth = 2
    DefaultLimits <- Wide
    ScopeLimits <- Narrow
    Programs <- Workloads
SPECIFICATION Spec
CHECK_DEADLOCK FALSE
INVARIANTS ResourceKept CountersExact
PROPERTY ShutdownReleases
