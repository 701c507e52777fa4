\* The actors of the two casts of MCAsyncChannel; only p1 may be cancelled.
CONSTANTS
    p1 = p1  r1 = r1  r2 = r2  s1 = s1  s2 = s2
    Capacity = 1
    Tasks = {p1, r1, r2}
    Threads = {s1, s2}
    Senders = {s2}
    TrySenders = {s1}
    Reservers = {p1}
    Receivers = {r1, r2}
    Cancellable = {p1}
    Closers = {"sender", "receiver"}
SPECIFICATION BenchSpec
CHECK_DEADLOCK FALSE
INVARIANT NoLostWake
PROPERTIES RefinesBoundedChannel PermitsReturn NobodyStranded
