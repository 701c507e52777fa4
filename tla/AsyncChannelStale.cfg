\* Two senders wait behind a permit; one is cancelled while it registers.
CONSTANTS
    Capacity = 1
    Tasks = {s1, s2, p1}
    Threads = {}
    Senders = {s1, s2}
    TrySenders = {}
    Reservers = {p1}
    Receivers = {}
    Cancellable = {s1}
    Closers = {}
SPECIFICATION Spec
PROPERTY NobodyStranded
CHECK_DEADLOCK FALSE
