\* Three accepts, one of them cancellable, two connections and one failure; reads of both
\* kinds, of nothing, less and more than the buffer holds.
CONSTANTS
    Ops = {o1, o2, o3}
    Cancellers = {o1}
    MaxConns = 2
    MaxErrors = 1
    Modes = {"plain", "exact"}
    Capacity = 2
    Lengths = {0, 1, 2, 3}
    MaxBytes = 3
    MaxReads = 2
SPECIFICATION BenchSpec
CHECK_DEADLOCK FALSE
INVARIANTS BytesKept ConnectionKept
PROPERTIES ReadReturns CloseReleases
