\* Two workers; a task with a select may be cancelled; one attach failure.
CONSTANTS
    a = a  b = b  x = x  y = y  w1 = w1  w2 = w2
    Tasks = {a, b}
    Ops = {x, y}
    Workers = {w1, w2}
    Awaits <- MCAwaits
    Cancellable = {a}
    MaxAttachFailures = 1
SPECIFICATION Spec
INVARIANTS OneContinuation TaskKept
PROPERTY TasksFinish
CHECK_DEADLOCK FALSE
