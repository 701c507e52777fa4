\* Two finishers, a cancel and two notifications race with the callback; one is refused.
CONSTANTS
    Kinds = {"io", "tcp", "sleep", "connect"}
    Finishers = {f1, f2}
    Cancellers = {c1}
    Notifiers = {n1, n2}
    MaxRefusals = 1
SPECIFICATION Spec
CHECK_DEADLOCK FALSE
INVARIANTS DescriptorConserved ConsumedOnce
PROPERTY AwaitReturns
