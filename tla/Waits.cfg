\* Three receivers race for three sends; arms of two sources and of one meet a stolen event.
CONSTANTS
    Receivers = {r1, r2, r3}
    Values = {v1, v2}
    MaxSends = 3
    Drivers = {"block", "task"}
    Bias = {TRUE, FALSE}
    Arms = 2
    Stages <- MCStages
    Workers = {w1, w2}
    MaxEvents = 3
    MaxSteals = 1
    MaxFailures = 1
    MaxAborts = 1
SPECIFICATION BenchSpec
CHECK_DEADLOCK FALSE
INVARIANTS DeliveredInOrder NoLostSignal OneArmWins
PROPERTY WaitersReturn
