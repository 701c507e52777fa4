\* Two senders with two messages each, a handler that sends to itself, a failure.
CONSTANTS
    Senders = {s1, s2}
    Stoppers = {p1}
    Joiners = {j1, j2}
    MaxSends = 2
    MaxSelfSends = 1
    MaxFailures = 1
SPECIFICATION Spec
CHECK_DEADLOCK FALSE
INVARIANTS MessagesHandled
PROPERTY JoinsReturn
