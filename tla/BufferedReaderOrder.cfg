\* A read is cancelled while its callback has bytes in hand.
CONSTANTS
    Modes = {"plain"}
    Capacity = 1
    Lengths = {1}
    MaxBytes = 2
    MaxReads = 2
SPECIFICATION ReaderSpec
INVARIANT StreamOrder
CHECK_DEADLOCK FALSE
