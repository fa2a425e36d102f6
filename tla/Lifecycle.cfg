SPECIFICATION FairLifeSpec
CONSTANTS
    Threads = {c1, c2, c3}
    Overlap = FALSE
    MaxStarts = 4
CHECK_DEADLOCK FALSE
INVARIANTS
    QuietConsistent
PROPERTY
    CallsReturn
