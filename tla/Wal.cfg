SPECIFICATION Spec
CONSTANTS
    Settings <- MCSettings
    MaxAttempts = 4
CHECK_DEADLOCK FALSE
INVARIANTS
    SeqOrder
    NextSeqAbove
    EntriesBounded
    SafeReadable
    LiveExact
PROPERTY
    ImplementsDurableLog
