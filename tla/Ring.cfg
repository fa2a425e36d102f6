SPECIFICATION RingSpec
CONSTANTS
    Capacity = 16
    HeaderBytes = 4
    Wrap = 32
    Lengths = {0, 3, 12, 13}
    OutSizes = {3, 12}
INVARIANTS
    EntriesInOrder
    MemorySafe
