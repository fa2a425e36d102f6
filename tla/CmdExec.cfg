SPECIFICATION NodesSpec
CONSTANTS
    Callers = {c1, c2}
    Overlap = FALSE
    ReloadStopped = FALSE
    MaxStarts = 2
    PortCapacity = 1
    Verdicts = {"ok", "INVALID_ARG", "BIZ_AUTH_UNTRUSTED"}
    Capacity = 1
    MaxOut = 2
    MaxErr = 2
    Faults = {"pipe1", "pipe2", "spawn", "read", "inherit"}
    MaxCalls = 2
    Kinds = {"cmd_exec", "file_xfer", "net_info"}
    Chunks <- MCChunks
    Unsafe = {"data/.."}
    Roots = {"data"}
    StartsWith <- MCStartsWith
    LongMax = 4
    DiskFaults = {"open", "reopen", "short"}
    ChunkCapacity = 2
    MaxChunks = 2
    QueryCapacity = 2
    SetCapacity = 1
    MaxSets = 2
CHECK_DEADLOCK FALSE
INVARIANTS
    QuietConsistent
    
    DescriptorsClosed
    StoredAsAcked
PROPERTIES
    StopReturns
    AllServed
