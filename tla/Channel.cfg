SPECIFICATION ChannelSpec
CONSTANTS
    Senders = {s1, s2}
    Receivers = {r1, r2}
    Capacity = 1
    Timeouts = {"zero", "finite", "forever"}
    MaxSeq = 2
    Connectors = {c1}
    Casts = {{s1, s2}, {r1, r2}, {s1, r1}, {s1, c1}, {r1, c1}}
    Faults = {"uri", "unreachable", "network"}
    TcpSeq = 2
    MaxIn = 1
CHECK_DEADLOCK FALSE
INVARIANTS
    Accounted
    DeliveredInOrder
    NoLostWakeup
    ClosedStaysDown
    FramesExact
    NumbersAscend
    TimeoutIsOwn
PROPERTY
    CloseUnblocks
