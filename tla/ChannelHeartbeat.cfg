SPECIFICATION Spec
CONSTANTS
    Senders = {s1}
    Receivers = {r1}
    Capacity = 1
    Timeouts = {"finite"}
    MaxSeq = 2
CHECK_DEADLOCK FALSE
INVARIANT
    HeartbeatNeverDropped
