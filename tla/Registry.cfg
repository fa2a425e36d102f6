SPECIFICATION Spec
CONSTANTS
    Writers = {w1, w2}
    Nodes = {n1, n2}
    Versions = {v1, v2}
    Subs = {s1, s2}
    None = None
    Unknown = Unknown
    MaxOps = 3
    MaxClears = 1
SYMMETRY Symmetry
CHECK_DEADLOCK FALSE
INVARIANTS
    MirrorExact
    HearsEveryChange
