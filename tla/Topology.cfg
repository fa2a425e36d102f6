SPECIFICATION Spec
CONSTANTS
    Clients = {c1}
    Names = {n1, n2, n3}
    MaxItems = 2
    MaxCommits = 3
    MaxClears = 1
SYMMETRY Symmetry
CHECK_DEADLOCK FALSE
INVARIANT
    CycleExact
PROPERTIES
    CommitMeaning
