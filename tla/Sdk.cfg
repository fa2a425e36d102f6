SPECIFICATION Spec
CONSTANTS
    Threads = {t1, t2}
    Nodes = {n1}
    Strangers = {barred}
    Barred = {barred}
    Uses = {"FileTransfer"}
    Notes = {"NodeRegister"}
    Texts = {"json"}
    Audits <- MCAudits
    Multiline = {lines}
    Faults = {"open", "write", "lost", "genesis"}
    Garbled = Garbled
    CutShort = CutShort
    Tens = {10, 100}
    MaxSeq = 99
    MaxAppends = 3
    MaxOpens = 2
    MaxFaults = 2
SYMMETRY Symmetry
CHECK_DEADLOCK FALSE
INVARIANTS
    RecordsExact
    VerifiedIsHonest
    GapsDetected
    WhitelistRecorded
    UsesAccounted
