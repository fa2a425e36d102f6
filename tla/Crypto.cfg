SPECIFICATION CryptoSpec
CONSTANTS
    Savers = {p1, p2}
    Keys = {k1, k2, k3}
    Inodes = {i1, i2, i3, i4}
    FileFaults = {"kill", "flush"}
    Nil = Nil
    Psks = {psk1, psk2}
    ClientPsk = psk1
    Faults = {"duplicate", "damageRequest", "damageResponse", "damageData"}
    MaxBegin = 3
    MaxNet = 3
    None = None
CHECK_DEADLOCK FALSE
INVARIANTS
    LoadWhole
    ServerHadKeys
    SessionReadable
