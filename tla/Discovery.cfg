SPECIFICATION FairSpec
CONSTANTS
    Hosts = {h1}
    Nonces = {m1, m2}
    Window = 2
    MinGap = 3
    Period = 2
    Callers = {"run", "manual"}
    Faults = {"duplicate", "damage"}
    None = None
    MaxDelay = 1
    MaxNet = 2
    MaxVer = 1
INVARIANTS
    RegistryAuthentic
    BroadcastBound
PROPERTIES
    OncePerWindow
    Discovered
