CONSTANTS
    a1 = a1
    a2 = a2
    t1 = t1
    x1 = x1
    x2 = x2
    Artefacts = {a1, a2}
    Threads = {t1}
    Addresses = {x1, x2}
    Shared = Shared
    None = None
    MaxMint = 2
SPECIFICATION Spec
CHECK_DEADLOCK FALSE
INVARIANT
    SweepNeverRaises
