CONSTANTS
    a1 = a1
    a2 = a2
    a3 = a3
    t1 = t1
    x1 = x1
    x2 = x2
    Artefacts = {a1, a2, a3}
    Threads = {t1}
    Addresses = {x1, x2}
    Shared = Shared
    None = None
    MaxMint = 1
SPECIFICATION Spec
CHECK_DEADLOCK FALSE
INVARIANT
    ReduceIsOwn
