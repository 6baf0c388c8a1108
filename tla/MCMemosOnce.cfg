CONSTANTS
    a1 = a1
    a2 = a2
    t1 = t1
    t2 = t2
    x1 = x1
    x2 = x2
    Artefacts = {a1, a2}
    Threads = {t1, t2}
    Addresses = {x1, x2}
    Shared = Shared
    None = None
    MaxMint = 3
SPECIFICATION Spec
CHECK_DEADLOCK FALSE
INVARIANT
    CompiledOnce
