SPECIFICATION MCSpec
CONSTANTS
    Callers = {c1, c2}
    Widths = {2, 4}
    Retained = 1
    Pools = {p1, p2}
    MaxLease = 5
INVARIANTS TypeOK OneOwner NoneDropped IdleFit OneSplitPerLease
PROPERTIES NoPoolStranded
CHECK_DEADLOCK FALSE
