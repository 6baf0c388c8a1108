SPECIFICATION MCSpec
CONSTANTS
    Workers = {w1, w2}
    ReadyFactor = 1
    MaxItems = 3
    MaxLate = 1
    Verdicts = {"ok", "refuse", "bug", "blocks"}
INVARIANTS TypeOK PoolWhole
PROPERTIES MeetsContract MapReturns BugLeavesAtOnce
CHECK_DEADLOCK FALSE
