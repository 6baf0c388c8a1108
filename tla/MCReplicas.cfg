SPECIFICATION Spec
CONSTANTS
    Documents = {d1, d2}
    Workers = {w1}
    Original = b0
    Copies = {b1, b2}
    MaxSplits = 2
    Abandons = FALSE
INVARIANTS TypeOK PrivateViews NoLostRetirement TablesAreClaimed GoneHoldsNothing NeverAwaitedByFinalizer
SYMMETRY Symmetry
CHECK_DEADLOCK FALSE
