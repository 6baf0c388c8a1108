SPECIFICATION MCSpec
CONSTANTS
    Workers = {w1}
    ReadyFactor = 4
    MaxItems = 5
    MaxLate = 1
    Verdicts = {"ok", "refuse"}
INVARIANT EarliestFailing
CHECK_DEADLOCK FALSE
