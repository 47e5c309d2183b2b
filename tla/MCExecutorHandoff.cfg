CONSTANTS
    MaxSignals = 2
    MaxFaults = 0
SPECIFICATION Spec
INVARIANTS HandoffLosesNothing
CHECK_DEADLOCK FALSE
