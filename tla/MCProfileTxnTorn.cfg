SPECIFICATION Spec
CONSTANTS
    Procs = {p1, p2}
    Names = {a, b}
    Docs = {x, y}
    Nil = Nil
    Short = Short
    Torn = Torn
    PendingCuts = {Short, Torn}
    MaxTxns = 1
    MaxFaults = 0
    MaxCrashes = 1
CHECK_DEADLOCK FALSE
INVARIANTS
    UndecidedAborts
