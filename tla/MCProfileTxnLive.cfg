SPECIFICATION FairSpec
CONSTANTS
    Procs = {p1}
    Names = {a, b}
    Docs = {x}
    Nil = Nil
    Short = Short
    Torn = Torn
    PendingCuts = {Short}
    MaxTxns = 2
    MaxFaults = 1
    MaxCrashes = 1
CHECK_DEADLOCK FALSE
PROPERTIES
    DecisionRollsForward
