SPECIFICATION Spec
CONSTANTS
    Procs = {p1, p2}
    Names = {a, b}
    Docs = {x, y}
    Nil = Nil
    Short = Short
    Torn = Torn
    PendingCuts = {Short}
    MaxTxns = 2
    MaxFaults = 1
    MaxCrashes = 2
SYMMETRY Symmetry
CHECK_DEADLOCK FALSE
INVARIANTS TypeOK HolderHasEvidence RecoveryAccepts OutcomesHonest
PROPERTIES RecoveryFlagHonest DecisionPrecedesEffect ImplementsStore
