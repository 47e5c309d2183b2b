SPECIFICATION FairHistorySpec
CONSTANTS
    Names = {a, b}
    Nil = Nil
    Torn = Torn
    Cuts = {}
    MaxLineages = 2
    MaxEvents = 4
    MaxCrashes = 1
    Keeps = {1}
    DefaultKeep = 1
    MaxRetained = 3
    MaxPins = 1
CHECK_DEADLOCK FALSE
INVARIANTS HistoryConsistent RetentionIsExact
PROPERTIES ProtectedEventsSurvive RecoveryCompletes
