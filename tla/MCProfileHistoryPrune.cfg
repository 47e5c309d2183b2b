SPECIFICATION FairHistorySpec
CONSTANTS
    Names = {a, b}
    Nil = Nil
    Torn = Torn
    Cuts = {}
    MaxLineages = 1
    MaxEvents = 4
    MaxCrashes = 1
    Keeps = {1}
    DefaultKeep = 1
    MaxRetained = 4
    MaxPins = 4
PROPERTIES
    DecidedHistoryCompletes
CHECK_DEADLOCK FALSE
