SPECIFICATION FairHistorySpec
CONSTANTS
    Names = {a, b}
    Nil = Nil
    Torn = Torn
    Cuts = {"pinWrite"}
    MaxLineages = 1
    MaxEvents = 2
    MaxCrashes = 1
    Keeps = {1}
    DefaultKeep = 4
    MaxRetained = 4
    MaxPins = 2
PROPERTIES
    MaintenanceCompletes
CHECK_DEADLOCK FALSE
