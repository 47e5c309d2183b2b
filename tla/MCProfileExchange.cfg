SPECIFICATION Spec
CONSTANTS
    Exporters = {e1, e2}
    Profiles <- MCProfiles
    Values = {1, 2}
    MaxBindings = 3
    MaxEdits = 1
    MaxFaults = 1
SYMMETRY Symmetry
CHECK_DEADLOCK FALSE
INVARIANTS ExportIsWhole ImportIsFaithful
PROPERTIES NeverReplaces
