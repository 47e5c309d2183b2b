CONSTANTS
    Pids = {0, 1, 2}
    MaxForks = 3
    MaxHosts = 0
    MaxFaults = 0
SPECIFICATION Spec
INVARIANTS SettledMeansEmpty
CHECK_DEADLOCK FALSE
