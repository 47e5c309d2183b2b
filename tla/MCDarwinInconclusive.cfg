CONSTANTS
    Pids = {0, 1, 2}
    MaxForks = 1
    MaxHosts = 0
    MaxFaults = 1
SPECIFICATION Spec
INVARIANTS EmptyMeansConclusive
CHECK_DEADLOCK FALSE
