CONSTANTS
    Pids = {0, 1, 2}
    MaxForks = 3
    MaxHosts = 0
    MaxFaults = 0
SPECIFICATION Spec
INVARIANTS ReleaseIsProven
CHECK_DEADLOCK FALSE
