CONSTANTS
    Pids = {0, 1, 2}
    MaxForks = 1
    MaxHosts = 1
    MaxFaults = 1
SPECIFICATION LiveSpec
INVARIANTS ReleaseIsProven HostUntouched
PROPERTIES SettlementEnds
CHECK_DEADLOCK FALSE
