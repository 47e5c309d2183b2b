CONSTANTS
    Pids = {0, 1, 2}
    MaxForks = 1
    MaxHosts = 1
    MaxFaults = 0
SPECIFICATION Spec
INVARIANTS HostsLeftAlone
CHECK_DEADLOCK FALSE
