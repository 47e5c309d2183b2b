CONSTANTS
    MaxSignals = 3
    MaxFaults = 2
SPECIFICATION LiveSpec
CHECK_DEADLOCK FALSE
INVARIANTS TreeKeepsResources TerminationReachesTarget ReturnIsComplete
PROPERTIES InvocationSettles
