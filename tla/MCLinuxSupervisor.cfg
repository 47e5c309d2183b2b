CONSTANTS
    MaxSignals = 2
    MaxFaults = 2
SPECIFICATION LiveSpec
CHECK_DEADLOCK FALSE
INVARIANTS ProofIsHonest ProtocolHolds
PROPERTIES TreeEnds
