SPECIFICATION FairSpec
CONSTANTS
    Owner = owner
    Startup = startup
    Nobody = nobody
    Recoverers = {r1}
    TypedRecoverers = {t1}
    MaxGen = 2
    MaxFaults = 3
CHECK_DEADLOCK FALSE
INVARIANTS InUseIsKept RemovedMeansGone
PROPERTIES CompletionOnlyAdvances RecoveryConverges
