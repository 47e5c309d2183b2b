SPECIFICATION FairSpec
CONSTANTS
    Owner = owner
    Startup = startup
    Nobody = nobody
    Recoverers = {r1}
    TypedRecoverers = {t1}
    MaxGen = 1
    MaxFaults = 1
PROPERTIES
    StaleMarkerCleared
CHECK_DEADLOCK FALSE
