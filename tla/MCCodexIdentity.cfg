CONSTANTS
    Procs = {p1, p2}
    Users = {u1, u2}
    Nil = Nil
    Bad = Bad
    MaxSessions = 2
    MaxIssued = 2
    MaxFaults = 2
SPECIFICATION LiveSpec
CHECK_DEADLOCK FALSE
INVARIANTS ProjectionIsQuarantined
PROPERTIES CredentialAdvances RefreshSurvives IdentityIsFreed
