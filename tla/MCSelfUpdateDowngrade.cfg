SPECIFICATION Spec
CONSTANTS
    Updaters = {u1, u2}
    Stable = {1, 2}
    Installed = 1
    Next_v = 3
    Pins = {0, 1, 3}
    Candidates = {2}
    Builds = {a, b}
    MaxAttempts = 1
    MaxMeddles = 0
    MaxFaults = 0
CHECK_DEADLOCK FALSE

PROPERTIES NoSilentDowngrade

