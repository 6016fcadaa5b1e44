SPECIFICATION SessionSpec
CONSTANTS
    Names = {admin, root}
    Barred = {root}
    Secrets = {s1, s2}
    SessionTTL = 2
    MaxTime = 7
    MaxRestarts = 2
INVARIANTS
    SessionLasts
    SessionEnds
CHECK_DEADLOCK FALSE
