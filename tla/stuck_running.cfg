SPECIFICATION FairSpec
CONSTANTS
    Users = {u1}
    Repos = {r1}
    Jobs = {j1, j2}
    Workers = {w1, w2}
    NoJob = NoJob
    MaxVersion = 1
    MaxCrashes = 1
    Faults = {"db_mark_succeeded"}
INVARIANT RunningIsHeld
CHECK_DEADLOCK FALSE
