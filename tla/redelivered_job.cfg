SPECIFICATION FairSpec
CONSTANTS
    Users = {u1}
    Repos = {r1}
    Jobs = {j1, j2}
    Workers = {w1}
    NoJob = NoJob
    MaxVersion = 1
    MaxCrashes = 1
    Faults = {"worker_crash", "db_load"}
PROPERTY TerminalIsFinal
CHECK_DEADLOCK FALSE
