SPECIFICATION FairSpec
CONSTANTS
    Users = {u1}
    Repos = {r1}
    Jobs = {j1, j2}
    Workers = {w1, w2}
    NoJob = NoJob
    Faults <- CrashFaults
    MaxVersion = 2
    MaxCrashes = 1
INVARIANTS
    AtMostOneExecuting
    QueuedIsDeliverable
PROPERTIES
    TerminalIsFinal
    ImplementsContract
    DeliveredIsPickedUp
CHECK_DEADLOCK FALSE
