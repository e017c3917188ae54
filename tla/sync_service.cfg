SPECIFICATION FairSpec
CONSTANTS
    Users = {u1}
    Repos = {r1}
    Jobs = {j1, j2, j3}
    Workers = {w1}
    NoJob = NoJob
    Faults <- HandledFaults
    MaxVersion = 1
    MaxCrashes = 0
INVARIANTS
    TypeOK
    RunningIsHeld
    ResultMatchesStatus
    AnswerMatchesJob
PROPERTIES
    SyncsEnd
CHECK_DEADLOCK FALSE
