SPECIFICATION FairSpec
CONSTANTS
    Repository = r1
    Jobs = {j1, j2}
    Nothing = Nothing
    MaxVersion = 1
    MaxPolls = 2
    MaxVisits = 1
INVARIANTS
    TypeOK
    BusyMeansOneChain
    OutcomeIsOwn
    FreshAfterSuccess
PROPERTIES
    PollingEnds
CHECK_DEADLOCK FALSE
