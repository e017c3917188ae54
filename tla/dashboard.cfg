SPECIFICATION FairSpec
CONSTANTS
    Repos = {r1, r2}
    Initially = {r1}
    Nothing = Nothing
    MaxMounts = 2
    MaxWrites = 2
    MaxElsewhere = 1
INVARIANTS
    TypeOK
    FreshList
PROPERTIES
    FormComesBack
    LoadingEnds
CHECK_DEADLOCK FALSE
