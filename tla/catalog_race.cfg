SPECIFICATION FairSpec
CONSTANTS
    Users = {u1, u2}
    Requests = {q1, q2}
    GithubIds = {g1}
    Names = {n1}
    Nothing = Nothing
    MaxRenames = 0
    DbMayFail = FALSE
INVARIANT RaceIsTransparent
CHECK_DEADLOCK FALSE
