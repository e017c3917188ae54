SPECIFICATION MCSpec
CONSTANTS
    Users = {u1, u2}
    Requests = {q1, q2, q3}
    GithubIds = {g1, g2}
    Names = {n1, n2}
    Nothing = Nothing
    MaxRenames = 1
    DbMayFail = TRUE
INVARIANTS
    TypeOK
    CatalogIsKeyed
PROPERTIES
    TracksWhatWasAsked
    RowsComeTracked
    ConflictIsOwn
    RequestsEnd
CHECK_DEADLOCK FALSE
