SPECIFICATION Spec
CONSTANTS
    LastNumber = 3
    Window = 2
    PageSize = 1
    Syncs = {s1, s2}
    Never = Never
    MaxEvents = 4
    Readers = {r1}
INVARIANTS
    TypeOK
    QuietReportIsExact
PROPERTIES
    SyncIsComplete
    MergedStaysMerged
    ReviewsComeAlong
CHECK_DEADLOCK FALSE
