SPECIFICATION Spec
CONSTANTS
    LastNumber = 2
    Window = 2
    PageSize = 1
    Syncs = {s1, s2}
    Never = Never
    MaxEvents = 4
    Readers = {r1}
INVARIANT MergeRateIsFraction
CHECK_DEADLOCK FALSE
