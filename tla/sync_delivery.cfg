SPECIFICATION Spec
CONSTANTS
    Users = {u1}
    Repos = {r1}
    Jobs = {j1, j2}
    Workers = {w1, w2}
    NoJob = NoJob
    Faults <- DeliveryFaults
    MaxVersion = 0
    MaxCrashes = 1
SYMMETRY Symmetry
INVARIANTS
    AtMostOneActive
    OneMessagePerJob
CHECK_DEADLOCK FALSE
