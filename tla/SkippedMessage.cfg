CONSTANTS
    k1 = k1
    k2 = k2
    m1 = m1
    m2 = m2
    Keys = {k1, k2}
    Members = {m1, m2}
    MaxLog = 2
    MaxFailures = 1
    MaxCrashes = 0
SPECIFICATION Spec
INVARIANTS
    NothingSkipped
CHECK_DEADLOCK FALSE
