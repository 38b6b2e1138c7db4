CONSTANTS
    k1 = k1
    k2 = k2
    m1 = m1
    m2 = m2
    Keys = {k1, k2}
    Members = {m1, m2}
    MaxLog = 3
    MaxFailures = 2
    MaxCrashes = 2
SPECIFICATION FairSpec
INVARIANTS
    IndInv
    ProcessedHasEffect
    EffectsBounded
    SkippedOnlyAfterFailure
PROPERTIES
    OffsetMonotone
    EventuallyProcessed
CHECK_DEADLOCK FALSE
