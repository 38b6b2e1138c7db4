CONSTANTS
    m1 = m1
    m2 = m2
    w1 = w1
    w2 = w2
    r1 = r1
    Keys = {1}
    Members = {m1, m2}
    Workers = {w1, w2}
    Relays = {r1}
    BatchSize = 1
    MaxFaults = 1
    MaxLog = 2
    MaxFailures = 1
    MaxCrashes = 1
    MaxRetries = 1
    MaxMailFaults = 2
    enrollment_id = enrollment_id
    enrolled_at = enrolled_at
    Fields = {enrollment_id, enrolled_at}
    FirstSchema <- UserEnrolled
    Types = {"str", "int"}
    Null = "null"
SPECIFICATION AllSpec
INVARIANTS
    MailsBounded
    ClaimedIsOnItsWay
    NewReadsOld
PROPERTIES
    OnlyEnrolledAreMailed
    EnrolledAreSettled
CHECK_DEADLOCK FALSE
