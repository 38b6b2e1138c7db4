SPECIFICATION ApiSpec
CONSTANTS
    r1 = r1
    r2 = r2
    r3 = r3
    owner = owner
    admin = admin
    student = student
    gone = gone
    joining = joining
    c1 = c1
    draft = draft
    m1 = m1
    p1 = p1
    p2 = p2
    full_name = full_name
    others = others
    Requests = {r1, r2}
    Operations <- AllOperations
    Accounts = {owner, admin, student, gone, joining}
    RoleOf <- Roles
    Inactive = {gone}
    Passwords = {p1, p2}
    Names = {full_name}
    InitialDb <- Start0
    BadToken = BadToken
    NoUser = NoUser
    Nothing = Nothing
    Others = {others}
    PoolLimit = 2
    MaxFaults = 1
    CourseOwner <- Owners
    Drafts = {draft}
    EnrolledIn <- Enrollments
    Indexed = {c1, draft}
    MaxTokens = 2
INVARIANTS
    AnswersAreTrue
    StreamHonest
    SearchInScope
PROPERTY
    RequestsEnd
CHECK_DEADLOCK FALSE
