CONSTANTS
    s1 = s1
    s2 = s2
    c1 = c1
    c2 = c2
    c3 = c3
    l1 = l1
    l2 = l2
    l3 = l3
    t1 = t1
    t2 = t2
    t3 = t3
    NoCap = NoCap
    Keep = Keep
    Students = {s1}
    Courses = {c1, c2}
    Lessons = {}
    CourseOf <- NoLessons
    InitialLessons = {}
    Requests = {t1, t2}
    Caps = {}
SPECIFICATION Spec
INVARIANTS
    AcyclicPrerequisites
