------------------------- MODULE EnrollmentContract -------------------------
(***************************************************************************)
(* What the enrollment service promises to whoever reads its tables: a       *)
(* request takes effect in one step or not at all, and that step is allowed  *)
(* by the rows as they are at that moment, whatever the request has read     *)
(* before.  Enrollment, in which requests interleave statement by statement, *)
(* implements it.                                                            *)
(***************************************************************************)
EXTENDS Naturals, FiniteSets

CONSTANTS Students, Courses, Lessons, CourseOf, InitialLessons, Caps, NoCap

VARIABLES
    status, maxStudents, requires, lessons,
    enrollment, progress, certificates,
    userEnrolled, lessonCompleted   \* how many events there are of each row

courseVars == <<status, maxStudents, requires, lessons>>
vars == <<courseVars, enrollment, progress, certificates, userEnrolled, lessonCompleted>>

Enrollments == Students \X Courses

Init ==
    /\ status \in [Courses -> {"draft", "published"}]
    /\ maxStudents \in [Courses -> Caps \cup {NoCap}]
    /\ requires = {} /\ lessons = InitialLessons
    /\ enrollment = [e \in Enrollments |-> "none"]
    /\ progress = {} /\ certificates = {}
    /\ userEnrolled = [e \in Enrollments |-> 0]
    /\ lessonCompleted = [p \in Enrollments \X Lessons |-> 0]

Seats(c) == Cardinality({e \in Enrollments : e[2] = c /\ enrollment[e] = "active"})

\* A student gets a seat in a published course that has one left, with every
\* prerequisite completed, once; the event goes with the row.
Enroll(s, c) ==
    /\ enrollment[<<s, c>>] = "none"
    /\ status[c] = "published"
    /\ \A p \in Courses : <<c, p>> \in requires => enrollment[<<s, p>>] = "completed"
    /\ maxStudents[c] = NoCap \/ Seats(c) < maxStudents[c]
    /\ enrollment' = [enrollment EXCEPT ![<<s, c>>] = "active"]
    /\ userEnrolled' = [userEnrolled EXCEPT ![<<s, c>>] = @ + 1]
    /\ UNCHANGED <<courseVars, progress, certificates, lessonCompleted>>

LessonsDone(e) == Cardinality({l \in Lessons : <<e, l>> \in progress})
LessonsAtStart(c) == Cardinality({l \in InitialLessons : CourseOf[l] = c})

\* A lesson of the course is completed once; with as many lessons as the course
\* had at the start, if not more, the enrollment and its certificate may follow.
CompleteLesson(e, l) ==
    /\ enrollment[e] # "none"
    /\ l \in lessons /\ CourseOf[l] = e[2]
    /\ <<e, l>> \notin progress
    /\ progress' = progress \cup {<<e, l>>}
    /\ lessonCompleted' = [lessonCompleted EXCEPT ![<<e, l>>] = @ + 1]
    /\ \/ UNCHANGED <<enrollment, certificates>>
       \/ /\ LessonsDone(e)' >= LessonsAtStart(e[2])
          /\ enrollment' = [enrollment EXCEPT ![e] = "completed"]
          /\ certificates' = certificates \cup {e}
    /\ UNCHANGED <<courseVars, userEnrolled>>

\* One course is published, archived or given another capacity.
ChangeCourse(c) ==
    /\ \E s \in {status[c], "published", "archived"} : status' = [status EXCEPT ![c] = s]
    /\ \E n \in Caps \cup {maxStudents[c]} : maxStudents' = [maxStudents EXCEPT ![c] = n]
    /\ UNCHANGED <<requires, lessons, enrollment, progress, certificates,
                   userEnrolled, lessonCompleted>>

ChangePrerequisites ==
    /\ \/ \E c, p \in Courses : c # p /\ requires' = requires \cup {<<c, p>>}
       \/ \E edge \in requires : requires' = requires \ {edge}
    /\ UNCHANGED <<status, maxStudents, lessons, enrollment, progress, certificates,
                   userEnrolled, lessonCompleted>>

AddLesson ==
    /\ \E l \in Lessons \ lessons : lessons' = lessons \cup {l}
    /\ UNCHANGED <<status, maxStudents, requires, enrollment, progress, certificates,
                   userEnrolled, lessonCompleted>>

Next ==
    \/ \E s \in Students, c \in Courses : Enroll(s, c)
    \/ \E e \in Enrollments, l \in Lessons : CompleteLesson(e, l)
    \/ \E c \in Courses : ChangeCourse(c)
    \/ ChangePrerequisites \/ AddLesson

Spec == Init /\ [][Next]_vars
=============================================================================
