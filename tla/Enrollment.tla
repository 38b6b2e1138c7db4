----------------------------- MODULE Enrollment -----------------------------
(***************************************************************************)
(* The enrollment service (services/enrollment_service.py) over Postgres.   *)
(*                                                                         *)
(* Every HTTP request is one database transaction (database.get_db): it     *)
(* runs a few SQL statements under READ COMMITTED, each of which sees the   *)
(* rows committed so far plus the transaction's own, and ends in COMMIT or  *)
(* ROLLBACK.  The variables hold the committed rows; the rows a transaction *)
(* has written and not committed, and the row locks it holds, follow from   *)
(* the statement it has reached, tx[t].pc.                                  *)
(*                                                                         *)
(* Course rows: SELECT ... FOR UPDATE (enroll) conflicts with every lock;   *)
(* UPDATE (course_service, mark_published) with other writers; the foreign  *)
(* key checks of an INSERT (KEY SHARE) only with FOR UPDATE.                *)
(***************************************************************************)
EXTENDS Naturals, FiniteSets

CONSTANTS
    Students, Courses, Lessons,
    CourseOf,        \* the course each lesson is (or will be) created in
    InitialLessons,  \* the lessons that exist when the behaviour starts
    Requests,        \* request slots: how many transactions run at once
    Caps,            \* the values a PATCH may give max_students
    NoCap,           \* max_students IS NULL
    Keep             \* a column that a PATCH leaves alone

ASSUME LessonsAssumption == /\ CourseOf \in [Lessons -> Courses]
                            /\ InitialLessons \subseteq Lessons
ASSUME FiniteAssumption == IsFiniteSet(Students) /\ IsFiniteSet(Lessons)
ASSUME CapsAssumption == /\ Caps \subseteq Nat \ {0}
                         /\ NoCap \notin Nat
                         /\ Keep \notin Nat \cup {NoCap}
                                        \cup {"draft", "published", "archived"}

VARIABLES
    status,        \* courses.status
    maxStudents,   \* courses.max_students
    requires,      \* course_prerequisites: <<course, prerequisite>>
    lessons,       \* lessons that exist
    enrollment,    \* enrollments.status by (student, course); "none": no row
    completedAt,   \* how often enrollments.completed_at was written; 0: NULL
    progress,      \* progress rows: <<enrollment, lesson>>
    certificates,  \* certificates, by enrollment
    userEnrolled,  \* user.enrolled rows in the outbox, by enrollment
    lessonCompleted, \* lesson.completed rows in the outbox
    tx             \* the transaction of each request slot

courseRows == <<status, maxStudents, requires, lessons>>
learnRows  == <<enrollment, completedAt, progress, certificates>>
outbox     == <<userEnrolled, lessonCompleted>>
vars       == <<courseRows, learnRows, outbox, tx>>

CourseStatus == {"draft", "published", "archived"}
Enrollments  == Students \X Courses
ProgressRows == Enrollments \X Lessons

Idle == [pc |-> "idle"]

EnrollTx == [pc : {"lock", "gate", "capacity", "insert", "enrolled"},
             key : Enrollments]

CompleteTx == [pc : {"record", "total", "count", "complete", "issue",
                     "recorded", "certified"},
               key : Enrollments, lesson : Lessons,
               seen : {"active", "completed"}, total : Nat]

CourseTx == [pc : {"write", "written"}, course : Courses,
             status : {"published", "archived", Keep}, cap : Caps \cup {Keep}]

EdgeTx == [pc : {"edge", "lockCourse", "lockPrerequisite", "edgeAdded"},
           course : Courses, prerequisite : Courses]

Tx == {Idle} \cup EnrollTx \cup CompleteTx \cup CourseTx \cup EdgeTx

Init ==
    /\ status \in [Courses -> {"draft", "published"}]
    /\ maxStudents \in [Courses -> Caps \cup {NoCap}]
    /\ requires = {}
    /\ lessons = InitialLessons
    /\ enrollment = [e \in Enrollments |-> "none"]
    /\ completedAt = [e \in Enrollments |-> 0]
    /\ progress = {}
    /\ certificates = {}
    /\ userEnrolled = [e \in Enrollments |-> 0]
    /\ lessonCompleted = [p \in ProgressRows |-> 0]
    /\ tx = [t \in Requests |-> Idle]

-----------------------------------------------------------------------------
(* Row locks and rows not yet committed, read off the statement reached.     *)

\* Faulty variants, each compared with the definition that follows it: the lock
\* is given up before the insert; add_prerequisite locks both courses FOR UPDATE,
\* in the order of the edge, so that no two requests close a cycle.
EarlyRelease(t, c) ==
    tx[t].pc \in {"gate", "capacity"} /\ tx[t].key[2] = c
LocksBothCourses(t, c) ==
    \/ tx[t].pc \in {"gate", "capacity", "insert", "enrolled"} /\ tx[t].key[2] = c
    \/ tx[t].pc \in {"lockPrerequisite", "edgeAdded"} /\ tx[t].course = c
    \/ tx[t].pc = "edgeAdded" /\ tx[t].prerequisite = c

HoldsForUpdate(t, c) ==
    /\ tx[t].pc \in {"gate", "capacity", "insert", "enrolled"}
    /\ tx[t].key[2] = c

HoldsUpdate(t, c) == tx[t].pc = "written" /\ tx[t].course = c

HoldsKeyShare(t, c) ==
    \/ tx[t].pc \in {"lockPrerequisite", "edgeAdded"} /\ c = tx[t].course
    \/ tx[t].pc = "edgeAdded" /\ c = tx[t].prerequisite
    \/ tx[t].pc = "certified" /\ tx[t].key \notin certificates /\ tx[t].key[2] = c

\* Faulty variant: a plain SELECT, no FOR UPDATE.
PlainSelect(t, c) == TRUE

CanLockForUpdate(t, c) ==
    \A u \in Requests \ {t} :
        ~ (HoldsForUpdate(u, c) \/ HoldsUpdate(u, c) \/ HoldsKeyShare(u, c))

\* Faulty variant: the UPDATE does not wait.
UpdateAtOnce(t, c) == TRUE

CanUpdate(t, c) ==
    \A u \in Requests \ {t} : ~ (HoldsForUpdate(u, c) \/ HoldsUpdate(u, c))

CanKeyShare(t, c) == \A u \in Requests \ {t} : ~ HoldsForUpdate(u, c)

\* Faulty variant: a transaction still waiting to insert blocks the others.
WaiterInserted(t, p) ==
    /\ tx[t].pc \in {"record", "total", "count", "complete", "issue", "recorded", "certified"}
    /\ p = <<tx[t].key, tx[t].lesson>>

\* t has inserted progress row p and neither committed nor rolled back.
HasInserted(t, p) ==
    /\ tx[t].pc \in {"total", "count", "complete", "issue", "recorded", "certified"}
    /\ p = <<tx[t].key, tx[t].lesson>>

\* t has updated enrollment row e and holds its lock.
HasCompleted(t, e) == tx[t].pc \in {"issue", "certified"} /\ tx[t].key = e

\* t has inserted a course_prerequisites row and not committed.
HasAdded(t, edge) ==
    /\ tx[t].pc \in {"lockCourse", "lockPrerequisite", "edgeAdded"}
    /\ edge = <<tx[t].course, tx[t].prerequisite>>

LessonsIn(c) == {l \in lessons : CourseOf[l] = c}

\* What count_for_enrollment sees inside t: committed rows and t's own.
CountedLessons(t) ==
    {l \in Lessons : <<tx[t].key, l>> \in progress \/ l = tx[t].lesson}

ActiveIn(c) == {e \in Enrollments : e[2] = c /\ enrollment[e] = "active"}

Goto(t, step) == tx' = [tx EXCEPT ![t].pc = step]
End(t)        == tx' = [tx EXCEPT ![t] = Idle]

-----------------------------------------------------------------------------
(* enrollment_service.enroll                                                *)

StartEnroll(t, e) ==
    /\ tx[t] = Idle
    /\ tx' = [tx EXCEPT ![t] = [pc |-> "lock", key |-> e]]
    /\ UNCHANGED <<courseRows, learnRows, outbox>>

\* SELECT ... FOR UPDATE waits for the row lock, then sees the latest row.
LockCourse(t) ==
    /\ tx[t].pc = "lock"
    /\ CanLockForUpdate(t, tx[t].key[2])
    /\ \/ status[tx[t].key[2]] = "published" /\ Goto(t, "gate")
       \/ status[tx[t].key[2]] # "published" /\ End(t)
    /\ UNCHANGED <<courseRows, learnRows, outbox>>

UnmetPrerequisites(e) ==
    {p \in Courses : <<e[2], p>> \in requires /\ enrollment[<<e[1], p>>] # "completed"}

CheckPrerequisites(t) ==
    /\ tx[t].pc = "gate"
    /\ \/ UnmetPrerequisites(tx[t].key) = {} /\ Goto(t, "capacity")
       \/ UnmetPrerequisites(tx[t].key) # {} /\ End(t)
    /\ UNCHANGED <<courseRows, learnRows, outbox>>

HasRoom(c) ==
    maxStudents[c] # NoCap => Cardinality(ActiveIn(c)) < maxStudents[c]

CheckCapacity(t) ==
    /\ tx[t].pc = "capacity"
    /\ \/ HasRoom(tx[t].key[2]) /\ Goto(t, "insert")
       \/ ~ HasRoom(tx[t].key[2]) /\ End(t)
    /\ UNCHANGED <<courseRows, learnRows, outbox>>

\* Faulty variant: the event is stored although the insert failed.
EmitBeforeInsert(t) ==
    /\ tx[t].pc = "insert"
    /\ \/ enrollment[tx[t].key] = "none" /\ Goto(t, "enrolled") /\ UNCHANGED userEnrolled
       \/ /\ enrollment[tx[t].key] # "none" /\ End(t)
          /\ userEnrolled' = [userEnrolled EXCEPT ![tx[t].key] = @ + 1]
    /\ UNCHANGED <<courseRows, learnRows, lessonCompleted>>

\* The unique index on (student, course) refuses a second row; the outbox row
\* is inserted by the same transaction.
InsertEnrollment(t) ==
    /\ tx[t].pc = "insert"
    /\ \/ enrollment[tx[t].key] = "none" /\ Goto(t, "enrolled")
       \/ enrollment[tx[t].key] # "none" /\ End(t)
    /\ UNCHANGED <<courseRows, learnRows, outbox>>

CommitEnroll(t) ==
    /\ tx[t].pc = "enrolled"
    /\ enrollment' = [enrollment EXCEPT ![tx[t].key] = "active"]
    /\ userEnrolled' = [userEnrolled EXCEPT ![tx[t].key] = @ + 1]
    /\ End(t)
    /\ UNCHANGED <<courseRows, completedAt, progress, certificates, lessonCompleted>>

-----------------------------------------------------------------------------
(* enrollment_service.complete_lesson                                       *)

\* get_for_student loads the enrollment (its status is not read again), and
\* the lesson must exist in the course of that enrollment.
StartComplete(t, e, l) ==
    /\ tx[t] = Idle
    /\ enrollment[e] # "none"
    /\ l \in LessonsIn(e[2])
    /\ tx' = [tx EXCEPT ![t] = [pc |-> "record", key |-> e, lesson |-> l,
                                seen |-> enrollment[e], total |-> 0]]
    /\ UNCHANGED <<courseRows, learnRows, outbox>>

\* Faulty variant: a check for the row instead of a unique index.
CheckThenInsert(t) ==
    /\ tx[t].pc = "record"
    /\ \/ <<tx[t].key, tx[t].lesson>> \notin progress /\ Goto(t, "total")
       \/ <<tx[t].key, tx[t].lesson>> \in progress /\ End(t)
    /\ UNCHANGED <<courseRows, learnRows, outbox>>

\* INSERT waits while another open transaction has inserted the same key; a
\* committed duplicate ends the request with the existing row.
InsertProgress(t) ==
    /\ tx[t].pc = "record"
    /\ LET p == <<tx[t].key, tx[t].lesson>>
       IN /\ \A u \in Requests \ {t} : ~ HasInserted(u, p)
          /\ \/ p \notin progress /\ Goto(t, "total")
             \/ p \in progress /\ End(t)
    /\ UNCHANGED <<courseRows, learnRows, outbox>>

CountLessons(t) ==
    /\ tx[t].pc = "total"
    /\ tx' = [tx EXCEPT ![t].pc = "count",
                        ![t].total = Cardinality(LessonsIn(tx[t].key[2]))]
    /\ UNCHANGED <<courseRows, learnRows, outbox>>

\* Faulty variants: the flushed row is counted twice; every lesson is taken for
\* the last one, whatever was counted and loaded.
OwnRowTwice(t) ==
    /\ tx[t].total > 0
    /\ Cardinality(CountedLessons(t)) + 1 >= tx[t].total
    /\ tx[t].seen # "completed"
EveryLesson(t) == tx[t].total > 0

\* completed >= total_lessons and the status loaded at the start
IsLastLesson(t) ==
    /\ tx[t].total > 0
    /\ Cardinality(CountedLessons(t)) >= tx[t].total
    /\ tx[t].seen # "completed"

CountProgress(t) ==
    /\ tx[t].pc = "count"
    /\ \/ IsLastLesson(t) /\ Goto(t, "complete")
       \/ ~ IsLastLesson(t) /\ Goto(t, "recorded")
    /\ UNCHANGED <<courseRows, learnRows, outbox>>

\* UPDATE enrollments waits for another transaction that updated the row.
UpdateEnrollment(t) ==
    /\ tx[t].pc = "complete"
    /\ \A u \in Requests \ {t} : ~ HasCompleted(u, tx[t].key)
    /\ Goto(t, "issue")
    /\ UNCHANGED <<courseRows, learnRows, outbox>>

\* issue_for_enrollment: nothing if the certificate exists; the INSERT checks
\* its foreign key on the course, which waits for an enrolling transaction.
IssueCertificate(t) ==
    /\ tx[t].pc = "issue"
    /\ tx[t].key \in certificates \/ CanKeyShare(t, tx[t].key[2])
    /\ Goto(t, "certified")
    /\ UNCHANGED <<courseRows, learnRows, outbox>>

\* Faulty variant: the certificate is left to a later transaction.
CertificateLater(t) ==
    /\ tx[t].pc \in {"recorded", "certified"}
    /\ LET p == <<tx[t].key, tx[t].lesson>>
       IN /\ progress' = progress \cup {p}
          /\ lessonCompleted' = [lessonCompleted EXCEPT ![p] = @ + 1]
    /\ \/ /\ tx[t].pc = "recorded"
          /\ UNCHANGED <<enrollment, completedAt>>
       \/ /\ tx[t].pc = "certified"
          /\ enrollment' = [enrollment EXCEPT ![tx[t].key] = "completed"]
          /\ completedAt' = [completedAt EXCEPT ![tx[t].key] = @ + 1]
    /\ End(t)
    /\ UNCHANGED <<courseRows, userEnrolled, certificates>>

CommitProgress(t) ==
    /\ tx[t].pc \in {"recorded", "certified"}
    /\ LET p == <<tx[t].key, tx[t].lesson>>
       IN /\ progress' = progress \cup {p}
          /\ lessonCompleted' = [lessonCompleted EXCEPT ![p] = @ + 1]
    /\ \/ /\ tx[t].pc = "recorded"
          /\ UNCHANGED <<enrollment, completedAt, certificates>>
       \/ /\ tx[t].pc = "certified"
          /\ enrollment' = [enrollment EXCEPT ![tx[t].key] = "completed"]
          /\ completedAt' = [completedAt EXCEPT ![tx[t].key] = @ + 1]
          /\ certificates' = certificates \cup {tx[t].key}
    /\ End(t)
    /\ UNCHANGED <<courseRows, userEnrolled>>

-----------------------------------------------------------------------------
(* course_service.update and soft_delete, mark_published_activity: the row  *)
(* is read without a lock and the changed columns are written on flush.     *)

StartCourseWrite(t, c, s, k) ==
    /\ tx[t] = Idle
    /\ tx' = [tx EXCEPT ![t] =
                [pc |-> "write", course |-> c,
                 status |-> IF s = status[c] THEN Keep ELSE s,
                 cap |-> IF k = maxStudents[c] THEN Keep ELSE k]]
    /\ UNCHANGED <<courseRows, learnRows, outbox>>

StartUpdate(t, c) ==
    \E s \in {"archived", Keep}, k \in Caps \cup {Keep} : StartCourseWrite(t, c, s, k)

StartPublish(t, c) ==
    status[c] = "draft" /\ StartCourseWrite(t, c, "published", Keep)

\* Without a change nothing is written; a title or a description that changed
\* is written too, so that Keep twice may still be an UPDATE.
WriteCourse(t) ==
    /\ tx[t].pc = "write"
    /\ \/ tx[t].status = Keep /\ tx[t].cap = Keep /\ End(t)
       \/ CanUpdate(t, tx[t].course) /\ Goto(t, "written")
    /\ UNCHANGED <<courseRows, learnRows, outbox>>

\* Faulty variant: a field missing from the PATCH is written too.
WriteMissing(t) ==
    /\ tx[t].pc = "written"
    /\ status' = [status EXCEPT ![tx[t].course] = tx[t].status]
    /\ maxStudents' = [maxStudents EXCEPT ![tx[t].course] = tx[t].cap]
    /\ End(t)
    /\ UNCHANGED <<requires, lessons, learnRows, outbox>>

CommitCourse(t) ==
    /\ tx[t].pc = "written"
    /\ status' = [status EXCEPT ![tx[t].course] =
                    IF tx[t].status = Keep THEN @ ELSE tx[t].status]
    /\ maxStudents' = [maxStudents EXCEPT ![tx[t].course] =
                         IF tx[t].cap = Keep THEN @ ELSE tx[t].cap]
    /\ End(t)
    /\ UNCHANGED <<requires, lessons, learnRows, outbox>>

-----------------------------------------------------------------------------
(* prerequisite_service                                                     *)

\* The recursive query: c is among the courses that p requires, directly or
\* through others (it is in every set that holds those of p and is closed).
WouldCreateCycle(c, p) ==
    \A S \in SUBSET Courses :
        (\A edge \in requires : edge[1] \in S \cup {p} => edge[2] \in S) => c \in S

StartAddPrerequisite(t, c, p) ==
    /\ tx[t] = Idle
    /\ c # p
    /\ ~ WouldCreateCycle(c, p)
    /\ tx' = [tx EXCEPT ![t] = [pc |-> "edge", course |-> c, prerequisite |-> p]]
    /\ UNCHANGED <<courseRows, learnRows, outbox>>

\* ON CONFLICT DO NOTHING, which waits for an open transaction that has inserted
\* the same edge.
InsertPrerequisite(t) ==
    /\ tx[t].pc = "edge"
    /\ LET edge == <<tx[t].course, tx[t].prerequisite>>
       IN \/ edge \in requires /\ End(t)
          \/ /\ edge \notin requires
             /\ \A u \in Requests \ {t} : ~ HasAdded(u, edge)
             /\ Goto(t, "lockCourse")
    /\ UNCHANGED <<courseRows, learnRows, outbox>>

\* The checks of the two foreign keys then lock the two course rows in turn.
CheckForeignKeys(t) ==
    /\ \/ tx[t].pc = "lockCourse" /\ CanKeyShare(t, tx[t].course)
          /\ Goto(t, "lockPrerequisite")
       \/ tx[t].pc = "lockPrerequisite" /\ CanKeyShare(t, tx[t].prerequisite)
          /\ Goto(t, "edgeAdded")
    /\ UNCHANGED <<courseRows, learnRows, outbox>>

CommitPrerequisite(t) ==
    /\ tx[t].pc = "edgeAdded"
    /\ requires' = requires \cup {<<tx[t].course, tx[t].prerequisite>>}
    /\ End(t)
    /\ UNCHANGED <<status, maxStudents, lessons, learnRows, outbox>>

\* One DELETE and its commit; it takes no lock on a course row.
RemovePrerequisite ==
    /\ \E edge \in requires : requires' = requires \ {edge}
    /\ UNCHANGED <<status, maxStudents, lessons, learnRows, outbox, tx>>

\* lesson_service.create asks nothing of the status of the course.
AddLesson ==
    /\ \E l \in Lessons \ lessons : lessons' = lessons \cup {l}
    /\ UNCHANGED <<status, maxStudents, requires, learnRows, outbox, tx>>

-----------------------------------------------------------------------------
\* An exception, a lost connection or a crash: get_db rolls back.
Rollback(t) ==
    /\ tx[t] # Idle
    /\ End(t)
    /\ UNCHANGED <<courseRows, learnRows, outbox>>

Start(t) ==
    \/ \E e \in Enrollments : StartEnroll(t, e)
    \/ \E e \in Enrollments, l \in Lessons : StartComplete(t, e, l)
    \/ \E c \in Courses : StartUpdate(t, c) \/ StartPublish(t, c)
    \/ \E c, p \in Courses : StartAddPrerequisite(t, c, p)

EnrollStep(t) ==
    \/ LockCourse(t) \/ CheckPrerequisites(t) \/ CheckCapacity(t)
    \/ InsertEnrollment(t) \/ CommitEnroll(t)

CompleteStep(t) ==
    \/ InsertProgress(t) \/ CountLessons(t) \/ CountProgress(t)
    \/ UpdateEnrollment(t) \/ IssueCertificate(t) \/ CommitProgress(t)

CourseStep(t) ==
    \/ WriteCourse(t) \/ CommitCourse(t)
    \/ InsertPrerequisite(t) \/ CheckForeignKeys(t) \/ CommitPrerequisite(t)

Step(t) == EnrollStep(t) \/ CompleteStep(t) \/ CourseStep(t)

Next ==
    \/ \E t \in Requests : Start(t) \/ Step(t) \/ Rollback(t)
    \/ RemovePrerequisite \/ AddLesson

Spec == Init /\ [][Next]_vars

\* As long as a statement can run, one is run in the end: the event loop resumes
\* its coroutines and Postgres wakes a waiter when the lock it waits for is free.
\* Nothing is asked for each request apart.
FairSpec == Spec /\ WF_tx(\E t \in Requests : Step(t))

-----------------------------------------------------------------------------
(* Invariants                                                               *)

\* Every variable stays in its set: a request slot holds one transaction of
\* one of the four kinds, at a statement of that kind.
TypeOK ==
    /\ status \in [Courses -> CourseStatus]
    /\ maxStudents \in [Courses -> Caps \cup {NoCap}]
    /\ requires \subseteq Courses \X Courses
    /\ lessons \subseteq Lessons
    /\ enrollment \in [Enrollments -> {"none", "active", "completed"}]
    /\ completedAt \in [Enrollments -> Nat]
    /\ progress \subseteq ProgressRows
    /\ certificates \subseteq Enrollments
    /\ userEnrolled \in [Enrollments -> Nat]
    /\ lessonCompleted \in [ProgressRows -> Nat]
    /\ tx \in [Requests -> Tx]

\* The outbox holds exactly one event for every committed enrollment and every
\* committed progress row, and none for a request that rolled back, whatever
\* the transactions that raced for the same unique key (enroll, complete_lesson).
OneEventPerRow ==
    /\ \A e \in Enrollments : userEnrolled[e] = IF enrollment[e] = "none" THEN 0 ELSE 1
    /\ \A p \in ProgressRows : lessonCompleted[p] = IF p \in progress THEN 1 ELSE 0

\* Rows that are written apart agree once committed: a certificate and a
\* completion time go with completed enrollments and only with them, and a
\* progress row is for an existing lesson of the course of its enrollment.
RecordsAgree ==
    /\ \A e \in Enrollments : e \in certificates <=> enrollment[e] = "completed"
    /\ \A e \in Enrollments : completedAt[e] > 0 <=> enrollment[e] = "completed"
    /\ \A e \in Enrollments, l \in Lessons :
           <<e, l>> \in progress => enrollment[e] # "none" /\ l \in LessonsIn(e[2])

\* The row lock of an enrolling transaction is held by nobody else in any mode.
LocksExclusive ==
    \A t, u \in Requests, c \in Courses :
        t # u /\ HoldsForUpdate(t, c) =>
            ~ (HoldsForUpdate(u, c) \/ HoldsUpdate(u, c) \/ HoldsKeyShare(u, c))

\* One open transaction at most has inserted a given progress row, and only if
\* no committed one exists.
InsertsExclusive ==
    \A t \in Requests, p \in ProgressRows :
        HasInserted(t, p) =>
            p \notin progress /\ \A u \in Requests \ {t} : ~ HasInserted(u, p)

\* What enroll has checked stays true until it commits.
EnrollChecks(t) ==
    /\ tx[t].pc \in {"gate", "capacity", "insert", "enrolled"} =>
           status[tx[t].key[2]] = "published"
    /\ tx[t].pc \in {"capacity", "insert", "enrolled"} =>
           UnmetPrerequisites(tx[t].key) = {}
    /\ tx[t].pc \in {"insert", "enrolled"} => HasRoom(tx[t].key[2])
    /\ tx[t].pc = "enrolled" => enrollment[tx[t].key] = "none"

\* complete_lesson works for an enrollment that exists, on a lesson of its course.
LessonChecks(t) ==
    tx[t].pc \in {"record", "total", "count", "complete", "issue", "recorded", "certified"} =>
        enrollment[tx[t].key] # "none" /\ tx[t].lesson \in LessonsIn(tx[t].key[2])

ChecksHold == \A t \in Requests : EnrollChecks(t) /\ LessonChecks(t)

\* The inductive invariant of EnrollmentProofs.
IndInv == /\ TypeOK
          /\ LocksExclusive
          /\ InsertsExclusive
          /\ ChecksHold
          /\ OneEventPerRow
          /\ RecordsAgree

\* The docstring of complete_lesson: the enrollment is completed when every
\* lesson in the course has been completed.  Whenever no request is running, an
\* enrollment with all its lessons done is completed.
AllDoneIsCompleted ==
    (\A t \in Requests : tx[t] = Idle) =>
        \A e \in Enrollments :
            /\ enrollment[e] # "none"
            /\ LessonsIn(e[2]) # {}
            /\ \A l \in LessonsIn(e[2]) : <<e, l>> \in progress
            => enrollment[e] = "completed"

InitialIn(c) == {l \in InitialLessons : CourseOf[l] = c}
DoneIn(e) == {l \in Lessons : <<e, l>> \in progress}

\* What the two counts guarantee while lessons are added and several requests
\* complete lessons: a certificate goes with at least as many completed lessons
\* as the course had at the start.
CertificateHasEnoughLessons ==
    \A e \in certificates : Cardinality(DoneIn(e)) >= Cardinality(InitialIn(e[2]))

\* "Auto-complete the enrollment when every lesson is done"
\* (enrollment_service.py:198): a certificate is for a student who completed, at
\* least, every lesson the course had from the start.
CertificateCoversLessons ==
    \A e \in certificates : InitialIn(e[2]) \subseteq DoneIn(e)

\* A certificate is for a student who completed every lesson of the course, however
\* completions race, as long as no lesson has been added to it.
UnchangedCourseIsCovered ==
    \A e \in certificates :
        LessonsIn(e[2]) = InitialIn(e[2]) => LessonsIn(e[2]) \subseteq DoneIn(e)

\* completed_at is "set when status transitions to completed"
\* (models/enrollment.py:50).  A request that loaded the status before another
\* one completed the enrollment writes it again, but only if it completes one
\* more lesson than the course had at the start: without added lessons the time
\* is written once.
CompletionsBounded ==
    \A e \in Enrollments : completedAt[e] > 0 =>
        completedAt[e] + Cardinality(InitialIn(e[2])) <= Cardinality(DoneIn(e)) + 1

\* Adding a prerequisite fails with 409 if it would create a cycle (docs/API.md:208):
\* no course requires itself, through whatever others.
AcyclicPrerequisites == \A c \in Courses : ~ WouldCreateCycle(c, c)

-----------------------------------------------------------------------------
(* The inductive invariants of EnrollmentProofs for the counts and for the    *)
(* prerequisites.                                                            *)

\* What a transaction has counted is enough for the lessons of the start.
CountsEnough ==
    /\ InitialLessons \subseteq lessons
    /\ \A t \in Requests : tx[t].pc \in {"count", "complete", "issue", "certified"} =>
           tx[t].total >= Cardinality(InitialIn(tx[t].key[2]))
    /\ \A t \in Requests : tx[t].pc \in {"complete", "issue", "certified"} =>
           Cardinality(CountedLessons(t)) >= tx[t].total
    /\ CertificateHasEnoughLessons

Completing(t) ==
    tx[t].pc \in {"record", "total", "count", "complete", "issue", "recorded", "certified"}

AddsEdge(t) == tx[t].pc \in {"edge", "lockCourse", "lockPrerequisite", "edgeAdded"}

\* add_prerequisite refuses the course itself before anything else.
NoSelfEdge == \A t \in Requests : AddsEdge(t) => tx[t].course # tx[t].prerequisite

-----------------------------------------------------------------------------
\* The next statement of t waits for u to end: u holds a lock on a course row that
\* conflicts, or has written the row, or inserted the key, that t is to write.
WaitsFor(t, u) ==
    /\ t # u
    /\ \/ /\ tx[t].pc = "lock"
          /\ LET c == tx[t].key[2]
             IN HoldsForUpdate(u, c) \/ HoldsUpdate(u, c) \/ HoldsKeyShare(u, c)
       \/ /\ tx[t].pc = "write"
          /\ HoldsForUpdate(u, tx[t].course) \/ HoldsUpdate(u, tx[t].course)
       \/ tx[t].pc = "record" /\ HasInserted(u, <<tx[t].key, tx[t].lesson>>)
       \/ tx[t].pc = "complete" /\ HasCompleted(u, tx[t].key)
       \/ /\ tx[t].pc = "issue" /\ tx[t].key \notin certificates
          /\ HoldsForUpdate(u, tx[t].key[2])
       \/ /\ tx[t].pc = "edge"
          /\ LET edge == <<tx[t].course, tx[t].prerequisite>>
             IN edge \notin requires /\ HasAdded(u, edge)
       \/ tx[t].pc = "lockCourse" /\ HoldsForUpdate(u, tx[t].course)
       \/ tx[t].pc = "lockPrerequisite" /\ HoldsForUpdate(u, tx[t].prerequisite)

\* No requests wait for each other in a circle, over any mixture of the row locks
\* of enroll, of the course writes and of the foreign keys of certificates and
\* prerequisites, and of the unique keys: among any that are running, one waits
\* for none of them (enrollment_repo.py:19-22, certificate_repo.py:21).
NoCircularWait ==
    \A S \in SUBSET {t \in Requests : tx[t] # Idle} :
        S # {} => \E t \in S : \A u \in S : ~ WaitsFor(t, u)

-----------------------------------------------------------------------------
(* Action properties                                                        *)

\* A course takes in one more active student only while its max_students, as
\* committed at that moment, allows it: the row lock that enroll takes covers
\* the count, the insert and the commit.
WithinCapacity ==
    [][\A c \in Courses :
         Cardinality(ActiveIn(c)') > Cardinality(ActiveIn(c)) =>
             \/ maxStudents[c] = NoCap
             \/ Cardinality(ActiveIn(c)') <= maxStudents[c]]_vars

\* An enrollment is committed only into a course that is published, and with
\* every prerequisite completed, at the moment of the commit and not merely when
\* enroll looked: archiving and new prerequisites wait for the row lock.
EnrollsIntoOpenCourse ==
    [][\A e \in Enrollments :
         enrollment[e] = "none" /\ enrollment'[e] # "none" =>
             status[e[2]] = "published" /\ UnmetPrerequisites(e) = {}]_vars

\* Requests that interleave statement by statement look to a reader of the tables
\* as if each had run alone, at the moment of its commit or not at all: seats,
\* prerequisites and status are those of the commit, rows come once and with their
\* event, and no certificate comes too early (enrollment_service.py:34-214).
Contract == INSTANCE EnrollmentContract
ImplementsContract == Contract!Spec

\* completed_at is "set when status transitions to completed"
\* (models/enrollment.py:50): no step writes it for an enrollment that is
\* completed already.
CompletedAtWrittenOnce ==
    [][\A e \in Enrollments :
            completedAt'[e] # completedAt[e] => enrollment[e] # "completed"]_completedAt

\* "archived -> published is NOT allowed" (tests/test_courses.py:101, and the table
\* of transitions in course_service.py:18): no step changes the status of a course
\* that is archived.
ArchivedIsFinal ==
    [][\A c \in Courses : status[c] = "archived" => status'[c] = "archived"]_status

\* Once an enrollment is completed and no request completes a lesson of it, its
\* completion time stays: a request that comes later loads the status "completed"
\* and leaves it alone, whatever lessons are added (enrollment_service.py:206).
CompletionTimeSettles ==
    \A e \in Enrollments, n \in 1 .. Cardinality(Lessons) :
        []( /\ completedAt[e] = n
            /\ \A t \in Requests : Completing(t) => tx[t].key # e
            => [](completedAt[e] = n))

-----------------------------------------------------------------------------
(* Liveness                                                                 *)

\* The row locks, unique keys and foreign keys that requests wait for are never
\* held in a circle: once no more requests arrive, all of those running end.
RequestsEnd ==
    <>[][\A t \in Requests : tx[t] = Idle => tx'[t] = Idle]_tx
        => <>[](\A t \in Requests : tx[t] = Idle)
=============================================================================
