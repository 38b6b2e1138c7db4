-------------------------- MODULE EnrollmentProofs --------------------------
(***************************************************************************)
(* Proofs about Enrollment, for any number of students, courses, lessons    *)
(* and concurrent requests.                                                 *)
(***************************************************************************)
EXTENDS Enrollment, FiniteSetTheorems, TLAPS

EnrollPcs   == {"lock", "gate", "capacity", "insert", "enrolled"}
CompletePcs == {"record", "total", "count", "complete", "issue", "recorded", "certified"}
CoursePcs   == {"write", "written"}
EdgePcs     == {"edge", "lockCourse", "lockPrerequisite", "edgeAdded"}

\* The statement a transaction has reached tells which kind it is.
LEMMA KindOf ==
    ASSUME NEW r \in Tx
    PROVE  /\ r.pc \in EnrollPcs => r \in EnrollTx
           /\ r.pc \in CompletePcs => r \in CompleteTx
           /\ r.pc \in CoursePcs => r \in CourseTx
           /\ r.pc \in EdgePcs => r \in EdgeTx
           /\ r.pc = "idle" => r = Idle
BY DEF Tx, Idle, EnrollTx, CompleteTx, CourseTx, EdgeTx,
       EnrollPcs, CompletePcs, CoursePcs, EdgePcs

\* Moving on to another statement of the same kind keeps the kind.
LEMMA SameKind ==
    /\ \A r \in EnrollTx, p \in EnrollPcs : [r EXCEPT !.pc = p] \in EnrollTx
    /\ \A r \in CompleteTx, p \in CompletePcs : [r EXCEPT !.pc = p] \in CompleteTx
    /\ \A r \in CompleteTx, p \in CompletePcs, n \in Nat :
          [r EXCEPT !.pc = p, !.total = n] \in CompleteTx
    /\ \A r \in CourseTx, p \in CoursePcs : [r EXCEPT !.pc = p] \in CourseTx
    /\ \A r \in EdgeTx, p \in EdgePcs : [r EXCEPT !.pc = p] \in EdgeTx
BY DEF EnrollTx, CompleteTx, CourseTx, EdgeTx,
       EnrollPcs, CompletePcs, CoursePcs, EdgePcs

\* A step of t finds in tx[t] a transaction of its own kind.
LEMMA PcKind ==
    ASSUME TypeOK, NEW t \in Requests
    PROVE  /\ tx[t] \in Tx
           /\ tx[t].pc \in EnrollPcs => tx[t] \in EnrollTx
           /\ tx[t].pc \in CompletePcs => tx[t] \in CompleteTx
           /\ tx[t].pc \in CoursePcs => tx[t] \in CourseTx
           /\ tx[t].pc \in EdgePcs => tx[t] \in EdgeTx
           /\ tx[t].pc = "idle" => tx[t] = Idle
<1>1. tx[t] \in Tx
  BY DEF TypeOK
<1> QED
  BY <1>1, KindOf

\* The lessons of a course can be counted.
LEMMA LessonsCounted ==
    ASSUME TypeOK, NEW c \in Courses
    PROVE  Cardinality(LessonsIn(c)) \in Nat
<1>1. LessonsIn(c) \subseteq Lessons
  BY DEF TypeOK, LessonsIn
<1>2. IsFiniteSet(LessonsIn(c))
  BY <1>1, FiniteAssumption, FS_Subset
<1> QED
  BY <1>2, FS_CardinalityType

\* Every step keeps the type of tx: it starts a transaction, moves it on to a
\* statement of the same kind, or ends it.
LEMMA TxType ==
    ASSUME TypeOK, NEW t \in Requests, Start(t) \/ Step(t) \/ Rollback(t)
    PROVE  tx' \in [Requests -> Tx]
<1> DEFINE New(r) == tx' = [tx EXCEPT ![t] = r]
<1> SUFFICES \E r \in Tx : New(r)
  BY DEF TypeOK
<1> USE PcKind DEF Goto, End
<1>1. Idle \in Tx
  BY DEF Tx
<1>2. CASE End(t)
  BY <1>1, <1>2
<1>3. CASE Start(t)
  <2>1. CASE \E e \in Enrollments : StartEnroll(t, e)
    BY <2>1 DEF StartEnroll, EnrollTx, Tx
  <2>2. CASE \E e \in Enrollments, l \in Lessons : StartComplete(t, e, l)
    <3>1. PICK e \in Enrollments, l \in Lessons : StartComplete(t, e, l)
      BY <2>2
    <3>2. enrollment[e] \in {"active", "completed"}
      BY <3>1 DEF StartComplete, TypeOK
    <3> DEFINE r == [pc |-> "record", key |-> e, lesson |-> l,
                     seen |-> enrollment[e], total |-> 0]
    <3>3. r \in CompleteTx
      BY <3>2 DEF CompleteTx
    <3> QED
      BY <3>1, <3>3 DEF StartComplete, Tx
  <2>3. ASSUME NEW c \in Courses, NEW s \in {"published", "archived", Keep},
               NEW k \in Caps \cup {Keep}, StartCourseWrite(t, c, s, k)
        PROVE  \E r \in Tx : New(r)
    <3> DEFINE r == [pc |-> "write", course |-> c,
                     status |-> IF s = status[c] THEN Keep ELSE s,
                     cap |-> IF k = maxStudents[c] THEN Keep ELSE k]
    <3>1. r \in CourseTx
      BY DEF CourseTx
    <3> QED
      BY <2>3, <3>1 DEF StartCourseWrite, Tx
  <2>4. CASE \E c \in Courses : StartUpdate(t, c) \/ StartPublish(t, c)
    BY <2>3, <2>4 DEF StartUpdate, StartPublish
  <2>5. CASE \E c, p \in Courses : StartAddPrerequisite(t, c, p)
    BY <2>5 DEF StartAddPrerequisite, EdgeTx, Tx
  <2> QED
    BY <1>3, <2>1, <2>2, <2>4, <2>5 DEF Start
<1>4. ASSUME NEW p, Goto(t, p),
             \/ tx[t].pc \in EnrollPcs /\ p \in EnrollPcs
             \/ tx[t].pc \in CompletePcs /\ p \in CompletePcs
             \/ tx[t].pc \in CoursePcs /\ p \in CoursePcs
             \/ tx[t].pc \in EdgePcs /\ p \in EdgePcs
      PROVE  \E r \in Tx : New(r)
  <2>1. [tx[t] EXCEPT !.pc = p] \in Tx
    BY <1>4, SameKind DEF Tx
  <2> QED
    BY <1>4, <2>1
<1>5. CASE EnrollStep(t)
  BY <1>2, <1>4, <1>5 DEF EnrollStep, LockCourse, CheckPrerequisites, CheckCapacity,
     InsertEnrollment, CommitEnroll, EnrollPcs
<1>6. CASE CountLessons(t)
  <2>1. Cardinality(LessonsIn(tx[t].key[2])) \in Nat
    <3>1. tx[t].key[2] \in Courses
      BY <1>6 DEF CountLessons, CompletePcs, CompleteTx, Enrollments
    <3> QED
      BY <3>1, LessonsCounted
  <2>2. [tx[t] EXCEPT !.pc = "count", !.total = Cardinality(LessonsIn(tx[t].key[2]))] \in Tx
    BY <1>6, <2>1, SameKind DEF CountLessons, CompletePcs, Tx
  <2> QED
    BY <1>6, <2>2 DEF CountLessons
<1>7. CASE CompleteStep(t)
  BY <1>2, <1>4, <1>6, <1>7 DEF CompleteStep, InsertProgress, CountProgress,
     UpdateEnrollment, IssueCertificate, CommitProgress, CompletePcs
<1>8. CASE CourseStep(t)
  BY <1>2, <1>4, <1>8 DEF CourseStep, WriteCourse, CommitCourse, InsertPrerequisite,
     CheckForeignKeys, CommitPrerequisite, CoursePcs, EdgePcs
<1> QED
  BY <1>2, <1>3, <1>5, <1>7, <1>8 DEF Step, Rollback

-----------------------------------------------------------------------------
(* Types                                                                    *)

\* The initial values have their types.
LEMMA TypeInit == Init => TypeOK
BY LessonsAssumption DEF Init, TypeOK, CourseStatus, Tx, Idle

\* Every step keeps the types.
LEMMA TypeNext == TypeOK /\ [Next]_vars => TypeOK'
<1> SUFFICES ASSUME TypeOK, [Next]_vars PROVE TypeOK'
  OBVIOUS
<1> USE DEF courseRows, learnRows, outbox
<1>1. ASSUME NEW t \in Requests, Start(t) \/ Step(t) \/ Rollback(t) PROVE TypeOK'
  <2>1. tx' \in [Requests -> Tx]
    BY <1>1, TxType
  <2>2. CASE CommitEnroll(t)
    <3>1. tx[t].key \in Enrollments
      BY <2>2, PcKind DEF CommitEnroll, EnrollPcs, EnrollTx
    <3> QED
      BY <2>1, <2>2, <3>1 DEF CommitEnroll, TypeOK
  <2>3. CASE CommitProgress(t)
    <3>1. tx[t].key \in Enrollments /\ tx[t].lesson \in Lessons
      BY <2>3, PcKind DEF CommitProgress, CompletePcs, CompleteTx
    <3>2. <<tx[t].key, tx[t].lesson>> \in ProgressRows
      BY <3>1 DEF ProgressRows
    <3> QED
      BY <2>1, <2>3, <3>1, <3>2 DEF CommitProgress, TypeOK
  <2>4. CASE CommitCourse(t)
    <3>1. tx[t] \in CourseTx
      BY <2>4, PcKind DEF CommitCourse, CoursePcs
    <3>2. status' \in [Courses -> CourseStatus] /\ maxStudents' \in [Courses -> Caps \cup {NoCap}]
      BY <2>4, <3>1 DEF CommitCourse, TypeOK, CourseTx, CourseStatus
    <3> QED
      BY <2>1, <2>4, <3>2 DEF CommitCourse, TypeOK
  <2>5. CASE CommitPrerequisite(t)
    <3>1. tx[t] \in EdgeTx
      BY <2>5, PcKind DEF CommitPrerequisite, EdgePcs
    <3> QED
      BY <2>1, <2>5, <3>1 DEF CommitPrerequisite, TypeOK, EdgeTx
  <2>6. CASE UNCHANGED <<courseRows, learnRows, outbox>>
    BY <2>1, <2>6 DEF TypeOK
  <2> QED
    BY <1>1, <2>2, <2>3, <2>4, <2>5, <2>6
       DEF Start, StartEnroll, StartComplete, StartUpdate, StartPublish, StartCourseWrite,
           StartAddPrerequisite, Step, EnrollStep, LockCourse, CheckPrerequisites,
           CheckCapacity, InsertEnrollment, CompleteStep, InsertProgress, CountLessons,
           CountProgress, UpdateEnrollment, IssueCertificate, CourseStep, WriteCourse,
           InsertPrerequisite, CheckForeignKeys, Rollback
<1>2. CASE RemovePrerequisite
  BY <1>2 DEF RemovePrerequisite, TypeOK
<1>3. CASE AddLesson
  BY <1>3 DEF AddLesson, TypeOK
<1>4. CASE UNCHANGED vars
  BY <1>4 DEF vars, TypeOK
<1> QED
  BY <1>1, <1>2, <1>3, <1>4 DEF Next

-----------------------------------------------------------------------------
(* Locks and unique keys                                                    *)

\* A step of t leaves the other transactions alone, and takes a lock or inserts
\* a unique key only when no other transaction stands in the way.
LEMMA StepShape ==
    ASSUME IndInv, NEW t \in Requests, Start(t) \/ Step(t) \/ Rollback(t)
    PROVE  /\ \A u \in Requests \ {t} : tx'[u] = tx[u]
           /\ \A c \in Courses :
                /\ HoldsForUpdate(t, c)' => HoldsForUpdate(t, c) \/ CanLockForUpdate(t, c)
                /\ HoldsUpdate(t, c)' => HoldsUpdate(t, c) \/ CanUpdate(t, c)
                /\ HoldsKeyShare(t, c)' => HoldsKeyShare(t, c) \/ CanKeyShare(t, c)
           /\ \A p \in ProgressRows :
                HasInserted(t, p)' =>
                    \/ HasInserted(t, p)
                    \/ p \notin progress /\ \A u \in Requests \ {t} : ~ HasInserted(u, p)
           /\ certificates \subseteq certificates'
<1> USE PcKind DEF IndInv, TypeOK, Goto, End, courseRows, learnRows, outbox
<1>1. CASE EnrollStep(t)
  BY <1>1 DEF EnrollStep, LockCourse, CheckPrerequisites, CheckCapacity, InsertEnrollment,
     CommitEnroll, HoldsForUpdate, HoldsUpdate, HoldsKeyShare, HasInserted, Idle,
     EnrollPcs, EnrollTx
<1>2. CASE CompleteStep(t)
  BY <1>2 DEF CompleteStep, InsertProgress, CountLessons, CountProgress, UpdateEnrollment,
     IssueCertificate, CommitProgress, HoldsForUpdate, HoldsUpdate, HoldsKeyShare,
     HasInserted, Idle, CompletePcs, CompleteTx
<1>3. CASE CourseStep(t)
  BY <1>3 DEF CourseStep, WriteCourse, CommitCourse, InsertPrerequisite,
     CheckForeignKeys, CommitPrerequisite, HoldsForUpdate, HoldsUpdate, HoldsKeyShare, HasInserted, Idle, CoursePcs, CourseTx,
     EdgePcs, EdgeTx
<1>4. CASE Start(t)
  BY <1>4 DEF Start, StartEnroll, StartComplete, StartUpdate, StartPublish,
     StartCourseWrite, StartAddPrerequisite, HoldsForUpdate, HoldsUpdate, HoldsKeyShare,
     HasInserted
<1>5. CASE Rollback(t)
  BY <1>5 DEF Rollback, HoldsForUpdate, HoldsUpdate, HoldsKeyShare, HasInserted, Idle
<1> QED
  BY <1>1, <1>2, <1>3, <1>4, <1>5 DEF Step

\* A step takes the FOR UPDATE lock of a course, or a lock of another mode on it,
\* only when no other transaction holds a conflicting one.
LEMMA LocksNext == IndInv /\ [Next]_vars => LocksExclusive'
<1> SUFFICES ASSUME IndInv, [Next]_vars PROVE LocksExclusive'
  OBVIOUS
<1> USE DEF LocksExclusive
<1>1. ASSUME NEW t \in Requests, Start(t) \/ Step(t) \/ Rollback(t) PROVE LocksExclusive'
  <2>1. ASSUME NEW u \in Requests \ {t}, NEW c \in Courses
        PROVE  /\ HoldsForUpdate(u, c)' <=> HoldsForUpdate(u, c)
               /\ HoldsUpdate(u, c)' <=> HoldsUpdate(u, c)
               /\ HoldsKeyShare(u, c)' => HoldsKeyShare(u, c)
    BY <1>1, StepShape DEF HoldsForUpdate, HoldsUpdate, HoldsKeyShare
  <2>2. ASSUME NEW c \in Courses, HoldsForUpdate(t, c)'
        PROVE  ~ (HoldsUpdate(t, c)' \/ HoldsKeyShare(t, c)')
    BY <2>2 DEF HoldsForUpdate, HoldsUpdate, HoldsKeyShare
  <2> QED
    BY <1>1, <2>1, <2>2, StepShape
       DEF IndInv, CanLockForUpdate, CanUpdate, CanKeyShare
<1>2. CASE RemovePrerequisite \/ AddLesson \/ UNCHANGED vars
  <2>1. tx' = tx /\ certificates' = certificates
    BY <1>2 DEF RemovePrerequisite, AddLesson, vars, learnRows
  <2> QED
    BY <2>1 DEF IndInv, HoldsForUpdate, HoldsUpdate, HoldsKeyShare
<1> QED
  BY <1>1, <1>2 DEF Next

\* A step inserts a progress row only when no other open transaction has, and a
\* commit turns an inserted row into a committed one.
LEMMA InsertsNext == IndInv /\ [Next]_vars => InsertsExclusive'
<1> SUFFICES ASSUME IndInv, [Next]_vars PROVE InsertsExclusive'
  OBVIOUS
<1> USE DEF InsertsExclusive
<1>1. ASSUME NEW t \in Requests, Start(t) \/ Step(t) \/ Rollback(t) PROVE InsertsExclusive'
  <2>1. \A u \in Requests \ {t}, p \in ProgressRows : HasInserted(u, p)' <=> HasInserted(u, p)
    BY <1>1, StepShape DEF HasInserted
  <2>2. CASE CommitProgress(t)
    <3>1. \A p \in ProgressRows : ~ HasInserted(t, p)'
      BY <2>2 DEF CommitProgress, End, HasInserted, Idle, IndInv, TypeOK
    <3>2. \A p \in progress' : p \in progress \/ HasInserted(t, p)
      BY <2>2 DEF CommitProgress, HasInserted
    <3> QED
      BY <2>1, <3>1, <3>2 DEF IndInv
  <2>3. CASE progress' = progress
    BY <1>1, <2>1, <2>3, StepShape DEF IndInv
  <2>4. CommitProgress(t) \/ progress' = progress
    BY <1>1 DEF Start, StartEnroll, StartComplete, StartUpdate, StartPublish, StartCourseWrite,
       StartAddPrerequisite, Step, EnrollStep, LockCourse, CheckPrerequisites, CheckCapacity,
       InsertEnrollment, CommitEnroll, CompleteStep, InsertProgress, CountLessons,
       CountProgress, UpdateEnrollment, IssueCertificate, CourseStep, WriteCourse,
       CommitCourse, InsertPrerequisite, CheckForeignKeys, CommitPrerequisite, Rollback, learnRows
  <2> QED
    BY <2>2, <2>3, <2>4
<1>2. CASE RemovePrerequisite \/ AddLesson \/ UNCHANGED vars
  <2>1. tx' = tx /\ progress' = progress
    BY <1>2 DEF RemovePrerequisite, AddLesson, vars, learnRows
  <2> QED
    BY <2>1 DEF IndInv, HasInserted
<1> QED
  BY <1>1, <1>2 DEF Next

-----------------------------------------------------------------------------
(* What the statements of enroll and complete_lesson have checked           *)

\* Only a commit changes committed rows.
LEMMA RowsChangeAtCommit ==
    ASSUME NEW t \in Requests, Start(t) \/ Step(t) \/ Rollback(t)
    PROVE  \/ CommitEnroll(t) \/ CommitProgress(t) \/ CommitCourse(t)
           \/ CommitPrerequisite(t) \/ UNCHANGED <<courseRows, learnRows, outbox>>
BY DEF Start, StartEnroll, StartComplete, StartUpdate, StartPublish, StartCourseWrite,
   StartAddPrerequisite, Step, EnrollStep, LockCourse, CheckPrerequisites, CheckCapacity,
   InsertEnrollment, CompleteStep, InsertProgress, CountLessons, CountProgress,
   UpdateEnrollment, IssueCertificate, CourseStep, WriteCourse, InsertPrerequisite,
   CheckForeignKeys, Rollback

\* The active enrollments of a course can be counted.
LEMMA ActiveFinite == \A c \in Courses : IsFiniteSet(ActiveIn(c)) /\ Cardinality(ActiveIn(c)) \in Nat
<1> TAKE c \in Courses
<1>1. IsFiniteSet(Students \X {c})
  BY FiniteAssumption, FS_Singleton, FS_Product
<1>2. ActiveIn(c) \subseteq Students \X {c}
  BY DEF ActiveIn, Enrollments
<1> QED
  BY <1>1, <1>2, FS_Subset, FS_CardinalityType

\* Room in a course is not lost while no active enrollment is added to it.
LEMMA RoomStays ==
    ASSUME NEW c \in Courses, HasRoom(c), maxStudents'[c] = maxStudents[c],
           maxStudents[c] \in Caps \cup {NoCap}, ActiveIn(c)' \subseteq ActiveIn(c)
    PROVE  HasRoom(c)'
<1>1. /\ Cardinality(ActiveIn(c)') \in Nat
      /\ Cardinality(ActiveIn(c)') <= Cardinality(ActiveIn(c))
  BY ActiveFinite, FS_Subset, FS_CardinalityType
<1>2. Cardinality(ActiveIn(c)) \in Nat
  BY ActiveFinite
<1>3. ASSUME maxStudents'[c] # NoCap PROVE Cardinality(ActiveIn(c)') < maxStudents'[c]
  <2>1. maxStudents[c] \in Nat
    BY <1>3, CapsAssumption
  <2>2. Cardinality(ActiveIn(c)) < maxStudents[c]
    BY <1>3 DEF HasRoom
  <2> QED
    BY <1>1, <1>2, <2>1, <2>2
<1> QED
  BY <1>3 DEF HasRoom

\* A transaction that holds a course row keeps its checks over any commit of
\* another one.
LEMMA ChecksKept ==
    ASSUME IndInv, NEW t \in Requests, NEW u \in Requests \ {t},
           tx'[u] = tx[u],
           tx[u].pc \in {"gate", "capacity", "insert", "enrolled"},
           CommitEnroll(t) \/ CommitProgress(t) \/ CommitCourse(t) \/ CommitPrerequisite(t)
    PROVE  /\ status'[tx[u].key[2]] = status[tx[u].key[2]]
           /\ UnmetPrerequisites(tx[u].key)' \subseteq UnmetPrerequisites(tx[u].key)
           /\ HasRoom(tx[u].key[2]) => HasRoom(tx[u].key[2])'
           /\ enrollment[tx[u].key] = "none" => enrollment'[tx[u].key] = "none"
<1> DEFINE e == tx[u].key
           c == e[2]
<1>1. tx[u] \in EnrollTx
  BY PcKind DEF IndInv, EnrollPcs
<1>2. e \in Enrollments /\ c \in Courses /\ e[1] \in Students /\ e = <<e[1], c>>
  BY <1>1 DEF EnrollTx, Enrollments
<1>3. HoldsForUpdate(u, c)
  BY DEF HoldsForUpdate
<1>4. ~ HoldsForUpdate(t, c) /\ ~ HoldsUpdate(t, c) /\ ~ HoldsKeyShare(t, c)
  BY <1>2, <1>3 DEF IndInv, LocksExclusive
<1>5. maxStudents[c] \in Caps \cup {NoCap}
  BY <1>2 DEF IndInv, TypeOK
<1>6. CASE CommitEnroll(t)
  <2>1. tx[t].key \in Enrollments /\ tx[t].key[2] # c
    BY <1>4, <1>6, PcKind DEF CommitEnroll, HoldsForUpdate, IndInv, EnrollPcs, EnrollTx
  <2>2. \A d \in Enrollments : d[2] = c => enrollment'[d] = enrollment[d]
    BY <1>6, <2>1 DEF CommitEnroll, IndInv, TypeOK
  <2>3. \A d \in Enrollments : enrollment[d] = "completed" => enrollment'[d] = "completed"
    BY <1>6, <2>1 DEF CommitEnroll, IndInv, TypeOK, ChecksHold, EnrollChecks
  <2>4. ActiveIn(c)' = ActiveIn(c) /\ maxStudents' = maxStudents
    BY <1>6, <2>2 DEF CommitEnroll, courseRows, ActiveIn
  <2>5. UnmetPrerequisites(e)' \subseteq UnmetPrerequisites(e)
    BY <1>2, <1>6, <2>3 DEF CommitEnroll, courseRows, UnmetPrerequisites, Enrollments
  <2>6. status' = status
    BY <1>6 DEF CommitEnroll, courseRows
  <2> QED
    BY <1>2, <1>5, <2>2, <2>4, <2>5, <2>6, RoomStays
<1>7. CASE CommitProgress(t)
  <2>1. tx[t].key \in Enrollments /\ enrollment[tx[t].key] # "none"
    BY <1>7, PcKind DEF CommitProgress, IndInv, ChecksHold, LessonChecks, CompletePcs, CompleteTx
  <2>2. \A d \in Enrollments : enrollment'[d] \in {enrollment[d], "completed"}
    BY <1>7, <2>1 DEF CommitProgress, IndInv, TypeOK
  <2>3. enrollment[e] = "none" => enrollment'[e] = "none"
    BY <1>2, <1>7, <2>1 DEF CommitProgress, IndInv, TypeOK
  <2>4. ActiveIn(c)' \subseteq ActiveIn(c) /\ maxStudents' = maxStudents /\ status' = status
    BY <1>7, <2>2 DEF CommitProgress, courseRows, ActiveIn
  <2>5. UnmetPrerequisites(e)' \subseteq UnmetPrerequisites(e)
    BY <1>2, <1>7, <2>2 DEF CommitProgress, courseRows, UnmetPrerequisites, Enrollments
  <2> QED
    BY <1>2, <1>5, <2>3, <2>4, <2>5, RoomStays
<1>8. CASE CommitCourse(t)
  <2>1. tx[t].course # c
    BY <1>4, <1>8 DEF CommitCourse, HoldsUpdate
  <2>2. /\ status'[c] = status[c] /\ maxStudents'[c] = maxStudents[c]
        /\ requires' = requires /\ enrollment' = enrollment
    BY <1>2, <1>8, <2>1 DEF CommitCourse, learnRows, IndInv, TypeOK
  <2> QED
    BY <1>2, <1>5, <2>2, RoomStays DEF ActiveIn, UnmetPrerequisites
<1>9. CASE CommitPrerequisite(t)
  <2>1. tx[t].course # c
    BY <1>4, <1>9 DEF CommitPrerequisite, HoldsKeyShare
  <2>2. /\ status' = status /\ maxStudents' = maxStudents /\ enrollment' = enrollment
        /\ requires' = requires \cup {<<tx[t].course, tx[t].prerequisite>>}
    BY <1>9 DEF CommitPrerequisite, learnRows
  <2>3. UnmetPrerequisites(e)' \subseteq UnmetPrerequisites(e)
    BY <2>1, <2>2 DEF UnmetPrerequisites
  <2> QED
    BY <1>2, <1>5, <2>2, <2>3, RoomStays DEF ActiveIn
<1> QED
  BY <1>6, <1>7, <1>8, <1>9

\* The checks a transaction itself makes as it goes.
LEMMA EnrollChecksMade ==
    ASSUME IndInv, NEW t \in Requests, Start(t) \/ Step(t) \/ Rollback(t)
    PROVE  EnrollChecks(t)'
<1> USE PcKind DEF IndInv, TypeOK, Goto, End, courseRows, learnRows, outbox
<1>1. CASE EnrollStep(t)
  <2>1. tx[t] \in EnrollTx /\ EnrollChecks(t)
    BY <1>1 DEF EnrollStep, LockCourse, CheckPrerequisites, CheckCapacity,
       InsertEnrollment, CommitEnroll, EnrollPcs, ChecksHold
  <2>2. CASE End(t)
    BY <2>2 DEF EnrollChecks, Idle
  <2>3. ASSUME NEW p \in EnrollPcs, Goto(t, p), UNCHANGED <<courseRows, learnRows>>,
               EnrollChecks(t),
               p \in {"gate", "capacity", "insert", "enrolled"} => status[tx[t].key[2]] = "published",
               p \in {"capacity", "insert", "enrolled"} => UnmetPrerequisites(tx[t].key) = {},
               p \in {"insert", "enrolled"} => HasRoom(tx[t].key[2]),
               p = "enrolled" => enrollment[tx[t].key] = "none"
        PROVE  EnrollChecks(t)'
    <3>1. tx'[t].pc = p /\ tx'[t].key = tx[t].key
      BY <2>1, <2>3 DEF EnrollTx
    <3>2. /\ UnmetPrerequisites(tx[t].key)' = UnmetPrerequisites(tx'[t].key)
          /\ HasRoom(tx[t].key[2])' = HasRoom(tx'[t].key[2])
      BY <2>3 DEF UnmetPrerequisites, HasRoom, ActiveIn
    <3> QED
      BY <2>3, <3>1, <3>2 DEF EnrollChecks
  <2>4. CASE LockCourse(t)
    BY <2>1, <2>2, <2>3, <2>4 DEF LockCourse, EnrollPcs
  <2>5. CASE CheckPrerequisites(t)
    BY <2>1, <2>2, <2>3, <2>5 DEF CheckPrerequisites, EnrollPcs, EnrollChecks
  <2>6. CASE CheckCapacity(t)
    BY <2>1, <2>2, <2>3, <2>6 DEF CheckCapacity, EnrollPcs, EnrollChecks
  <2>7. CASE InsertEnrollment(t)
    BY <2>1, <2>2, <2>3, <2>7 DEF InsertEnrollment, EnrollPcs, EnrollChecks
  <2>8. CASE CommitEnroll(t)
    BY <2>2, <2>8 DEF CommitEnroll
  <2> QED
    BY <1>1, <2>4, <2>5, <2>6, <2>7, <2>8 DEF EnrollStep
<1>2. CASE CompleteStep(t)
  BY <1>2 DEF CompleteStep, InsertProgress, CountLessons, CountProgress, UpdateEnrollment,
     IssueCertificate, CommitProgress, Idle, CompletePcs, CompleteTx, EnrollChecks
<1>3. CASE CourseStep(t)
  BY <1>3 DEF CourseStep, WriteCourse, CommitCourse, InsertPrerequisite,
     CheckForeignKeys, CommitPrerequisite, Idle, CoursePcs, CourseTx, EdgePcs, EdgeTx, EnrollChecks
<1>4. CASE Start(t)
  BY <1>4 DEF Start, StartEnroll, StartComplete, StartUpdate, StartPublish,
     StartCourseWrite, StartAddPrerequisite, EnrollChecks
<1>5. CASE Rollback(t)
  BY <1>5 DEF Rollback, Idle, EnrollChecks
<1> QED
  BY <1>1, <1>2, <1>3, <1>4, <1>5 DEF Step

\* Enrollments and lessons do not disappear.
LEMMA RowsStay ==
    ASSUME IndInv, [Next]_vars
    PROVE  /\ \A e \in Enrollments : enrollment[e] # "none" => enrollment'[e] # "none"
           /\ \A c \in Courses : LessonsIn(c) \subseteq LessonsIn(c)'
<1>1. ASSUME NEW t \in Requests, Start(t) \/ Step(t) \/ Rollback(t)
      PROVE  /\ \A e \in Enrollments : enrollment[e] # "none" => enrollment'[e] # "none"
             /\ lessons \subseteq lessons'
  BY <1>1, RowsChangeAtCommit DEF CommitEnroll, CommitProgress, CommitCourse,
     CommitPrerequisite, courseRows, learnRows, IndInv, TypeOK
<1>2. /\ \A e \in Enrollments : enrollment[e] # "none" => enrollment'[e] # "none"
      /\ lessons \subseteq lessons'
  BY <1>1 DEF Next, RemovePrerequisite, AddLesson, vars, courseRows, learnRows
<1> QED
  BY <1>2 DEF LessonsIn

\* The lesson check survives as long as the transaction works on the same rows.
LEMMA LessonChecksKept ==
    ASSUME IndInv, [Next]_vars, NEW u \in Requests, tx[u] \in CompleteTx,
           tx'[u].key = tx[u].key, tx'[u].lesson = tx[u].lesson
    PROVE  LessonChecks(u)'
<1>1. tx[u].key \in Enrollments /\ tx[u].key[2] \in Courses /\ tx[u].pc \in CompletePcs
  BY DEF CompleteTx, Enrollments, CompletePcs
<1>2. enrollment[tx[u].key] # "none" /\ tx[u].lesson \in LessonsIn(tx[u].key[2])
  BY <1>1 DEF IndInv, ChecksHold, LessonChecks, CompletePcs
<1>3. enrollment'[tx'[u].key] # "none" /\ tx'[u].lesson \in LessonsIn(tx[u].key[2])'
  BY <1>1, <1>2, RowsStay
<1>4. LessonsIn(tx[u].key[2])' = {l \in lessons' : CourseOf[l] = tx'[u].key[2]}
  BY DEF LessonsIn
<1> QED
  BY <1>3, <1>4 DEF LessonChecks

\* The checks that StartComplete makes before it begins.
LEMMA LessonChecksMade ==
    ASSUME IndInv, [Next]_vars, NEW t \in Requests, Start(t) \/ Step(t) \/ Rollback(t)
    PROVE  LessonChecks(t)'
<1> USE PcKind DEF IndInv, TypeOK, Goto, End, courseRows, learnRows, outbox
<1>1. CASE EnrollStep(t)
  BY <1>1 DEF EnrollStep, LockCourse, CheckPrerequisites, CheckCapacity,
     InsertEnrollment, CommitEnroll, Idle, EnrollPcs, EnrollTx, LessonChecks
<1>2. CASE CompleteStep(t)
  <2>1. tx[t] \in CompleteTx
    BY <1>2 DEF CompleteStep, InsertProgress, CountLessons, CountProgress,
       UpdateEnrollment, IssueCertificate, CommitProgress, CompletePcs
  <2>2. CASE tx'[t] = Idle
    BY <2>2 DEF LessonChecks, Idle
  <2>3. tx'[t] = Idle \/ (tx'[t].key = tx[t].key /\ tx'[t].lesson = tx[t].lesson)
    <3>1. CASE CountLessons(t)
      BY <2>1, <3>1 DEF CountLessons, CompleteTx
    <3>2. ASSUME NEW p \in CompletePcs, Goto(t, p)
          PROVE  tx'[t].key = tx[t].key /\ tx'[t].lesson = tx[t].lesson
      BY <2>1, <3>2 DEF CompleteTx
    <3>3. \/ CountLessons(t) \/ tx' = [tx EXCEPT ![t] = Idle]
          \/ \E p \in CompletePcs : Goto(t, p)
      BY <1>2 DEF CompleteStep, InsertProgress, CountProgress, UpdateEnrollment,
         IssueCertificate, CommitProgress, CompletePcs
    <3> QED
      BY <3>1, <3>2, <3>3
  <2> QED
    BY <2>1, <2>2, <2>3, LessonChecksKept
<1>3. CASE CourseStep(t)
  BY <1>3 DEF CourseStep, WriteCourse, CommitCourse, InsertPrerequisite, CheckForeignKeys,
     CommitPrerequisite, Idle, CoursePcs, CourseTx, EdgePcs, EdgeTx, LessonChecks
<1>4. CASE \E e \in Enrollments, l \in Lessons : StartComplete(t, e, l)
  <2>1. PICK e \in Enrollments, l \in Lessons : StartComplete(t, e, l)
    BY <1>4
  <2>2. tx'[t].key = e /\ tx'[t].lesson = l /\ enrollment' = enrollment /\ lessons' = lessons
    BY <2>1 DEF StartComplete
  <2>3. LessonsIn(e[2]) = {k \in lessons' : CourseOf[k] = tx'[t].key[2]}
    BY <2>2 DEF LessonsIn
  <2>4. LessonsIn(tx[t].key[2])' = {k \in lessons' : CourseOf[k] = tx'[t].key[2]}
    BY DEF LessonsIn
  <2> QED
    BY <2>1, <2>2, <2>3, <2>4 DEF StartComplete, LessonChecks
<1>5. CASE Start(t)
  BY <1>4, <1>5 DEF Start, StartEnroll, StartUpdate, StartPublish,
     StartCourseWrite, StartAddPrerequisite, LessonChecks
<1>6. CASE Rollback(t)
  BY <1>6 DEF Rollback, Idle, LessonChecks
<1> QED
  BY <1>1, <1>2, <1>3, <1>5, <1>6 DEF Step

\* What has been checked stays true through every step, of whichever transaction.
LEMMA ChecksNext == IndInv /\ [Next]_vars => ChecksHold'
<1> SUFFICES ASSUME IndInv, [Next]_vars, NEW u \in Requests
             PROVE  EnrollChecks(u)' /\ LessonChecks(u)'
  BY DEF ChecksHold
<1>0. EnrollChecks(u) /\ LessonChecks(u)
  BY DEF IndInv, ChecksHold
<1>1. ASSUME NEW t \in Requests, Start(t) \/ Step(t) \/ Rollback(t), u # t
      PROVE  EnrollChecks(u)' /\ LessonChecks(u)'
  <2>1. tx'[u] = tx[u]
    BY <1>1, StepShape
  <2>2. LessonChecks(u)'
    <3>1. CASE tx[u].pc \in CompletePcs
      BY <2>1, <3>1, PcKind, LessonChecksKept DEF IndInv
    <3>2. CASE tx[u].pc \notin CompletePcs
      BY <2>1, <3>2 DEF LessonChecks, CompletePcs
    <3> QED
      BY <3>1, <3>2
  <2>3. CASE tx[u].pc \notin {"gate", "capacity", "insert", "enrolled"}
    BY <2>1, <2>2, <2>3 DEF EnrollChecks
  <2>4. CASE /\ UNCHANGED <<courseRows, learnRows, outbox>>
             /\ tx[u].pc \in {"gate", "capacity", "insert", "enrolled"}
    BY <1>0, <2>1, <2>2, <2>4 DEF EnrollChecks, courseRows, learnRows, UnmetPrerequisites,
       HasRoom, ActiveIn
  <2>5. CASE /\ CommitEnroll(t) \/ CommitProgress(t) \/ CommitCourse(t) \/ CommitPrerequisite(t)
             /\ tx[u].pc \in {"gate", "capacity", "insert", "enrolled"}
    <3>1. /\ status'[tx[u].key[2]] = status[tx[u].key[2]]
          /\ UnmetPrerequisites(tx[u].key)' \subseteq UnmetPrerequisites(tx[u].key)
          /\ HasRoom(tx[u].key[2]) => HasRoom(tx[u].key[2])'
          /\ enrollment[tx[u].key] = "none" => enrollment'[tx[u].key] = "none"
      BY <1>1, <2>1, <2>5, ChecksKept
    <3>2. EnrollChecks(u)'
      BY <1>0, <2>1, <3>1 DEF EnrollChecks
    <3> QED
      BY <2>2, <3>2
  <2> QED
    BY <1>1, <2>3, <2>4, <2>5, RowsChangeAtCommit
<1>2. ASSUME NEW t \in Requests, Start(t) \/ Step(t) \/ Rollback(t), u = t
      PROVE  EnrollChecks(u)' /\ LessonChecks(u)'
  BY <1>2, EnrollChecksMade, LessonChecksMade
<1>3. CASE RemovePrerequisite \/ AddLesson \/ UNCHANGED vars
  <2>1. /\ tx' = tx /\ enrollment' = enrollment /\ status' = status
        /\ maxStudents' = maxStudents /\ requires' \subseteq requires
        /\ lessons \subseteq lessons'
    BY <1>3 DEF RemovePrerequisite, AddLesson, vars, courseRows, learnRows
  <2>2. EnrollChecks(u)'
    BY <1>0, <2>1 DEF EnrollChecks, UnmetPrerequisites, HasRoom, ActiveIn
  <2>3. LessonChecks(u)'
    BY <1>0, <2>1 DEF LessonChecks, LessonsIn
  <2> QED
    BY <2>2, <2>3
<1> QED
  BY <1>1, <1>2, <1>3 DEF Next

-----------------------------------------------------------------------------
(* Rows and events                                                          *)

\* A commit that adds a row adds its event, and nothing else adds either.
LEMMA EventsNext == IndInv /\ [Next]_vars => OneEventPerRow'
<1> SUFFICES ASSUME IndInv, [Next]_vars PROVE OneEventPerRow'
  OBVIOUS
<1> USE DEF OneEventPerRow
<1>1. ASSUME NEW t \in Requests, CommitEnroll(t) PROVE OneEventPerRow'
  <2>1. tx[t].key \in Enrollments /\ enrollment[tx[t].key] = "none"
    BY <1>1, PcKind DEF CommitEnroll, IndInv, ChecksHold, EnrollChecks, EnrollPcs, EnrollTx
  <2> QED
    BY <1>1, <2>1 DEF CommitEnroll, IndInv, TypeOK
<1>2. ASSUME NEW t \in Requests, CommitProgress(t) PROVE OneEventPerRow'
  <2>1. /\ tx[t].key \in Enrollments /\ tx[t].lesson \in Lessons
        /\ enrollment[tx[t].key] # "none"
    BY <1>2, PcKind DEF CommitProgress, IndInv, ChecksHold, LessonChecks, CompletePcs, CompleteTx
  <2> DEFINE p == <<tx[t].key, tx[t].lesson>>
  <2>2. p \in ProgressRows /\ p \notin progress
    BY <1>2, <2>1 DEF CommitProgress, ProgressRows, IndInv, InsertsExclusive, HasInserted
  <2>3. /\ progress' = progress \cup {p}
        /\ lessonCompleted' = [lessonCompleted EXCEPT ![p] = @ + 1]
        /\ userEnrolled' = userEnrolled
    BY <1>2 DEF CommitProgress
  <2>4. \A e \in Enrollments : enrollment'[e] = "none" <=> enrollment[e] = "none"
    BY <1>2, <2>1 DEF CommitProgress, IndInv, TypeOK
  <2>5. \A q \in ProgressRows : lessonCompleted'[q] = IF q \in progress' THEN 1 ELSE 0
    BY <2>2, <2>3 DEF IndInv, TypeOK
  <2> QED
    BY <2>3, <2>4, <2>5 DEF IndInv
<1>3. CASE UNCHANGED <<learnRows, outbox>>
  BY <1>3 DEF learnRows, outbox, IndInv
<1> QED
  BY <1>1, <1>2, <1>3, RowsChangeAtCommit DEF Next, CommitCourse, CommitPrerequisite,
     RemovePrerequisite, AddLesson, vars

\* Status, completion time, certificate and progress change together.
LEMMA RecordsNext == IndInv /\ [Next]_vars => RecordsAgree'
<1> SUFFICES ASSUME IndInv, [Next]_vars PROVE RecordsAgree'
  OBVIOUS
<1>0. \A e \in Enrollments, l \in Lessons :
          <<e, l>> \in progress => enrollment'[e] # "none" /\ l \in LessonsIn(e[2])'
  BY RowsStay DEF IndInv, RecordsAgree, Enrollments
<1>1. ASSUME NEW t \in Requests, CommitEnroll(t) PROVE RecordsAgree'
  <2>1. tx[t].key \in Enrollments /\ enrollment[tx[t].key] = "none"
    BY <1>1, PcKind DEF CommitEnroll, IndInv, ChecksHold, EnrollChecks, EnrollPcs, EnrollTx
  <2>2. progress' = progress /\ certificates' = certificates /\ completedAt' = completedAt
    BY <1>1 DEF CommitEnroll
  <2>3. \A e \in Enrollments : enrollment'[e] = "completed" <=> enrollment[e] = "completed"
    BY <1>1, <2>1 DEF CommitEnroll, IndInv, TypeOK
  <2> QED
    BY <1>0, <2>2, <2>3 DEF IndInv, RecordsAgree
<1>2. ASSUME NEW t \in Requests, CommitProgress(t) PROVE RecordsAgree'
  <2> DEFINE k == tx[t].key
  <2>1. /\ k \in Enrollments /\ tx[t].lesson \in Lessons /\ k[2] \in Courses
        /\ enrollment[k] # "none" /\ tx[t].lesson \in LessonsIn(k[2])
    BY <1>2, PcKind DEF CommitProgress, IndInv, ChecksHold, LessonChecks, CompletePcs,
       CompleteTx, Enrollments
  <2>2. enrollment'[k] # "none" /\ tx[t].lesson \in LessonsIn(k[2])
    BY <2>1, RowsStay
  <2>3. progress' = progress \cup {<<k, tx[t].lesson>>} /\ lessons' = lessons
    BY <1>2 DEF CommitProgress, courseRows
  <2>4. \A e \in Enrollments, l \in Lessons :
            <<e, l>> \in progress' => enrollment'[e] # "none" /\ l \in {m \in lessons' : CourseOf[m] = e[2]}
    BY <1>0, <2>2, <2>3 DEF LessonsIn
  <2>5. CASE tx[t].pc = "recorded"
    BY <1>2, <2>4, <2>5 DEF CommitProgress, IndInv, RecordsAgree, LessonsIn
  <2>6. CASE tx[t].pc = "certified"
    <3>1. /\ enrollment' = [enrollment EXCEPT ![k] = "completed"]
          /\ completedAt' = [completedAt EXCEPT ![k] = @ + 1]
          /\ certificates' = certificates \cup {k}
      BY <1>2, <2>6 DEF CommitProgress
    <3>2. \A e \in Enrollments : e \in certificates' <=> enrollment'[e] = "completed"
      BY <2>1, <3>1 DEF IndInv, RecordsAgree, TypeOK
    <3>3. \A e \in Enrollments : completedAt'[e] > 0 <=> enrollment'[e] = "completed"
      BY <2>1, <3>1 DEF IndInv, RecordsAgree, TypeOK
    <3> QED
      BY <2>4, <3>2, <3>3 DEF RecordsAgree, LessonsIn
  <2> QED
    BY <1>2, <2>5, <2>6 DEF CommitProgress
<1>3. CASE UNCHANGED learnRows
  BY <1>0, <1>3 DEF learnRows, IndInv, RecordsAgree
<1> QED
  BY <1>1, <1>2, <1>3, RowsChangeAtCommit DEF Next, CommitCourse, CommitPrerequisite,
     RemovePrerequisite, AddLesson, vars

-----------------------------------------------------------------------------
(* Theorems                                                                 *)

\* The initial states satisfy the inductive invariant.
LEMMA IndInit == Init => IndInv
<1> SUFFICES ASSUME Init PROVE IndInv
  OBVIOUS
<1>1. TypeOK
  BY TypeInit
<1>2. \A t \in Requests : tx[t].pc = "idle"
  BY DEF Init, Idle
<1>3. LocksExclusive /\ InsertsExclusive /\ ChecksHold
  BY <1>2 DEF LocksExclusive, InsertsExclusive, ChecksHold, HoldsForUpdate, HasInserted,
     EnrollChecks, LessonChecks
<1>4. OneEventPerRow /\ RecordsAgree
  BY DEF Init, OneEventPerRow, RecordsAgree
<1> QED
  BY <1>1, <1>3, <1>4 DEF IndInv

\* Every step keeps the inductive invariant.
LEMMA IndNext == IndInv /\ [Next]_vars => IndInv'
BY TypeNext, LocksNext, InsertsNext, ChecksNext, EventsNext, RecordsNext DEF IndInv

\* The inductive invariant holds of every behaviour: locks exclude each other
\* and what a transaction has checked under its lock stays true until it ends.
THEOREM InductiveInvariance == Spec => []IndInv
BY IndInit, IndNext, PTL DEF Spec

\* Types are respected, whatever the number of concurrent requests.
THEOREM TypeCorrect == Spec => []TypeOK
BY InductiveInvariance, PTL DEF IndInv

\* The transactional outbox of enroll and complete_lesson neither loses nor
\* doubles an event.
THEOREM OutboxCorrect == Spec => []OneEventPerRow
BY InductiveInvariance, PTL DEF IndInv

\* Certificates, completion times, statuses and progress rows agree.
THEOREM RecordsCorrect == Spec => []RecordsAgree
BY InductiveInvariance, PTL DEF IndInv

\* An enrollment appears only when enroll commits it, its checks still true.
LEMMA NewEnrollment ==
    ASSUME IndInv, [Next]_vars, NEW e \in Enrollments,
           enrollment[e] # "active", enrollment'[e] = "active"
    PROVE  \E t \in Requests : CommitEnroll(t) /\ tx[t].key = e /\ EnrollChecks(t)
<1>1. ASSUME NEW t \in Requests, CommitProgress(t) PROVE FALSE
  BY <1>1 DEF CommitProgress, IndInv, TypeOK
<1>2. PICK t \in Requests : CommitEnroll(t)
  BY <1>1, RowsChangeAtCommit DEF Next, CommitCourse, CommitPrerequisite, RemovePrerequisite,
     AddLesson, vars, learnRows
<1>3. tx[t].key = e
  BY <1>2 DEF CommitEnroll, IndInv, TypeOK
<1> QED
  BY <1>2, <1>3 DEF IndInv, ChecksHold

\* No interleaving of enrollments, completions and PATCHes of max_students
\* brings an enrollment in beyond the capacity in force.
THEOREM CapacityCorrect == Spec => WithinCapacity
<1> DEFINE Kept == \A c \in Courses :
         Cardinality(ActiveIn(c)') > Cardinality(ActiveIn(c)) =>
             \/ maxStudents[c] = NoCap
             \/ Cardinality(ActiveIn(c)') <= maxStudents[c]
<1>1. IndInv /\ [Next]_vars => Kept
  <2> SUFFICES ASSUME IndInv, [Next]_vars, NEW c \in Courses,
                      Cardinality(ActiveIn(c)') > Cardinality(ActiveIn(c)),
                      maxStudents[c] # NoCap
               PROVE  Cardinality(ActiveIn(c)') <= maxStudents[c]
    OBVIOUS
  <2>1. IsFiniteSet(ActiveIn(c)) /\ Cardinality(ActiveIn(c)) \in Nat
    BY ActiveFinite
  <2>2. \E e \in ActiveIn(c)' : e \notin ActiveIn(c)
    <3>1. SUFFICES ASSUME ActiveIn(c)' \subseteq ActiveIn(c) PROVE FALSE
      OBVIOUS
    <3>2. /\ Cardinality(ActiveIn(c)') \in Nat
          /\ Cardinality(ActiveIn(c)') <= Cardinality(ActiveIn(c))
      BY <2>1, <3>1, FS_Subset, FS_CardinalityType
    <3> QED
      BY <2>1, <3>2
  <2>3. PICK e \in Enrollments : e[2] = c /\ enrollment[e] # "active" /\ enrollment'[e] = "active"
    BY <2>2 DEF ActiveIn
  <2>4. PICK t \in Requests : CommitEnroll(t) /\ tx[t].key = e /\ EnrollChecks(t)
    BY <2>3, NewEnrollment
  <2>5. Cardinality(ActiveIn(c)) < maxStudents[c]
    BY <2>3, <2>4 DEF CommitEnroll, EnrollChecks, HasRoom
  <2>6. ActiveIn(c)' = ActiveIn(c) \cup {e}
    BY <2>3, <2>4 DEF CommitEnroll, ActiveIn, IndInv, TypeOK
  <2>7. Cardinality(ActiveIn(c)') \in {Cardinality(ActiveIn(c)), Cardinality(ActiveIn(c)) + 1}
    BY <2>1, <2>6, FS_AddElement
  <2>8. maxStudents[c] \in Nat
    BY CapsAssumption DEF IndInv, TypeOK
  <2> QED
    BY <2>1, <2>5, <2>7, <2>8
<1> QED
  BY InductiveInvariance, <1>1, PTL DEF Spec, WithinCapacity

\* At the commit of an enrollment the course is still published and every
\* prerequisite, those added meanwhile included, is completed.
THEOREM GateCorrect == Spec => EnrollsIntoOpenCourse
<1> DEFINE Open == \A e \in Enrollments :
         enrollment[e] = "none" /\ enrollment'[e] # "none" =>
             status[e[2]] = "published" /\ UnmetPrerequisites(e) = {}
<1>1. IndInv /\ [Next]_vars => Open
  <2> SUFFICES ASSUME IndInv, [Next]_vars, NEW e \in Enrollments,
                      enrollment[e] = "none", enrollment'[e] # "none"
               PROVE  status[e[2]] = "published" /\ UnmetPrerequisites(e) = {}
    OBVIOUS
  <2>1. ASSUME NEW t \in Requests, CommitProgress(t) PROVE FALSE
    BY <2>1, PcKind DEF CommitProgress, IndInv, ChecksHold, LessonChecks, TypeOK,
       CompletePcs, CompleteTx
  <2>2. PICK t \in Requests : CommitEnroll(t)
    BY <2>1, RowsChangeAtCommit DEF Next, CommitCourse, CommitPrerequisite,
       RemovePrerequisite, AddLesson, vars, learnRows
  <2>3. tx[t].key = e /\ tx[t].pc = "enrolled" /\ EnrollChecks(t)
    BY <2>2 DEF CommitEnroll, IndInv, TypeOK, ChecksHold
  <2> QED
    BY <2>3 DEF EnrollChecks
<1> QED
  BY InductiveInvariance, <1>1, PTL DEF Spec, EnrollsIntoOpenCourse

-----------------------------------------------------------------------------
(* The counts of complete_lesson                                            *)

\* A step keeps what the transaction t has loaded.
KeepsLesson(t) == /\ tx'[t].key = tx[t].key
                  /\ tx'[t].lesson = tx[t].lesson
                  /\ tx'[t].seen = tx[t].seen

\* How a transaction that completes a lesson gets to the statement it is at.
LEMMA CompleteShape ==
    ASSUME IndInv, NEW t \in Requests, Start(t) \/ Step(t) \/ Rollback(t), Completing(t)'
    PROVE  /\ UNCHANGED <<courseRows, learnRows, outbox>>
           /\ \/ /\ tx'[t].pc = "record"
                 /\ tx'[t].seen = enrollment[tx'[t].key]
              \/ /\ tx[t].pc = "record" /\ tx'[t].pc = "total"
                 /\ KeepsLesson(t)
              \/ /\ tx[t].pc = "total" /\ tx'[t].pc = "count"
                 /\ KeepsLesson(t)
                 /\ tx'[t].total = Cardinality(LessonsIn(tx[t].key[2]))
              \/ /\ tx[t].pc = "count" /\ tx'[t].pc = "complete"
                 /\ KeepsLesson(t) /\ tx'[t].total = tx[t].total
                 /\ IsLastLesson(t)
              \/ /\ tx[t].pc = "count" /\ tx'[t].pc = "recorded"
                 /\ KeepsLesson(t) /\ tx'[t].total = tx[t].total
                 /\ ~ IsLastLesson(t)
              \/ /\ \/ tx[t].pc = "complete" /\ tx'[t].pc = "issue"
                    \/ tx[t].pc = "issue" /\ tx'[t].pc = "certified"
                 /\ KeepsLesson(t) /\ tx'[t].total = tx[t].total
<1> USE PcKind DEF IndInv, TypeOK, Goto, End, Completing
<1>1. CASE EnrollStep(t)
  BY <1>1 DEF EnrollStep, LockCourse, CheckPrerequisites, CheckCapacity, InsertEnrollment,
     CommitEnroll, Idle, EnrollPcs, EnrollTx
<1>2. CASE CompleteStep(t)
  <2>1. tx[t] \in CompleteTx
    BY <1>2 DEF CompleteStep, InsertProgress, CountLessons, CountProgress,
       UpdateEnrollment, IssueCertificate, CommitProgress, CompletePcs
  <2>2. CASE CountLessons(t)
    BY <2>1, <2>2 DEF CountLessons, KeepsLesson, CompleteTx
  <2>3. ASSUME NEW p \in CompletePcs, Goto(t, p)
        PROVE  tx'[t].pc = p /\ KeepsLesson(t) /\ tx'[t].total = tx[t].total
    <3>1. tx'[t] = [tx[t] EXCEPT !.pc = p]
      BY <2>3
    <3> QED
      BY <2>1, <3>1 DEF KeepsLesson, CompleteTx
  <2>4. CASE InsertProgress(t)
    BY <2>3, <2>4 DEF InsertProgress, Idle, CompletePcs
  <2>5. CASE CountProgress(t)
    BY <2>3, <2>5 DEF CountProgress, CompletePcs
  <2>6. CASE UpdateEnrollment(t) \/ IssueCertificate(t)
    BY <2>3, <2>6 DEF UpdateEnrollment, IssueCertificate, CompletePcs
  <2>7. ~ CommitProgress(t)
    BY DEF CommitProgress, Idle
  <2> QED
    BY <1>2, <2>2, <2>4, <2>5, <2>6, <2>7 DEF CompleteStep
<1>3. CASE CourseStep(t)
  BY <1>3 DEF CourseStep, WriteCourse, CommitCourse, InsertPrerequisite,
     CheckForeignKeys, CommitPrerequisite, Idle, CoursePcs, CourseTx, EdgePcs, EdgeTx
<1>4. CASE Start(t)
  BY <1>4 DEF Start, StartEnroll, StartComplete, StartUpdate, StartPublish,
     StartCourseWrite, StartAddPrerequisite
<1>5. CASE Rollback(t)
  BY <1>5 DEF Rollback, Idle
<1> QED
  BY <1>1, <1>2, <1>3, <1>4, <1>5 DEF Step

\* The lessons a transaction counts are lessons of its course, and the sets that
\* are counted are finite.
LEMMA CountsDefined ==
    ASSUME IndInv
    PROVE  /\ \A S \in SUBSET Lessons : IsFiniteSet(S) /\ Cardinality(S) \in Nat
           /\ \A S \in SUBSET Lessons : \A T \in SUBSET S :
                 /\ Cardinality(T) <= Cardinality(S)
                 /\ Cardinality(S) <= Cardinality(T) => S = T
           /\ \A t \in Requests : Completing(t) =>
                 /\ tx[t] \in CompleteTx /\ tx[t].key \in Enrollments
                 /\ tx[t].key[2] \in Courses /\ tx[t].total \in Nat
                 /\ tx[t].lesson \in CountedLessons(t)
                 /\ CountedLessons(t) \subseteq LessonsIn(tx[t].key[2])
           /\ \A c : LessonsIn(c) \subseteq Lessons /\ InitialIn(c) \subseteq Lessons
<1>1. \A S \in SUBSET Lessons : IsFiniteSet(S) /\ Cardinality(S) \in Nat
  BY FiniteAssumption, FS_Subset, FS_CardinalityType
<1>2. ASSUME NEW S \in SUBSET Lessons, NEW T \in SUBSET S
      PROVE  /\ Cardinality(T) <= Cardinality(S)
             /\ Cardinality(S) <= Cardinality(T) => S = T
  BY <1>1, FS_Subset, T \in SUBSET Lessons
<1>3. ASSUME NEW t \in Requests, Completing(t)
      PROVE  /\ tx[t] \in CompleteTx /\ tx[t].key \in Enrollments
             /\ tx[t].key[2] \in Courses /\ tx[t].total \in Nat
             /\ tx[t].lesson \in CountedLessons(t)
             /\ CountedLessons(t) \subseteq LessonsIn(tx[t].key[2])
  <2>1. tx[t] \in CompleteTx
    BY <1>3, PcKind DEF Completing, CompletePcs, IndInv
  <2>2. tx[t].lesson \in LessonsIn(tx[t].key[2])
    BY <1>3 DEF Completing, IndInv, ChecksHold, LessonChecks
  <2>3. \A l \in Lessons : <<tx[t].key, l>> \in progress => l \in LessonsIn(tx[t].key[2])
    BY <2>1 DEF IndInv, RecordsAgree, CompleteTx
  <2> QED
    BY <2>1, <2>2, <2>3 DEF CompleteTx, CountedLessons, Enrollments
<1>4. \A c : LessonsIn(c) \subseteq Lessons /\ InitialIn(c) \subseteq Lessons
  BY LessonsAssumption DEF LessonsIn, InitialIn, IndInv, TypeOK
<1> QED
  BY <1>1, <1>2, <1>3, <1>4

\* Committed rows of lessons and of progress are only added.
LEMMA RowsOnlyAdded ==
    ASSUME [Next]_vars
    PROVE  lessons \subseteq lessons' /\ progress \subseteq progress'
BY RowsChangeAtCommit DEF Next, CommitEnroll, CommitProgress, CommitCourse, CommitPrerequisite,
   RemovePrerequisite, AddLesson, vars, courseRows, learnRows

\* The lessons completed of an enrollment can be counted, and only grow.
LEMMA DoneGrows ==
    ASSUME IndInv, [Next]_vars, NEW e \in Enrollments
    PROVE  /\ Cardinality(DoneIn(e)) \in Nat /\ Cardinality(DoneIn(e)') \in Nat
           /\ Cardinality(DoneIn(e)) <= Cardinality(DoneIn(e)')
<1>1. DoneIn(e) \in SUBSET DoneIn(e)' /\ DoneIn(e)' \in SUBSET Lessons /\ DoneIn(e) \in SUBSET Lessons
  BY RowsOnlyAdded DEF DoneIn
<1> QED
  BY <1>1, CountsDefined

\* What a transaction has counted stays enough: lessons and progress rows are only
\* added, and it commits the rows it has counted.
LEMMA EnoughNext == IndInv /\ CountsEnough /\ [Next]_vars => CountsEnough'
<1> SUFFICES ASSUME IndInv, CountsEnough, [Next]_vars PROVE CountsEnough'
  OBVIOUS
<1> DEFINE Total(u) == tx[u].pc \in {"count", "complete", "issue", "certified"} =>
                           tx[u].total >= Cardinality(InitialIn(tx[u].key[2]))
<1> DEFINE Counted(u) == tx[u].pc \in {"complete", "issue", "certified"} =>
                           Cardinality(CountedLessons(u)) >= tx[u].total
<1>0. /\ lessons \subseteq lessons' /\ progress \subseteq progress'
      /\ InitialLessons \subseteq lessons
      /\ \A u \in Requests : Total(u) /\ Counted(u)
      /\ CertificateHasEnoughLessons
  BY RowsOnlyAdded DEF CountsEnough
<1>1. \A e \in Enrollments : /\ Cardinality(DoneIn(e)) \in Nat /\ Cardinality(DoneIn(e)') \in Nat
                              /\ Cardinality(DoneIn(e)) <= Cardinality(DoneIn(e)')
  BY DoneGrows
<1>2. \A c : Cardinality(InitialIn(c)) \in Nat
  BY CountsDefined
<1>3. ASSUME NEW u \in Requests, tx'[u].pc = tx[u].pc, tx'[u].key = tx[u].key,
             tx'[u].lesson = tx[u].lesson, tx'[u].total = tx[u].total
      PROVE  Total(u)' /\ Counted(u)'
  <2>1. CASE tx[u].pc \in {"count", "complete", "issue", "certified"}
    <3>1. CountedLessons(u)' = {l \in Lessons : <<tx[u].key, l>> \in progress' \/ l = tx[u].lesson}
      BY <1>3 DEF CountedLessons
    <3>2. CountedLessons(u) \subseteq CountedLessons(u)' /\ CountedLessons(u)' \subseteq Lessons
      BY <1>0, <3>1 DEF CountedLessons
    <3>3. /\ Cardinality(CountedLessons(u)) \in Nat /\ Cardinality(CountedLessons(u)') \in Nat
          /\ Cardinality(CountedLessons(u)) <= Cardinality(CountedLessons(u)')
      BY <3>2, CountsDefined
    <3>4. tx[u].total \in Nat
      BY <2>1, CountsDefined DEF Completing
    <3> QED
      BY <1>0, <1>3, <3>3, <3>4 DEF InitialIn
  <2> QED
    BY <1>3, <2>1
<1>4. ASSUME NEW t \in Requests, Start(t) \/ Step(t) \/ Rollback(t)
      PROVE  Total(t)' /\ Counted(t)'
  <2>1. CASE tx'[t].pc = "count"
    <3>1. /\ tx[t].pc = "total" /\ tx'[t].key = tx[t].key
          /\ tx'[t].total = Cardinality(LessonsIn(tx[t].key[2]))
      BY <1>4, <2>1, CompleteShape DEF Completing, KeepsLesson
    <3>2. InitialIn(tx[t].key[2]) \in SUBSET LessonsIn(tx[t].key[2])
      BY <1>0 DEF InitialIn, LessonsIn
    <3>3. Cardinality(InitialIn(tx[t].key[2])) <= Cardinality(LessonsIn(tx[t].key[2]))
      BY <3>2, CountsDefined
    <3>4. Cardinality(LessonsIn(tx[t].key[2])) \in Nat
      BY CountsDefined
    <3> QED
      BY <1>2, <2>1, <3>1, <3>3, <3>4 DEF InitialIn
  <2>2. CASE tx'[t].pc \in {"complete", "issue", "certified"}
    <3>1. /\ tx[t].pc \in {"count", "complete", "issue"}
          /\ KeepsLesson(t) /\ tx'[t].total = tx[t].total /\ progress' = progress
          /\ tx'[t].pc = "complete" => IsLastLesson(t)
          /\ tx'[t].pc # "complete" => tx[t].pc \in {"complete", "issue"}
      BY <1>4, <2>2, CompleteShape DEF Completing, learnRows
    <3>2. CountedLessons(t)' = CountedLessons(t)
      BY <3>1 DEF CountedLessons, KeepsLesson
    <3>3. Cardinality(CountedLessons(t)) >= tx[t].total
      BY <1>0, <2>2, <3>1 DEF IsLastLesson
    <3> QED
      BY <1>0, <2>2, <3>1, <3>2, <3>3 DEF KeepsLesson, InitialIn
  <2> QED
    BY <2>1, <2>2
<1>5. \A u \in Requests : Total(u)' /\ Counted(u)'
  <2>1. ASSUME NEW t \in Requests, Start(t) \/ Step(t) \/ Rollback(t)
        PROVE  \A u \in Requests : Total(u)' /\ Counted(u)'
    <3> HIDE DEF Total, Counted
    <3> QED
      BY <1>3, <1>4, <2>1, StepShape
  <2>2. CASE RemovePrerequisite \/ AddLesson \/ UNCHANGED vars
    <3>1. tx' = tx
      BY <2>2 DEF RemovePrerequisite, AddLesson, vars
    <3> HIDE DEF Total, Counted
    <3> QED
      BY <1>3, <3>1
  <2> QED
    BY <2>1, <2>2 DEF Next
<1>6. CertificateHasEnoughLessons'
  <2> SUFFICES ASSUME NEW e \in Enrollments, e \in certificates'
               PROVE  Cardinality(DoneIn(e)') >= Cardinality(InitialIn(e[2]))
    <3>1. certificates' \subseteq Enrollments
      BY TypeNext DEF IndInv, TypeOK
    <3> QED
      BY <3>1 DEF CertificateHasEnoughLessons, InitialIn
  <2>1. CASE e \in certificates
    <3>1. Cardinality(DoneIn(e)) >= Cardinality(InitialIn(e[2]))
      BY <1>0, <2>1 DEF CertificateHasEnoughLessons, InitialIn
    <3> QED
      BY <1>1, <1>2, <3>1
  <2>2. CASE e \notin certificates
    <3>1. PICK t \in Requests : CommitProgress(t) /\ tx[t].pc = "certified" /\ tx[t].key = e
      BY <2>2, RowsChangeAtCommit DEF Next, CommitEnroll, CommitProgress, CommitCourse,
         CommitPrerequisite, RemovePrerequisite, AddLesson, vars, learnRows
    <3>2. DoneIn(e)' = CountedLessons(t)
      BY <3>1 DEF CommitProgress, CountedLessons, DoneIn
    <3>3. /\ Cardinality(CountedLessons(t)) >= tx[t].total
          /\ tx[t].total >= Cardinality(InitialIn(e[2]))
      BY <1>0, <3>1
    <3>4. tx[t].total \in Nat
      BY <3>1, CountsDefined DEF Completing
    <3> QED
      BY <1>1, <1>2, <3>2, <3>3, <3>4
  <2> QED
    BY <2>1, <2>2
<1> QED
  BY <1>0, <1>5, <1>6 DEF CountsEnough, InitialIn

\* Whoever writes the completion time commits one more completed lesson with it;
\* the first one has counted enough of them.
LEMMA BoundedNext ==
    IndInv /\ CountsEnough' /\ CompletionsBounded /\ [Next]_vars => CompletionsBounded'
<1> SUFFICES ASSUME IndInv, CountsEnough', CompletionsBounded, [Next]_vars,
                    NEW e \in Enrollments, completedAt'[e] > 0
             PROVE  completedAt'[e] + Cardinality(InitialIn(e[2])) <= Cardinality(DoneIn(e)') + 1
  BY DEF CompletionsBounded, InitialIn
<1>1. /\ Cardinality(InitialIn(e[2])) \in Nat /\ completedAt[e] \in Nat
      /\ completedAt[e] > 0 =>
            completedAt[e] + Cardinality(InitialIn(e[2])) <= Cardinality(DoneIn(e)) + 1
  BY CountsDefined DEF CompletionsBounded, IndInv, TypeOK
<1>2. /\ Cardinality(DoneIn(e)) \in Nat /\ Cardinality(DoneIn(e)') \in Nat
      /\ Cardinality(DoneIn(e)) <= Cardinality(DoneIn(e)')
  BY DoneGrows
<1>3. CASE completedAt'[e] = completedAt[e]
  BY <1>1, <1>2, <1>3
<1>4. CASE completedAt'[e] # completedAt[e]
  <2>1. PICK t \in Requests : CommitProgress(t) /\ tx[t].pc = "certified"
    BY <1>4, RowsChangeAtCommit DEF Next, CommitEnroll, CommitProgress, CommitCourse,
       CommitPrerequisite, RemovePrerequisite, AddLesson, vars, learnRows
  <2>2. /\ tx[t].key = e /\ completedAt'[e] = completedAt[e] + 1 /\ e \in certificates'
        /\ progress' = progress \cup {<<e, tx[t].lesson>>}
    BY <1>4, <2>1 DEF CommitProgress, IndInv, TypeOK
  <2>3. tx[t].lesson \in Lessons \ DoneIn(e)
    BY <2>1, <2>2, PcKind DEF IndInv, InsertsExclusive, HasInserted, ProgressRows,
       CompletePcs, CompleteTx, DoneIn
  <2>4. DoneIn(e)' = DoneIn(e) \cup {tx[t].lesson}
    BY <2>2, <2>3 DEF DoneIn
  <2>5. Cardinality(DoneIn(e)') = Cardinality(DoneIn(e)) + 1
    <3>1. IsFiniteSet(DoneIn(e))
      BY CountsDefined DEF DoneIn
    <3> QED
      BY <2>3, <2>4, <3>1, FS_AddElement
  <2>6. Cardinality(DoneIn(e)') >= Cardinality(InitialIn(e[2]))
    BY <2>2 DEF CountsEnough, CertificateHasEnoughLessons, InitialIn
  <2> QED
    BY <1>1, <1>2, <2>2, <2>5, <2>6
<1> QED
  BY <1>3, <1>4

\* At the start nothing is counted and nothing is completed.
LEMMA CountsInit == Init => CountsEnough /\ CompletionsBounded
<1> SUFFICES ASSUME Init PROVE CountsEnough /\ CompletionsBounded
  OBVIOUS
<1>1. \A t \in Requests : tx[t].pc = "idle"
  BY DEF Init, Idle
<1> QED
  BY <1>1 DEF Init, CountsEnough, CompletionsBounded, CertificateHasEnoughLessons

\* However many requests complete lessons while others are added, a certificate
\* goes with at least as many completed lessons as the course had at the start.
THEOREM CertificatesEarned == Spec => []CertificateHasEnoughLessons
<1>1. CountsEnough => CertificateHasEnoughLessons
  BY DEF CountsEnough
<1> QED
  BY InductiveInvariance, CountsInit, EnoughNext, <1>1, PTL DEF Spec

\* Completions of one enrollment may race in any way: in a course to which no
\* lesson has been added a certificate is for all of the lessons.  It takes a lesson
\* added between the two counts to issue one too early.
THEOREM CertificatesOfUnchangedCourses == Spec => []UnchangedCourseIsCovered
<1>1. IndInv /\ CountsEnough => UnchangedCourseIsCovered
  <2> SUFFICES ASSUME IndInv, CountsEnough, NEW e \in certificates,
                      LessonsIn(e[2]) = InitialIn(e[2])
               PROVE  LessonsIn(e[2]) \subseteq DoneIn(e)
    BY DEF UnchangedCourseIsCovered
  <2>1. DoneIn(e) \in SUBSET LessonsIn(e[2]) /\ LessonsIn(e[2]) \in SUBSET Lessons
    <3>1. e \in Enrollments
      BY DEF IndInv, TypeOK
    <3> QED
      BY <3>1, CountsDefined DEF IndInv, RecordsAgree, DoneIn
  <2>2. Cardinality(DoneIn(e)) >= Cardinality(LessonsIn(e[2]))
    BY DEF CountsEnough, CertificateHasEnoughLessons
  <2>3. Cardinality(DoneIn(e)) \in Nat /\ Cardinality(LessonsIn(e[2])) \in Nat
    BY <2>1, CountsDefined
  <2> QED
    BY <2>1, <2>2, <2>3, CountsDefined
<1> QED
  BY <1>1, InductiveInvariance, CountsInit, EnoughNext, PTL DEF Spec

\* Requests that loaded the status before one of them completed the enrollment
\* may write the completion time again, but never more often than lessons have
\* been completed beyond those of the start.
THEOREM CompletionsAreBounded == Spec => []CompletionsBounded
BY InductiveInvariance, CountsInit, EnoughNext, BoundedNext, PTL DEF Spec

\* Every request for the enrollment e loaded that it is completed, and does not get
\* to the statements that complete it.
AllSawCompleted(e) ==
    \A t \in Requests : Completing(t) /\ tx[t].key = e =>
        tx[t].seen = "completed" /\ tx[t].pc \notin {"complete", "issue", "certified"}

\* This stays so, and none of these requests writes the completion time.
LEMMA SettledNext ==
    ASSUME NEW e \in Enrollments, NEW n \in Nat, n > 0,
           IndInv, completedAt[e] = n, AllSawCompleted(e), [Next]_vars
    PROVE  completedAt'[e] = n /\ AllSawCompleted(e)'
<1>1. enrollment[e] = "completed"
  BY DEF IndInv, RecordsAgree
<1>2. completedAt'[e] = completedAt[e]
  <2>1. ASSUME NEW t \in Requests, CommitProgress(t), tx[t].pc = "certified"
        PROVE  tx[t].key # e
    BY <2>1 DEF AllSawCompleted, Completing
  <2> QED
    BY <2>1, RowsChangeAtCommit DEF Next, CommitEnroll, CommitProgress, CommitCourse,
       CommitPrerequisite, RemovePrerequisite, AddLesson, vars, learnRows, IndInv, TypeOK
<1>3. ASSUME NEW t \in Requests, Start(t) \/ Step(t) \/ Rollback(t),
             Completing(t)', tx'[t].key = e
      PROVE  tx'[t].seen = "completed" /\ tx'[t].pc \notin {"complete", "issue", "certified"}
  BY <1>1, <1>3, CompleteShape DEF AllSawCompleted, Completing, KeepsLesson, IsLastLesson
<1>4. ASSUME NEW t \in Requests, Start(t) \/ Step(t) \/ Rollback(t) PROVE AllSawCompleted(e)'
  BY <1>3, <1>4, StepShape DEF AllSawCompleted, Completing
<1>5. CASE tx' = tx
  BY <1>2, <1>5 DEF AllSawCompleted, Completing
<1> QED
  BY <1>2, <1>4, <1>5 DEF Next, RemovePrerequisite, AddLesson, vars

\* A completed enrollment for which no request runs keeps its completion time,
\* whatever comes later.
THEOREM CompletionTimeStays == Spec => CompletionTimeSettles
<1> SUFFICES ASSUME NEW e \in Enrollments, NEW n \in 1 .. Cardinality(Lessons)
             PROVE  Spec => []( /\ completedAt[e] = n
                                /\ \A t \in Requests : Completing(t) => tx[t].key # e
                                => [](completedAt[e] = n))
  BY DEF CompletionTimeSettles
<1> DEFINE Quiet == completedAt[e] = n /\ \A t \in Requests : Completing(t) => tx[t].key # e
           Settled == completedAt[e] = n /\ AllSawCompleted(e)
<1>1. Quiet => Settled
  BY DEF AllSawCompleted
<1>2. IndInv /\ Settled /\ [Next]_vars => Settled'
  <2>1. n \in Nat /\ n > 0
    BY FiniteAssumption, FS_CardinalityType
  <2> QED
    BY <2>1, SettledNext
<1>3. Settled => completedAt[e] = n
  OBVIOUS
<1> QED
  BY <1>1, <1>2, <1>3, InductiveInvariance, PTL DEF Spec

-----------------------------------------------------------------------------
(* Waiting                                                                  *)

\* A request that waits for no other finds the guard of its next statement open:
\* WaitsFor leaves nothing out that the statements of the model wait for.
LEMMA OnlyWaitersWait ==
    ASSUME NEW t \in Requests, \A u \in Requests : ~ WaitsFor(t, u)
    PROVE  /\ tx[t].pc = "lock" => CanLockForUpdate(t, tx[t].key[2])
           /\ tx[t].pc = "write" => CanUpdate(t, tx[t].course)
           /\ tx[t].pc = "record" =>
                 \A u \in Requests \ {t} : ~ HasInserted(u, <<tx[t].key, tx[t].lesson>>)
           /\ tx[t].pc = "complete" =>
                 \A u \in Requests \ {t} : ~ HasCompleted(u, tx[t].key)
           /\ tx[t].pc = "issue" =>
                 tx[t].key \in certificates \/ CanKeyShare(t, tx[t].key[2])
           /\ tx[t].pc = "edge" =>
                 LET edge == <<tx[t].course, tx[t].prerequisite>>
                 IN edge \in requires \/ \A u \in Requests \ {t} : ~ HasAdded(u, edge)
           /\ tx[t].pc = "lockCourse" => CanKeyShare(t, tx[t].course)
           /\ tx[t].pc = "lockPrerequisite" => CanKeyShare(t, tx[t].prerequisite)
BY DEF WaitsFor, CanLockForUpdate, CanUpdate, CanKeyShare

\* Whoever is waited for is further on.  Nobody waits that holds the lock enroll
\* takes, or has written a course row or committed what it adds to it; a request
\* that checks a foreign key waits for those at most, one that writes an enrollment,
\* a course row or a prerequisite, or locks a course, also for requests that check
\* a foreign key, and one that inserts a progress row for all of these.
ToGo ==
    [record |-> 3, complete |-> 2, lock |-> 2, write |-> 2, edge |-> 2,
     issue |-> 1, lockCourse |-> 1, lockPrerequisite |-> 1]

LEMMA WaitedForIsFurther ==
    ASSUME NEW t \in Requests, NEW u \in Requests, WaitsFor(t, u)
    PROVE  /\ tx[t].pc \in DOMAIN ToGo
           /\ tx[u].pc \in DOMAIN ToGo => ToGo[tx[u].pc] < ToGo[tx[t].pc]
BY DEF WaitsFor, ToGo, HoldsForUpdate, HoldsUpdate, HoldsKeyShare, HasInserted,
       HasCompleted, HasAdded

\* However many requests wait for row locks, foreign keys and unique keys at once,
\* they never do so in a circle: Postgres has no deadlock to break, and of the
\* requests that are running one can always go on.
THEOREM WaitsHaveAnEnd == Spec => []NoCircularWait
<1>1. NoCircularWait
  <2> SUFFICES ASSUME NEW S \in SUBSET {t \in Requests : tx[t] # Idle},
                      \A t \in S : \E u \in S : WaitsFor(t, u)
               PROVE  S = {}
    BY DEF NoCircularWait
  <2>1. ASSUME NEW t \in S PROVE tx[t].pc \in DOMAIN ToGo
    BY WaitedForIsFurther
  <2> DEFINE R(t) == ToGo[tx[t].pc]
  <2>2. ASSUME NEW t \in S
        PROVE  \E u \in S : R(u) < R(t)
    <3>1. PICK u \in S : WaitsFor(t, u)
      OBVIOUS
    <3> QED
      BY <2>1, <3>1, WaitedForIsFurther
  <2>3. \A t \in S : R(t) \in {1, 2, 3}
    BY <2>1 DEF ToGo
  <2> HIDE DEF R
  <2>4. ASSUME NEW t \in S PROVE R(t) # 1
    <3>1. PICK u \in S : R(u) < R(t)
      BY <2>2
    <3> QED
      BY <2>3, <3>1
  <2>5. ASSUME NEW t \in S PROVE R(t) # 2
    <3>1. PICK u \in S : R(u) < R(t)
      BY <2>2
    <3> QED
      BY <2>3, <2>4, <3>1
  <2>6. ASSUME NEW t \in S PROVE FALSE
    <3>1. PICK u \in S : R(u) < R(t)
      BY <2>2
    <3> QED
      BY <2>3, <2>4, <2>5, <3>1
  <2> QED
    BY <2>6
<1> QED
  BY <1>1, PTL

-----------------------------------------------------------------------------
(* The contract                                                             *)

\* Whoever adds a prerequisite has been refused the course itself.
LEMMA SelfEdgeNext == IndInv /\ NoSelfEdge /\ [Next]_vars => NoSelfEdge'
<1> SUFFICES ASSUME IndInv, NoSelfEdge, [Next]_vars PROVE NoSelfEdge'
  OBVIOUS
<1>1. ASSUME NEW t \in Requests, Start(t) \/ Step(t) \/ Rollback(t), AddsEdge(t)'
      PROVE  tx'[t].course # tx'[t].prerequisite
  <2> USE PcKind DEF IndInv, TypeOK, Goto, End, AddsEdge, NoSelfEdge
  <2>1. CASE EnrollStep(t)
    BY <1>1, <2>1 DEF EnrollStep, LockCourse, CheckPrerequisites, CheckCapacity,
       InsertEnrollment, CommitEnroll, Idle, EnrollPcs, EnrollTx
  <2>2. CASE CompleteStep(t)
    BY <1>1, <2>2 DEF CompleteStep, InsertProgress, CountLessons, CountProgress,
       UpdateEnrollment, IssueCertificate, CommitProgress, Idle, CompletePcs, CompleteTx
  <2>3. CASE CourseStep(t)
    BY <1>1, <2>3 DEF CourseStep, WriteCourse, CommitCourse, InsertPrerequisite, CheckForeignKeys,
       CommitPrerequisite, Idle, CoursePcs, CourseTx, EdgePcs, EdgeTx
  <2>4. CASE Start(t)
    BY <1>1, <2>4 DEF Start, StartEnroll, StartComplete, StartUpdate, StartPublish,
       StartCourseWrite, StartAddPrerequisite
  <2>5. CASE Rollback(t)
    BY <1>1, <2>5 DEF Rollback, Idle
  <2> QED
    BY <1>1, <2>1, <2>2, <2>3, <2>4, <2>5 DEF Step
<1>2. ASSUME NEW t \in Requests, Start(t) \/ Step(t) \/ Rollback(t) PROVE NoSelfEdge'
  <2>1. \A u \in Requests \ {t} : tx'[u] = tx[u]
    BY <1>2, StepShape
  <2> QED
    BY <1>1, <1>2, <2>1 DEF NoSelfEdge, AddsEdge
<1>3. CASE tx' = tx
  BY <1>3 DEF NoSelfEdge, AddsEdge
<1> QED
  BY <1>2, <1>3 DEF Next, RemovePrerequisite, AddLesson, vars

\* The contract counts as the service does.
LEMMA SameCount == \A S : Contract!Cardinality(S) = Cardinality(S)
BY DEF Contract!Cardinality, Cardinality

\* The commit of enroll is the step of the contract: its checks still hold.
LEMMA EnrollIsAtomic ==
    ASSUME IndInv, NEW t \in Requests, CommitEnroll(t)
    PROVE  Contract!Next
<1>1. PICK s \in Students, c \in Courses : tx[t].key = <<s, c>>
  BY PcKind DEF CommitEnroll, EnrollPcs, EnrollTx, Enrollments, IndInv
<1>2. EnrollChecks(t) /\ tx[t].pc = "enrolled"
  BY DEF CommitEnroll, IndInv, ChecksHold
<1>3. /\ status[c] = "published" /\ enrollment[<<s, c>>] = "none"
      /\ UnmetPrerequisites(<<s, c>>) = {} /\ HasRoom(c)
  BY <1>1, <1>2 DEF EnrollChecks
<1>4. \A p \in Courses : <<c, p>> \in requires => enrollment[<<s, p>>] = "completed"
  BY <1>3 DEF UnmetPrerequisites
<1>5. maxStudents[c] = NoCap \/ Contract!Seats(c) < maxStudents[c]
  BY <1>3, SameCount DEF HasRoom, ActiveIn, Contract!Seats, Enrollments, Contract!Enrollments
<1>6. Contract!Enroll(s, c)
  BY <1>1, <1>3, <1>4, <1>5
     DEF CommitEnroll, Contract!Enroll, Contract!courseVars, courseRows
<1> QED
  BY <1>6 DEF Contract!Next

\* The commit of complete_lesson is the step of the contract: the row is new, and
\* with the enrollment completed the count was enough.
LEMMA CompleteIsAtomic ==
    ASSUME IndInv, CountsEnough, CountsEnough', NEW t \in Requests, CommitProgress(t)
    PROVE  Contract!Next
<1>0. PICK e \in Enrollments, l \in Lessons : e = tx[t].key /\ l = tx[t].lesson
  BY PcKind DEF CommitProgress, CompletePcs, CompleteTx, IndInv
<1>1. e[2] \in Courses /\ enrollment[e] # "none" /\ l \in LessonsIn(e[2])
  BY <1>0 DEF CommitProgress, IndInv, ChecksHold, LessonChecks, Enrollments
<1>2. <<e, l>> \notin progress
  BY <1>0 DEF CommitProgress, IndInv, InsertsExclusive, HasInserted, ProgressRows
<1>3. l \in lessons /\ CourseOf[l] = e[2]
  BY <1>1 DEF LessonsIn
<1>4. \/ UNCHANGED <<enrollment, certificates>>
      \/ /\ Contract!LessonsDone(e)' >= Contract!LessonsAtStart(e[2])
         /\ enrollment' = [enrollment EXCEPT ![e] = "completed"]
         /\ certificates' = certificates \cup {e}
  <2>1. CASE tx[t].pc = "recorded"
    BY <2>1 DEF CommitProgress
  <2>2. CASE tx[t].pc = "certified"
    <3>1. /\ enrollment' = [enrollment EXCEPT ![e] = "completed"]
          /\ certificates' = certificates \cup {e}
      BY <1>0, <2>2 DEF CommitProgress
    <3>2. CertificateHasEnoughLessons'
      BY DEF CountsEnough
    <3>3. Contract!LessonsDone(e)' >= Contract!LessonsAtStart(e[2])
      BY <1>1, <3>1, <3>2, SameCount DEF CertificateHasEnoughLessons, DoneIn, InitialIn,
         Contract!LessonsDone, Contract!LessonsAtStart
    <3> QED
      BY <3>1, <3>3
  <2> QED
    BY <2>1, <2>2 DEF CommitProgress
<1>5. Contract!CompleteLesson(e, l)
  BY <1>0, <1>1, <1>2, <1>3, <1>4
     DEF CommitProgress, Contract!CompleteLesson, Contract!courseVars, courseRows
<1> QED
  BY <1>1, <1>5 DEF Contract!Next, Enrollments, Contract!Enrollments

\* A commit of a course row or of a prerequisite is a step of the contract.
LEMMA CourseIsAtomic ==
    ASSUME IndInv, NoSelfEdge, NEW t \in Requests, CommitCourse(t) \/ CommitPrerequisite(t)
    PROVE  Contract!Next
<1>1. CASE CommitCourse(t)
  <2> DEFINE c == tx[t].course
  <2>1. /\ c \in Courses /\ tx[t].status \in {"published", "archived", Keep}
        /\ tx[t].cap \in Caps \cup {Keep}
    BY <1>1, PcKind DEF CommitCourse, CoursePcs, CourseTx, IndInv
  <2>2. Contract!ChangeCourse(c)
    <3>1. \E s \in {status[c], "published", "archived"} : status' = [status EXCEPT ![c] = s]
      BY <1>1, <2>1 DEF CommitCourse, IndInv, TypeOK
    <3>2. \E n \in Caps \cup {maxStudents[c]} : maxStudents' = [maxStudents EXCEPT ![c] = n]
      BY <1>1, <2>1 DEF CommitCourse, IndInv, TypeOK
    <3> QED
      BY <1>1, <3>1, <3>2 DEF CommitCourse, Contract!ChangeCourse, learnRows, outbox
  <2> QED
    BY <2>1, <2>2 DEF Contract!Next
<1>2. CASE CommitPrerequisite(t)
  <2>1. /\ tx[t].course \in Courses /\ tx[t].prerequisite \in Courses
        /\ tx[t].course # tx[t].prerequisite
    BY <1>2, PcKind DEF CommitPrerequisite, EdgePcs, EdgeTx, IndInv, NoSelfEdge, AddsEdge
  <2> QED
    BY <1>2, <2>1 DEF CommitPrerequisite, Contract!Next, Contract!ChangePrerequisites,
       learnRows, outbox
<1> QED
  BY <1>1, <1>2

\* The enrollment service implements its contract: whatever statements of other
\* requests come between those of a request, its commit is what it would have
\* done in one step, and every other step changes nothing that is committed.
THEOREM RequestsLookAtomic == Spec => ImplementsContract
<1>1. Init => Contract!Init
  BY DEF Init, Contract!Init, Enrollments, Contract!Enrollments, ProgressRows
<1>2. Init => NoSelfEdge
  BY DEF Init, Idle, NoSelfEdge, AddsEdge
<1>3. IndInv /\ CountsEnough /\ CountsEnough' /\ NoSelfEdge /\ [Next]_vars
         => [Contract!Next]_(Contract!vars)
  <2> SUFFICES ASSUME IndInv, CountsEnough, CountsEnough', NoSelfEdge, [Next]_vars
               PROVE  [Contract!Next]_(Contract!vars)
    OBVIOUS
  <2>1. CASE UNCHANGED <<courseRows, learnRows, outbox>>
    BY <2>1 DEF Contract!vars, Contract!courseVars, courseRows, learnRows, outbox
  <2>2. CASE RemovePrerequisite
    BY <2>2 DEF RemovePrerequisite, Contract!Next, Contract!ChangePrerequisites, learnRows, outbox
  <2>3. CASE AddLesson
    BY <2>3 DEF AddLesson, Contract!Next, Contract!AddLesson, learnRows, outbox
  <2> QED
    BY <2>1, <2>2, <2>3, RowsChangeAtCommit, EnrollIsAtomic, CompleteIsAtomic,
       CourseIsAtomic DEF Next, vars
<1> QED
  BY <1>1, <1>2, <1>3, InductiveInvariance, CountsInit, EnoughNext, SelfEdgeNext, PTL
     DEF Spec, ImplementsContract, Contract!Spec
=============================================================================
