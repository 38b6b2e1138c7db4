---------------------------- MODULE MCEnrollment ----------------------------
(* Small instances of Enrollment.                                          *)
EXTENDS Enrollment, TLC

CONSTANTS s1, s2, c1, c2, c3, l1, l2, l3, t1, t2, t3

\* The courses of the lessons: a lesson in c2 only, which may become a
\* prerequisite of c1; or all the lessons in c1.
LessonInC2  == l1 :> c2
LessonsInC1 == l1 :> c1 @@ l2 :> c1 @@ l3 :> c1
NoLessons   == [l \in {} |-> c1]

Symmetry == Permutations(Students) \cup Permutations(Requests)
=============================================================================
