---------------------------- MODULE MCCourseCache ----------------------------
(* Small instances of CourseCache: an API process and the Temporal worker.    *)
EXTENDS CourseCache, TLC

CONSTANTS r1, r2, worker, apiProcess, workerProcess

TwoProcesses == r1 :> apiProcess @@ r2 :> apiProcess @@ worker :> workerProcess
Symmetry     == Permutations(ApiSlots)
==============================================================================
