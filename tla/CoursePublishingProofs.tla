----------------------- MODULE CoursePublishingProofs -----------------------
(***************************************************************************)
(* Proofs about CoursePublishing, for any course, number of slots, runs,     *)
(* timeouts, faults and re-index tasks.                                      *)
(***************************************************************************)
EXTENDS CoursePublishing, FiniteSetTheorems, FunctionTheorems, TLAPS

AttemptPcs == {"validate", "count", "read", "mark", "publishing", "marked",
               "clear", "clearing", "cleared", "announce"}
By         == {Publish} \cup Reindexes

Deletes    == [pc : {"delete"}, by : By, cached : PartialTexts]
Deletings  == [pc : {"deleting"}, by : By, cached : PartialTexts, deleted : SUBSET Rows]
Extracts   == {x \in [pc : {"extract"}, by : By, cached : PartialTexts, deleted : SUBSET Rows,
                     todo : SUBSET Lessons, texts : PartialTexts] :
                  x.todo \subseteq DOMAIN x.cached}
Inserts    == [pc : {"insert", "indexed"}, by : By, cached : PartialTexts,
               deleted : SUBSET Rows, texts : PartialTexts]

\* Only slot s moves on, to the job r.
Moves(s, r) == job' = [job EXCEPT ![s] = r]

\* The kinds of jobs.
LEMMA JobKinds ==
    Jobs = {Idle} \cup Results \cup Attempts \cup [pc : {"read"}, by : Reindexes]
             \cup Deletes \cup Deletings \cup Extracts \cup Inserts
BY DEF Jobs, Indexings, By, Deletes, Deletings, Extracts, Inserts

\* The statement that a job has reached tells its kind.
LEMMA KindOf ==
    ASSUME TypeOK, NEW s \in Slots
    PROVE  /\ job[s] \in Jobs
           /\ job[s].pc = "idle" => job[s] = Idle
           /\ job[s].pc = "done" => job[s] \in Results
           /\ job[s].pc \in AttemptPcs \ {"read"} => job[s] \in Attempts
           /\ job[s].pc = "read" => job[s] \in Attempts \cup [pc : {"read"}, by : Reindexes]
           /\ job[s].pc = "delete" => job[s] \in Deletes
           /\ job[s].pc = "deleting" => job[s] \in Deletings
           /\ job[s].pc = "extract" => job[s] \in Extracts
           /\ job[s].pc \in {"insert", "indexed"} => job[s] \in Inserts
<1>1. job[s] \in Jobs
  BY DEF TypeOK
<1> QED BY <1>1, JobKinds DEF Idle, Results, Attempts, Deletes, Deletings, Extracts, Inserts,
                               AttemptPcs

\* What an attempt moves on to is an attempt, or done.
LEMMA AttemptMoves ==
    ASSUME TypeOK, NEW s \in Slots, job[s] \in Attempts, NEW p \in AttemptPcs
    PROVE  /\ [job[s] EXCEPT !.pc = p] \in Attempts
           /\ Goto(s, p) => Moves(s, [job[s] EXCEPT !.pc = p])
BY DEF Attempts, AttemptPcs, Goto, Moves, TypeOK

\* The results.
LEMMA ResultTypes ==
    \A result \in {"ok", "error", "fatal"} :
        /\ [pc |-> "done", result |-> result] \in Results
        /\ \A s \in Slots : Done(s, result) => Moves(s, [pc |-> "done", result |-> result])
BY DEF Results, Done, Moves

\* What a slot moves on to has its type.
LEMMA MovesType ==
    ASSUME TypeOK, NEW s \in Slots, NEW r \in Jobs, Moves(s, r)
    PROVE  /\ job' \in [Slots -> Jobs] /\ job'[s] = r
           /\ \A u \in Slots \ {s} : job'[u] = job[u]
BY DEF TypeOK, Moves

\* A text for every lesson that was read.
LEMMA PartialType ==
    /\ \A f \in PartialTexts : /\ DOMAIN f \subseteq Lessons
                               /\ \A l \in DOMAIN f : f[l] \in Texts \cup {NoText}
                               /\ f = [l \in DOMAIN f |-> f[l]]
    /\ \A L \in SUBSET Lessons : \A f \in [L -> Texts \cup {NoText}] : f \in PartialTexts
<1>1. \A f : f \in PartialTexts <=> \E L \in SUBSET Lessons : f \in [L -> Texts \cup {NoText}]
  BY DEF PartialTexts
<1> QED BY <1>1

\* The extraction gives a text or none.
LEMMA TextsType ==
    ASSUME NEW l \in Lessons, NEW cached \in Texts \cup {NoText}
    PROVE  TextsFor(l, cached) \subseteq Texts \cup {NoText}
BY KindAssumption DEF TextsFor

-----------------------------------------------------------------------------
(* The statements of an indexing transaction.                               *)

\* Each moves the job on to the next kind, for the same attempt or task.
LEMMA IndexMoves ==
    ASSUME TypeOK, NEW s \in Slots, IndexStatement(s)
    PROVE  \E r \in Jobs :
              /\ Moves(s, r)
              /\ job[s].pc \in Statements("process") /\ r.pc \in Statements("process")
              /\ job[s].by \in By /\ r.by = job[s].by
<1>0. Statements("process") = {"read", "delete", "deleting", "extract", "insert", "indexed"}
  BY DEF Statements
<1> DEFINE Good(r) == /\ r \in Jobs /\ Moves(s, r)
                      /\ job[s].pc \in Statements("process") /\ r.pc \in Statements("process")
                      /\ job[s].by \in By /\ r.by = job[s].by
<1>1. CASE ReadLessons(s)
  <2> DEFINE r == [pc |-> "delete", by |-> job[s].by, cached |-> [l \in lessons |-> cachedText[l]]]
  <2>1. job[s].by \in By
    BY <1>1, KindOf DEF ReadLessons, Attempts, By
  <2>2. [l \in lessons |-> cachedText[l]] \in PartialTexts
    <3>1. [l \in lessons |-> cachedText[l]] \in [lessons -> Texts \cup {NoText}]
      BY DEF TypeOK
    <3> QED BY <3>1, PartialType DEF TypeOK
  <2>3. r \in Jobs
    BY <2>1, <2>2, JobKinds DEF Deletes
  <2>4. Moves(s, r)
    BY <1>1 DEF ReadLessons, Moves
  <2>5. Good(r)
    BY <1>0, <1>1, <2>1, <2>3, <2>4 DEF ReadLessons
  <2> QED BY <2>5
<1>2. CASE StartDelete(s)
  <2> DEFINE r == [pc |-> "deleting", by |-> job[s].by, cached |-> job[s].cached,
                   deleted |-> chunks]
  <2>1. job[s].by \in By /\ job[s].cached \in PartialTexts
    BY <1>2, KindOf DEF StartDelete, Deletes
  <2>2. chunks \subseteq Rows
    BY DEF TypeOK
  <2>3. r \in Jobs
    BY <2>1, <2>2, JobKinds DEF Deletings
  <2>4. Moves(s, r)
    BY <1>2 DEF StartDelete, Moves
  <2>5. Good(r)
    BY <1>0, <1>2, <2>1, <2>3, <2>4 DEF StartDelete
  <2> QED BY <2>5
<1>3. CASE FinishDelete(s)
  <2> DEFINE none == [l \in DOMAIN job[s].cached |-> NoText]
  <2> DEFINE r == [pc |-> "extract", by |-> job[s].by, cached |-> job[s].cached,
                   deleted |-> job[s].deleted, todo |-> DOMAIN job[s].cached, texts |-> none]
  <2>1. job[s].by \in By /\ job[s].cached \in PartialTexts /\ job[s].deleted \in SUBSET Rows
    BY <1>3, KindOf DEF FinishDelete, Deletings
  <2>2. DOMAIN job[s].cached \subseteq Lessons
    BY <2>1, PartialType
  <2>3. none \in PartialTexts
    <3>1. none \in [DOMAIN job[s].cached -> Texts \cup {NoText}]
      OBVIOUS
    <3> HIDE DEF none
    <3> QED BY <2>2, <3>1, PartialType
  <2>4. r \in Jobs
    <3> HIDE DEF none
    <3> QED BY <2>1, <2>2, <2>3, JobKinds DEF Extracts
  <2>5. Moves(s, r)
    BY <1>3 DEF FinishDelete, Moves
  <2>6. Good(r)
    BY <1>0, <1>3, <2>1, <2>4, <2>5 DEF FinishDelete
  <2> QED BY <2>6
<1>4. CASE Extract(s)
  <2>1. job[s] \in Extracts /\ job[s].pc = "extract"
    BY <1>4, KindOf DEF Extract
  <2>2. PICK l \in job[s].todo : \E t \in TextsFor(l, job[s].cached[l]) \ Unencodable :
           job' = [job EXCEPT ![s].todo = @ \ {l}, ![s].texts[l] = t]
    BY <1>4 DEF Extract
  <2>3. PICK t \in TextsFor(l, job[s].cached[l]) \ Unencodable :
           job' = [job EXCEPT ![s].todo = @ \ {l}, ![s].texts[l] = t]
    BY <2>2
  <2> DEFINE texts == [job[s].texts EXCEPT ![l] = t]
  <2> DEFINE r == [job[s] EXCEPT !.todo = @ \ {l}, !.texts = texts]
  <2>4. l \in Lessons /\ l \in DOMAIN job[s].cached /\ job[s].cached \in PartialTexts
        /\ job[s].texts \in PartialTexts
    BY <2>1 DEF Extracts
  <2>5. t \in Texts \cup {NoText}
    BY <2>4, PartialType, TextsType
  <2>6. texts \in PartialTexts
    <3>1. PICK L \in SUBSET Lessons : job[s].texts \in [L -> Texts \cup {NoText}]
      BY <2>4 DEF PartialTexts
    <3>2. texts \in [L -> Texts \cup {NoText}]
      BY <2>5, <3>1
    <3> HIDE DEF texts
    <3> QED BY <3>2, PartialType
  <2>7. r \in Jobs
    <3> HIDE DEF texts
    <3>1. r \in Extracts
      BY <2>1, <2>4, <2>6 DEF Extracts
    <3> QED BY <3>1, JobKinds
  <2>8. Moves(s, r)
    BY <2>1, <2>3 DEF Moves, TypeOK, Extracts
  <2>9. Good(r)
    <3>1. r.pc = "extract" /\ r.by = job[s].by /\ job[s].by \in By
      BY <2>1 DEF Extracts
    <3> QED BY <1>0, <2>1, <2>7, <2>8, <3>1
  <2> QED BY <2>9
<1>5. CASE UpdateCourse(s)
  <2> DEFINE r == [pc |-> "insert", by |-> job[s].by, cached |-> job[s].cached,
                   deleted |-> job[s].deleted, texts |-> job[s].texts]
  <2>1. job[s] \in Extracts /\ job[s].pc = "extract"
    BY <1>5, KindOf DEF UpdateCourse
  <2>2. r \in Jobs
    BY <2>1, JobKinds DEF Inserts, Extracts
  <2>3. Moves(s, r)
    BY <1>5 DEF UpdateCourse, Moves
  <2>4. Good(r)
    BY <1>0, <2>1, <2>2, <2>3 DEF Extracts
  <2> QED BY <2>4
<1>6. CASE InsertRows(s)
  <2> DEFINE r == [job[s] EXCEPT !.pc = "indexed"]
  <2>1. job[s] \in Inserts /\ job[s].pc = "insert"
    BY <1>6, KindOf DEF InsertRows
  <2>2. r \in Inserts
    BY <2>1 DEF Inserts
  <2>3. Moves(s, r)
    BY <1>6, <2>1 DEF InsertRows, Moves, TypeOK
  <2>4. r.pc = "indexed" /\ r.by = job[s].by /\ job[s].by \in By
    BY <2>1 DEF Inserts
  <2>5. Good(r)
    BY <1>0, <2>1, <2>2, <2>3, <2>4, JobKinds
  <2> QED BY <2>5
<1> QED
  BY <1>1, <1>2, <1>3, <1>4, <1>5, <1>6 DEF IndexStatement

-----------------------------------------------------------------------------
(* The other statements.                                                    *)

\* A statement of validate, mark, clear or announce.
ActivityStep(s) ==
    \/ ValidateStatus(s) \/ CountLessons(s)
    \/ MarkRead(s) \/ MarkWrite(s) \/ MarkCommit(s)
    \/ ClearRead(s) \/ ClearWrite(s) \/ ClearCommit(s)
    \/ Announce(s)

\* It moves the attempt on to another statement, or is its last.
LEMMA ActivityMoves ==
    ASSUME TypeOK, NEW s \in Slots, ActivityStep(s)
    PROVE  \E r \in Jobs :
              /\ Moves(s, r)
              /\ job[s] \in Attempts /\ job[s].pc # "read"
              /\ r.pc \in {"done", "count", "publishing", "marked", "clearing", "cleared"}
              /\ r.pc \in {"marked", "cleared"} => CanUpdateCourse(s)
<1> DEFINE Good(r) ==
              /\ r \in Jobs /\ Moves(s, r)
              /\ job[s] \in Attempts /\ job[s].pc # "read"
              /\ r.pc \in {"done", "count", "publishing", "marked", "clearing", "cleared"}
              /\ r.pc \in {"marked", "cleared"} => CanUpdateCourse(s)
<1>1. job[s].pc \in AttemptPcs \ {"read"} /\ job[s] \in Attempts
  <2>1. job[s].pc \in AttemptPcs \ {"read"}
    BY DEF ActivityStep, ValidateStatus, CountLessons, MarkRead, MarkWrite, MarkCommit, ClearRead,
           ClearWrite, ClearCommit, Announce, AttemptPcs
  <2> QED BY <2>1, KindOf
<1>2. ASSUME NEW result \in {"ok", "error", "fatal"}, Done(s, result) PROVE \E r : Good(r)
  <2> DEFINE r == [pc |-> "done", result |-> result]
  <2>1. r \in Results /\ Moves(s, r)
    BY <1>2, ResultTypes
  <2>2. Good(r)
    BY <1>1, <2>1, JobKinds
  <2> QED BY <2>2
<1>3. ASSUME NEW p \in {"count", "publishing", "marked", "clearing", "cleared"}, Goto(s, p),
             p \in {"marked", "cleared"} => CanUpdateCourse(s)
      PROVE  \E r : Good(r)
  <2> DEFINE r == [job[s] EXCEPT !.pc = p]
  <2>1. p \in AttemptPcs
    BY DEF AttemptPcs
  <2>2. r \in Attempts /\ Moves(s, r)
    BY <1>1, <1>3, <2>1, AttemptMoves
  <2>3. r.pc = p
    BY <1>1 DEF Attempts
  <2>4. Good(r)
    BY <1>1, <1>3, <2>2, <2>3, JobKinds
  <2> QED BY <2>4
<1>4. CASE MarkRead(s)
  BY <1>2, <1>3, <1>4 DEF MarkRead, TypeOK
<1>5. CASE ValidateStatus(s) \/ CountLessons(s)
  BY <1>2, <1>3, <1>5 DEF ValidateStatus, CountLessons
<1>6. CASE MarkWrite(s) \/ MarkCommit(s) \/ Announce(s)
  BY <1>2, <1>3, <1>6 DEF MarkWrite, MarkCommit, Announce
<1>7. CASE ClearRead(s) \/ ClearWrite(s) \/ ClearCommit(s)
  BY <1>2, <1>3, <1>7 DEF ClearRead, ClearWrite, ClearCommit
<1>8. \E r : Good(r)
  BY <1>4, <1>5, <1>6, <1>7 DEF ActivityStep
<1> QED BY <1>8

\* The attempt that starts is one of the phase that the workflow has reached.
LEMMA StartMoves ==
    ASSUME TypeOK, AttemptInPhase, NEW s \in Slots, StartAttempt(s)
    PROVE  LET r == [pc |-> FirstStatement(wf.phase), by |-> Publish, run |-> wf.run]
           IN  /\ r \in Attempts /\ Moves(s, r)
               /\ r.pc \in Statements(wf.phase)
               /\ r.pc \in {"validate", "read", "mark", "clear", "announce"}
               /\ job[s].pc = "idle"
<1>1. wf.phase \in {"validate", "process", "mark", "clear", "announce"}
      /\ wf.run \in 1 .. MaxRuns
  BY DEF StartAttempt, Running, AttemptInPhase, TypeOK
<1>2. FirstStatement(wf.phase) \in Statements(wf.phase)
      /\ FirstStatement(wf.phase) \in {"validate", "read", "mark", "clear", "announce"}
  BY <1>1 DEF FirstStatement, Statements
<1> QED BY <1>1, <1>2 DEF StartAttempt, Free, Moves, Attempts

\* One task more in the queue.
LEMMA QueuedType ==
    ASSUME TypeOK, NEW n, queued' = [queued EXCEPT ![n] = @ + 1]
    PROVE  queued' \in [0 .. MaxRetries -> Nat]
<1>1. queued \in [0 .. MaxRetries -> Nat]
  BY DEF TypeOK
<1>2. ASSUME NEW m \in 0 .. MaxRetries PROVE queued[m] \in Nat /\ queued[m] + 1 \in Nat
  BY <1>1
<1> QED BY <1>1, <1>2

\* An attempt or a task whose transaction is rolled back ends.
LEMMA FailMoves ==
    ASSUME TypeOK, NEW s \in Slots, job[s].pc \notin {"idle", "done"}, Fail(s)
    PROVE  /\ job[s].by \in By
           /\ ByReindex(s) => Moves(s, Idle)
           /\ ~ByReindex(s) => /\ Moves(s, [pc |-> "done", result |-> "error"])
                               /\ UNCHANGED queued
           /\ queued' \in [0 .. MaxRetries -> Nat]
<1>1. job[s].by \in By
  BY KindOf, JobKinds DEF Idle, Results, Attempts, Deletes, Deletings, Extracts, Inserts, By
<1>2. CASE ByReindex(s)
  <2>1. job[s].by \in Reindexes
    BY <1>1, <1>2 DEF By, ByReindex, Publish
  <2>2. job[s].by.retries \in 0 .. MaxRetries
    BY <2>1 DEF Reindexes
  <2>3. MaxRetries \in Nat
    BY BoundsAssumption
  <2>4. queued' \in [0 .. MaxRetries -> Nat]
    <3>1. CASE job[s].by.retries < MaxRetries
      <4>1. queued' = [queued EXCEPT ![job[s].by.retries + 1] = @ + 1]
        BY <1>2, <3>1 DEF Fail
      <4> QED BY <4>1, QueuedType
    <3>2. CASE ~(job[s].by.retries < MaxRetries)
      BY <1>2, <3>2 DEF Fail, TypeOK
    <3> QED BY <3>1, <3>2
  <2> QED BY <1>1, <1>2, <2>4 DEF Fail, Moves
<1>3. CASE ~ByReindex(s)
  BY <1>1, <1>3, ResultTypes DEF Fail, TypeOK
<1> QED BY <1>2, <1>3

\* Where a transaction is rolled back: Fail, or the task is delivered again.
LEMMA EndMoves ==
    ASSUME TypeOK, NEW s \in Slots, IndexFails(s) \/ Fault(s)
    PROVE  /\ job[s].pc \notin {"idle", "done"}
           /\ job[s].by \in By
           /\ ByReindex(s) => Moves(s, Idle)
           /\ ~ByReindex(s) => Moves(s, [pc |-> "done", result |-> "error"])
           /\ queued' \in [0 .. MaxRetries -> Nat]
<1>1. CASE IndexFails(s)
  <2>1. job[s].pc \notin {"idle", "done"}
    BY <1>1 DEF IndexFails, ExtractFails, InsertFails, Deadlocked
  <2> QED BY <1>1, <2>1, FailMoves DEF IndexFails
<1>2. CASE Fault(s)
  <2>1. job[s].pc \notin {"idle", "done"}
    BY <1>2 DEF Fault
  <2>2. CASE Fail(s)
    BY <2>1, <2>2, FailMoves
  <2>3. CASE ByReindex(s) /\ job' = [job EXCEPT ![s] = Idle]
             /\ queued' = [queued EXCEPT ![job[s].by.retries] = @ + 1]
    <3>1. job[s].by \in By
      BY <2>1, KindOf, JobKinds DEF Idle, Results, Attempts, Deletes, Deletings, Extracts,
                                    Inserts, By
    <3>2. queued' \in [0 .. MaxRetries -> Nat]
      BY <2>3, QueuedType
    <3> QED BY <2>1, <2>3, <3>1, <3>2 DEF Moves
  <2> QED BY <1>2, <2>2, <2>3 DEF Fault
<1> QED BY <1>1, <1>2

\* The COMMIT of an indexing transaction.
LEMMA CommitMoves ==
    ASSUME TypeOK, NEW s \in Slots, EndIndex(s)
    PROVE  /\ job[s] \in Inserts /\ job[s].pc = "indexed"
           /\ job'[s] = IF ByReindex(s) THEN Idle ELSE [pc |-> "done", result |-> "ok"]
           /\ \A u \in Slots \ {s} :
                 /\ job[u].pc # "deleting" => job'[u] = job[u]
                 /\ job[u].pc = "deleting" =>
                       job'[u] = [job[u] EXCEPT !.deleted = @ \ job[s].deleted]
           /\ job' \in [Slots -> Jobs]
<1> DEFINE ended == IF ByReindex(s) THEN Idle ELSE [pc |-> "done", result |-> "ok"]
<1>1. job[s] \in Inserts /\ job[s].pc = "indexed"
  BY KindOf DEF EndIndex
<1>2. ended \in Jobs
  BY JobKinds, ResultTypes
<1> HIDE DEF ended
<1>3. job' = [u \in Slots |-> IF u = s THEN ended
                              ELSE IF job[u].pc = "deleting"
                              THEN [job[u] EXCEPT !.deleted = @ \ job[s].deleted]
                              ELSE job[u]]
  BY DEF EndIndex, SkipDeleted, ended
<1>4. ASSUME NEW u \in Slots, job[u].pc = "deleting"
      PROVE  [job[u] EXCEPT !.deleted = @ \ job[s].deleted] \in Jobs
  <2>1. job[u] \in Deletings
    BY <1>4, KindOf
  <2>2. [job[u] EXCEPT !.deleted = @ \ job[s].deleted] \in Deletings
    BY <2>1 DEF Deletings
  <2> QED BY <2>2, JobKinds
<1>5. job' \in [Slots -> Jobs]
  BY <1>2, <1>3, <1>4, KindOf
<1> QED BY <1>1, <1>3, <1>5 DEF ended

-----------------------------------------------------------------------------
(* Rows and types.                                                          *)

\* The rows of a lesson and a text, and those a transaction inserts.
LEMMA RowsOfLesson ==
    /\ \A l \in Lessons, t \in Texts : \A r \in RowsOf(l, t) : r.lesson = l
    /\ \A l \in Lessons, t \in Texts : RowsOf(l, t) \subseteq Rows
    /\ \A r \in Rows : r.lesson \in Lessons
<1>1. \A l \in Lessons, t \in Texts : \A r \in RowsOf(l, t) : r.lesson = l
  BY DEF RowsOf
<1>2. \A r : r \in Rows <=> \E l \in Lessons, t \in Texts : r \in RowsOf(l, t)
  BY DEF Rows
<1> QED BY <1>1, <1>2

\* A transaction inserts the rows of one text for each lesson, or none.
LEMMA NewRowsOfLesson ==
    ASSUME NEW s \in Slots, job[s] \in Inserts
    PROVE  /\ NewRows(s) \subseteq Rows
           /\ \A l \in Lessons : RowsFor(NewRows(s), l) = {}
                                 \/ \E t \in Texts : RowsFor(NewRows(s), l) = RowsOf(l, t)
<1>1. job[s].texts \in PartialTexts
  BY DEF Inserts
<1> DEFINE texts == job[s].texts
<1>2. \A r : r \in NewRows(s) <=>
         \E l \in DOMAIN texts : texts[l] # NoText /\ r \in RowsOf(l, texts[l])
  BY DEF NewRows
<1>3. \A l \in DOMAIN texts : l \in Lessons /\ (texts[l] # NoText => texts[l] \in Texts)
  BY <1>1, PartialType
<1>4. NewRows(s) \subseteq Rows
  BY <1>2, <1>3, RowsOfLesson
<1>5. ASSUME NEW l \in Lessons
      PROVE  RowsFor(NewRows(s), l) = {}
             \/ \E t \in Texts : RowsFor(NewRows(s), l) = RowsOf(l, t)
  <2>1. CASE l \in DOMAIN texts /\ texts[l] # NoText
    <3>1. texts[l] \in Texts
      BY <1>3, <2>1
    <3>2. \A r : r \in RowsFor(NewRows(s), l) <=> r \in RowsOf(l, texts[l])
      BY <1>2, <1>3, <2>1, <3>1, RowsOfLesson DEF RowsFor
    <3> QED BY <3>1, <3>2
  <2>2. CASE ~(l \in DOMAIN texts /\ texts[l] # NoText)
    BY <1>2, <1>3, <2>2, RowsOfLesson DEF RowsFor
  <2> QED BY <2>1, <2>2
<1> QED BY <1>4, <1>5

\* The initial values have their types.
LEMMA TypeInit == Init => TypeOK
<1> SUFFICES ASSUME Init PROVE TypeOK
  OBVIOUS
<1>1. job \in [Slots -> Jobs]
  BY JobKinds DEF Init, IndexInit
<1>2. MaxRuns \in Nat
  BY BoundsAssumption
<1>3. wf \in [phase : Phases, run : 0 .. MaxRuns, attempt : Slots \cup {NoSlot}]
  BY <1>2 DEF Init, Phases
<1> QED BY <1>1, <1>3 DEF Init, IndexInit, TypeOK

\* The type of the workflow.
LEMMA WorkflowType ==
    ASSUME TypeOK, AttemptInPhase
    PROVE  /\ \A p \in Phases : [wf EXCEPT !.attempt = NoSlot, !.phase = p]
                                   \in [phase : Phases, run : 0 .. MaxRuns, attempt : Slots \cup {NoSlot}]
           /\ \A a \in Slots \cup {NoSlot} : [wf EXCEPT !.attempt = a]
                                   \in [phase : Phases, run : 0 .. MaxRuns, attempt : Slots \cup {NoSlot}]
           /\ asked > 0 => [phase |-> "validate", run |-> wf.run + 1, attempt |-> NoSlot]
                                   \in [phase : Phases, run : 0 .. MaxRuns, attempt : Slots \cup {NoSlot}]
<1>1. MaxRuns \in Nat /\ wf.run \in Nat /\ asked \in Nat /\ wf.run + asked <= MaxRuns
  BY BoundsAssumption DEF TypeOK, AttemptInPhase
<1>2. wf \in [phase : Phases, run : 0 .. MaxRuns, attempt : Slots \cup {NoSlot}]
  BY DEF TypeOK
<1>3. asked > 0 => wf.run + 1 \in 0 .. MaxRuns
  BY <1>1
<1> QED BY <1>2, <1>3 DEF Phases

\* The phases that follow.
LEMMA NextPhase ==
    \A p \in {"validate", "process", "mark", "clear", "announce"} :
        /\ p \in Phases /\ AfterSuccess(p) \in Phases /\ AfterFailure(p) \in Phases
        /\ AfterFailure(p) = IF p = "mark" THEN "clear" ELSE "failed"
        /\ p = "validate" => AfterSuccess(p) = "process"
        /\ p = "process"  => AfterSuccess(p) = "mark"
        /\ p = "mark"     => AfterSuccess(p) = "announce"
        /\ p = "announce" => AfterSuccess(p) = "completed"
        /\ p = "clear"    => AfterSuccess(p) = "failed"
BY DEF AfterSuccess, AfterFailure, Phases

\* A report ends the attempt, or tells the workflow nothing.
LEMMA ReportMoves ==
    ASSUME TypeOK, AttemptInPhase, NEW s \in Slots, Report(s)
    PROVE  /\ job[s] \in Results /\ Moves(s, Idle)
           /\ wf.attempt # s => wf' = wf
           /\ wf.attempt = s =>
                 /\ wf.phase \in {"validate", "process", "mark", "clear", "announce"}
                 /\ wf'.attempt = NoSlot /\ wf'.run = wf.run
                 /\ job[s].result = "ok"    => wf'.phase = AfterSuccess(wf.phase)
                 /\ job[s].result = "fatal" => wf'.phase = AfterFailure(wf.phase)
                 /\ job[s].result = "error" => wf'.phase = wf.phase
           /\ wf' \in [phase : Phases, run : 0 .. MaxRuns, attempt : Slots \cup {NoSlot}]
<1>1. job[s] \in Results /\ Moves(s, Idle) /\ job[s].result \in {"ok", "error", "fatal"}
  BY KindOf DEF Report, Results, Moves
<1>2. CASE wf.attempt # s
  BY <1>1, <1>2 DEF Report, TypeOK
<1>3. CASE wf.attempt = s
  <2>1. Running
    BY <1>3, SlotsAssumption DEF AttemptInPhase
  <2>2. wf.phase \in {"validate", "process", "mark", "clear", "announce"}
    BY <2>1 DEF Running
  <2> DEFINE p == CASE job[s].result = "ok"    -> AfterSuccess(wf.phase)
                    [] job[s].result = "fatal" -> AfterFailure(wf.phase)
                    [] job[s].result = "error" -> wf.phase
  <2>3. wf' = [wf EXCEPT !.attempt = NoSlot, !.phase = p]
    BY <1>3 DEF Report, TypeOK
  <2>4. /\ job[s].result = "ok"    => p = AfterSuccess(wf.phase)
        /\ job[s].result = "fatal" => p = AfterFailure(wf.phase)
        /\ job[s].result = "error" => p = wf.phase
    OBVIOUS
  <2>5. p \in Phases
    <3> HIDE DEF p
    <3> QED BY <1>1, <2>2, <2>4, NextPhase
  <2> HIDE DEF p
  <2>6. wf' \in [phase : Phases, run : 0 .. MaxRuns, attempt : Slots \cup {NoSlot}]
    BY <2>3, <2>5, WorkflowType
  <2>7. wf'.attempt = NoSlot /\ wf'.run = wf.run /\ wf'.phase = p
    BY <2>3 DEF TypeOK
  <2> QED BY <1>1, <1>3, <2>2, <2>4, <2>6, <2>7
<1> QED BY <1>2, <1>3

\* Every step is a request, the start of a workflow, or one of a slot.
LEMMA StepKinds ==
    ASSUME Next
    PROVE  \/ Instructor \/ StartWorkflow
           \/ \E s \in Slots :
                 \/ StartAttempt(s) \/ TakeReindex(s) \/ Timeout(s) \/ Report(s)
                 \/ ActivityStep(s)
                 \/ IndexStatement(s) /\ UNCHANGED pubVars
                 \/ EndIndex(s)
                 \/ IndexFails(s) \/ Fault(s)
BY DEF Next, Step, ActivityStep

\* Every step keeps the types.
LEMMA TypeNext == TypeOK /\ AttemptInPhase /\ [Next]_vars => TypeOK'
<1> SUFFICES ASSUME TypeOK, AttemptInPhase, [Next]_vars PROVE TypeOK'
  OBVIOUS
<1>1. CASE Instructor
  <2>1. CASE AskPublish
    BY <2>1 DEF AskPublish, TypeOK, indexVars
  <2>2. CASE Archive
    BY <2>2 DEF Archive, TypeOK, indexVars
  <2>3. CASE RequestReindex
    <3>1. queued' \in [0 .. MaxRetries -> Nat]
      BY <2>3, QueuedType DEF RequestReindex
    <3> QED BY <2>3, <3>1 DEF RequestReindex, TypeOK, indexVars
  <2>4. CASE \E l \in Lessons : (AddLesson(l) \/ Upload(l)) /\ UNCHANGED pubVars
    BY <2>4 DEF AddLesson, Upload, TypeOK, pubVars
  <2> QED BY <1>1, <2>1, <2>2, <2>3, <2>4 DEF Instructor
<1>2. CASE StartWorkflow
  <2>1. wf' \in [phase : Phases, run : 0 .. MaxRuns, attempt : Slots \cup {NoSlot}]
    BY <1>2, WorkflowType DEF StartWorkflow, TypeOK
  <2> QED BY <1>2, <2>1 DEF StartWorkflow, TypeOK, indexVars
<1>3. ASSUME NEW s \in Slots, StartAttempt(s) PROVE TypeOK'
  <2>1. job' \in [Slots -> Jobs]
    BY <1>3, StartMoves, MovesType, JobKinds
  <2>2. wf' \in [phase : Phases, run : 0 .. MaxRuns, attempt : Slots \cup {NoSlot}]
    BY <1>3, WorkflowType DEF StartAttempt
  <2> QED BY <1>3, <2>1, <2>2 DEF StartAttempt, TypeOK, indexVars
<1>4. ASSUME NEW s \in Slots, TakeReindex(s) PROVE TypeOK'
  <2>1. PICK n \in 0 .. MaxRetries :
          /\ queued[n] > 0
          /\ queued' = [queued EXCEPT ![n] = @ - 1]
          /\ job' = [job EXCEPT ![s] = [pc |-> "read", by |-> [task |-> "reindex", retries |-> n]]]
    BY <1>4 DEF TakeReindex
  <2>2. [pc |-> "read", by |-> [task |-> "reindex", retries |-> n]] \in Jobs
    BY JobKinds DEF Reindexes
  <2>3. job' \in [Slots -> Jobs]
    BY <2>1, <2>2 DEF TypeOK
  <2>4. queued' \in [0 .. MaxRetries -> Nat]
    <3>1. queued \in [0 .. MaxRetries -> Nat] /\ queued[n] - 1 \in Nat
      BY <2>1 DEF TypeOK
    <3> QED BY <2>1, <3>1
  <2> QED BY <1>4, <2>3, <2>4 DEF TakeReindex, TypeOK, indexVars
<1>5. ASSUME NEW s \in Slots, Timeout(s) PROVE TypeOK'
  <2>1. wf' \in [phase : Phases, run : 0 .. MaxRuns, attempt : Slots \cup {NoSlot}]
    BY <1>5, WorkflowType DEF Timeout
  <2> QED BY <1>5, <2>1 DEF Timeout, TypeOK, indexVars
<1>6. ASSUME NEW s \in Slots, Report(s) PROVE TypeOK'
  <2>1. job' \in [Slots -> Jobs]
    BY <1>6, ReportMoves, MovesType, JobKinds
  <2> QED BY <1>6, <2>1, ReportMoves DEF Report, TypeOK, indexVars
<1>7. ASSUME NEW s \in Slots, ActivityStep(s) PROVE TypeOK'
  <2>1. job' \in [Slots -> Jobs] /\ job[s] \in Attempts
    BY <1>7, ActivityMoves, MovesType
  <2>2. CASE ValidateStatus(s) \/ CountLessons(s) \/ MarkRead(s) \/ MarkWrite(s)
             \/ ClearRead(s) \/ ClearWrite(s)
    BY <2>1, <2>2 DEF ValidateStatus, CountLessons, MarkRead, MarkWrite, ClearRead, ClearWrite,
                      TypeOK, indexVars, pubVars
  <2>3. CASE MarkCommit(s)
    BY <2>1, <2>3 DEF MarkCommit, TypeOK, indexVars
  <2>4. CASE ClearCommit(s)
    BY <2>1, <2>4 DEF ClearCommit, TypeOK, pubVars
  <2>5. CASE Announce(s)
    <3>1. job[s].run \in 1 .. MaxRuns
      BY <2>1 DEF Attempts
    <3>2. announced' \in [1 .. MaxRuns -> Nat]
      BY <2>5, <3>1 DEF Announce, TypeOK
    <3> QED BY <2>1, <2>5, <3>2 DEF Announce, TypeOK, indexVars
  <2> QED BY <1>7, <2>2, <2>3, <2>4, <2>5 DEF ActivityStep
<1>8. ASSUME NEW s \in Slots, IndexStatement(s), UNCHANGED pubVars PROVE TypeOK'
  <2>1. job' \in [Slots -> Jobs]
    BY <1>8, IndexMoves, MovesType
  <2>2. UNCHANGED indexVars
    BY <1>8 DEF IndexStatement, ReadLessons, StartDelete, FinishDelete, Extract, UpdateCourse,
                InsertRows
  <2> QED BY <1>8, <2>1, <2>2 DEF TypeOK, indexVars, pubVars
<1>9. ASSUME NEW s \in Slots, EndIndex(s) PROVE TypeOK'
  <2>1. job[s] \in Inserts /\ job' \in [Slots -> Jobs]
    BY <1>9, CommitMoves
  <2>2. chunks' \subseteq Rows
    BY <1>9, <2>1, NewRowsOfLesson DEF EndIndex, CommitIndex, TypeOK
  <2>3. cachedText' \in [Lessons -> Texts \cup {NoText}]
    <3>1. \A l \in Lessons : Extracted(s, l) => job[s].texts[l] \in Texts \cup {NoText}
      BY <2>1, PartialType DEF Extracted, Inserts
    <3> QED BY <1>9, <3>1 DEF EndIndex, CommitIndex, TypeOK
  <2> QED BY <1>9, <2>1, <2>2, <2>3 DEF EndIndex, CommitIndex, TypeOK, pubVars
<1>10. ASSUME NEW s \in Slots, IndexFails(s) \/ Fault(s) PROVE TypeOK'
  <2>1. job' \in [Slots -> Jobs] /\ queued' \in [0 .. MaxRetries -> Nat]
    BY <1>10, EndMoves, MovesType, ResultTypes, JobKinds
  <2>2. announced' \in [1 .. MaxRuns -> Nat]
    <3>1. CASE job[s].pc = "announce"
      <4>1. job[s].run \in 1 .. MaxRuns
        BY <3>1, KindOf DEF Attempts, AttemptPcs
      <4> QED BY <1>10, <4>1 DEF IndexFails, Fault, TypeOK
    <3>2. CASE job[s].pc # "announce"
      BY <1>10, <3>2 DEF IndexFails, Fault, TypeOK
    <3> QED BY <3>1, <3>2
  <2> QED BY <1>10, <2>1, <2>2 DEF IndexFails, Fault, TypeOK, indexVars
<1>11. CASE UNCHANGED vars
  BY <1>11 DEF vars, indexVars, pubVars, TypeOK
<1> QED BY <1>1, <1>2, <1>3, <1>4, <1>5, <1>6, <1>7, <1>8, <1>9, <1>10, <1>11, StepKinds

-----------------------------------------------------------------------------
(* The rows of a lesson stay those of one text.                             *)

RowInv   == RowsWhole /\ DeletesWhole /\ DeletesDisjoint /\ KeysFree
Deleting == {"deleting", "extract", "insert", "indexed"}

\* The rows, the locks and the keys depend on chunks and job alone.
LEMMA RowsStay ==
    ASSUME RowInv, UNCHANGED <<chunks, job>>
    PROVE  RowInv'
BY DEF RowInv, RowsWhole, DeletesWhole, DeletesDisjoint, KeysFree, RowsFor, Deleted, HoldsCourse,
       Duplicates, NewRows

\* What a transaction has deleted, locked and is inserting is read off its slot.
LEMMA SlotStays ==
    ASSUME NEW u \in Slots, job'[u] = job[u], chunks' = chunks
    PROVE  /\ Deleted(u)' = Deleted(u) /\ (HoldsCourse(u)' <=> HoldsCourse(u))
           /\ NewRows(u)' = NewRows(u) /\ Duplicates(u)' = Duplicates(u)
<1>1. NewRows(u)' = NewRows(u)
  BY DEF NewRows
<1> QED BY <1>1 DEF Deleted, HoldsCourse, Duplicates

\* A statement of one slot keeps the rows whole if it respects the locks and the keys.
LEMMA RowsMove ==
    ASSUME TypeOK, RowInv, NEW s \in Slots, NEW r \in Jobs, Moves(s, r), chunks' = chunks,
           r.pc \in Deleting =>
               /\ r.deleted \subseteq chunks
               /\ \A l \in Lessons : RowsFor(r.deleted, l) \in {{}, RowsFor(chunks, l)},
           \A u \in Slots \ {s} : Deleted(u) \cap Deleted(s)' = {},
           HoldsCourse(s)' => CanUpdateCourse(s),
           r.pc = "indexed" => Duplicates(s)' = {}
    PROVE  RowInv'
<1>1. job'[s] = r /\ \A u \in Slots \ {s} : job'[u] = job[u]
  BY MovesType
<1>2. \A u \in Slots \ {s} : /\ Deleted(u)' = Deleted(u) /\ (HoldsCourse(u)' <=> HoldsCourse(u))
                             /\ Duplicates(u)' = Duplicates(u)
  BY <1>1, SlotStays
<1>3. RowsWhole'
  BY DEF RowInv, RowsWhole, RowsFor
<1>4. DeletesWhole'
  BY <1>1 DEF RowInv, DeletesWhole, RowsFor, Deleting
<1>5. DeletesDisjoint'
  <2>1. \A u, v \in Slots \ {s} : u # v => /\ Deleted(u)' \cap Deleted(v)' = {}
                                         /\ ~(HoldsCourse(u)' /\ HoldsCourse(v)')
    BY <1>2 DEF RowInv, DeletesDisjoint
  <2>2. \A u \in Slots \ {s} : /\ Deleted(u)' \cap Deleted(s)' = {}
                               /\ ~(HoldsCourse(u)' /\ HoldsCourse(s)')
    BY <1>2 DEF CanUpdateCourse
  <2>3. \A u, v \in Slots : u # v => /\ Deleted(u)' \cap Deleted(v)' = {}
                                   /\ ~(HoldsCourse(u)' /\ HoldsCourse(v)')
    BY <2>1, <2>2
  <2> QED BY <2>3 DEF DeletesDisjoint
<1>6. KeysFree'
  BY <1>1, <1>2 DEF RowInv, KeysFree
<1> QED BY <1>3, <1>4, <1>5, <1>6 DEF RowInv

\* A slot that deletes nothing, and locks the course row only when it is free.
LEMMA RowsApart ==
    ASSUME TypeOK, RowInv, NEW s \in Slots, NEW r \in Jobs, Moves(s, r), chunks' = chunks,
           r.pc \notin Deleting, r.pc \in {"marked", "cleared"} => CanUpdateCourse(s)
    PROVE  RowInv'
<1>1. job'[s] = r
  BY MovesType
<1>2. Deleted(s)' = {} /\ (HoldsCourse(s)' => CanUpdateCourse(s)) /\ r.pc # "indexed"
  BY <1>1 DEF Deleted, HoldsCourse, Deleting
<1> QED BY <1>2, RowsMove

\* The statements of an indexing transaction.
LEMMA RowsIndexing ==
    ASSUME TypeOK, RowInv, NEW s \in Slots, IndexStatement(s)
    PROVE  RowInv'
<1>0. chunks' = chunks
  BY DEF IndexStatement, ReadLessons, StartDelete, FinishDelete, Extract, UpdateCourse, InsertRows,
         indexVars
<1>1. PICK r \in Jobs : Moves(s, r)
  BY IndexMoves
<1>2. job'[s] = r
  BY <1>1, MovesType
<1> DEFINE Kept(j) == /\ j.deleted \subseteq chunks
                      /\ \A l \in Lessons : RowsFor(j.deleted, l) \in {{}, RowsFor(chunks, l)}
<1>3. job[s].pc \in Deleting => Kept(job[s])
  BY DEF RowInv, DeletesWhole, Deleting
<1>4. CASE ReadLessons(s)
  <2>1. r.pc = "delete"
    BY <1>2, <1>4 DEF ReadLessons, TypeOK
  <2> QED BY <1>0, <1>1, <2>1, RowsApart DEF Deleting
<1>5. CASE StartDelete(s)
  <2>1. r.pc = "deleting" /\ r.deleted = chunks
    BY <1>2, <1>5 DEF StartDelete, TypeOK
  <2>2. Deleted(s)' = {} /\ ~HoldsCourse(s)'
    BY <1>2, <2>1 DEF Deleted, HoldsCourse
  <2> QED BY <1>0, <1>1, <2>1, <2>2, RowsMove
<1>6. CASE FinishDelete(s)
  <2>1. r.pc = "extract" /\ r.deleted = job[s].deleted /\ job[s].pc = "deleting"
    BY <1>2, <1>6 DEF FinishDelete, TypeOK
  <2>2. Deleted(s)' = job[s].deleted /\ ~HoldsCourse(s)'
    BY <1>2, <2>1 DEF Deleted, HoldsCourse
  <2>3. \A u \in Slots \ {s} : Deleted(u) \cap job[s].deleted = {}
    BY <1>6 DEF FinishDelete
  <2>4. Kept(r)
    BY <1>3, <2>1 DEF Deleting
  <2> QED BY <1>0, <1>1, <2>1, <2>2, <2>3, <2>4, RowsMove
<1>7. ASSUME job[s].pc \in {"extract", "insert"}, r.deleted = job[s].deleted,
             r.pc \in {"extract", "insert", "indexed"},
             HoldsCourse(s)' => CanUpdateCourse(s), r.pc = "indexed" => Duplicates(s)' = {}
      PROVE  RowInv'
  <2>1. Deleted(s)' = Deleted(s)
    BY <1>2, <1>7 DEF Deleted
  <2>2. \A u \in Slots \ {s} : Deleted(u) \cap Deleted(s)' = {}
    BY <2>1 DEF RowInv, DeletesDisjoint
  <2>3. Kept(r)
    BY <1>3, <1>7 DEF Deleting
  <2> QED BY <1>0, <1>1, <1>7, <2>2, <2>3, RowsMove
<1>8. CASE Extract(s)
  <2>1. job[s] \in Extracts /\ job[s].pc = "extract"
    BY <1>8, KindOf DEF Extract
  <2>2. r.pc = "extract" /\ r.deleted = job[s].deleted
    <3>1. PICK l \in job[s].todo : \E t \in TextsFor(l, job[s].cached[l]) \ Unencodable :
             job' = [job EXCEPT ![s].todo = @ \ {l}, ![s].texts[l] = t]
      BY <1>8 DEF Extract
    <3>2. PICK t \in TextsFor(l, job[s].cached[l]) \ Unencodable :
             job' = [job EXCEPT ![s].todo = @ \ {l}, ![s].texts[l] = t]
      BY <3>1
    <3> QED BY <1>2, <2>1, <3>2 DEF TypeOK, Extracts
  <2>3. ~HoldsCourse(s)'
    BY <1>2, <2>2 DEF HoldsCourse
  <2> QED BY <1>7, <2>1, <2>2, <2>3
<1>9. CASE UpdateCourse(s)
  <2>1. /\ r.pc = "insert" /\ r.deleted = job[s].deleted /\ job[s].pc = "extract"
        /\ CanUpdateCourse(s)
    BY <1>2, <1>9 DEF UpdateCourse, TypeOK
  <2> QED BY <1>7, <2>1
<1>10. CASE InsertRows(s)
  <2>1. job[s] \in Inserts /\ job[s].pc = "insert" /\ Duplicates(s) = {}
    BY <1>10, KindOf DEF InsertRows
  <2>2. r.pc = "indexed" /\ r.deleted = job[s].deleted /\ r.texts = job[s].texts
    BY <1>2, <1>10, <2>1 DEF InsertRows, TypeOK, Inserts
  <2>3. HoldsCourse(s)
    BY <2>1 DEF HoldsCourse
  <2>4. CanUpdateCourse(s)
    BY <2>3 DEF RowInv, DeletesDisjoint, CanUpdateCourse
  <2>5. Duplicates(s)' = Duplicates(s)
    <3>1. NewRows(s)' = NewRows(s)
      BY <1>2, <2>2 DEF NewRows
    <3> QED BY <1>0, <1>2, <2>2, <3>1 DEF Duplicates
  <2> QED BY <1>7, <2>1, <2>2, <2>4, <2>5
<1> QED BY <1>4, <1>5, <1>6, <1>8, <1>9, <1>10 DEF IndexStatement

\* The rows of a text start with index 0.
LEMMA FirstRow ==
    ASSUME NEW l \in Lessons, NEW t \in Texts, WellChunked(t), RowsOf(l, t) # {}
    PROVE  \E r \in RowsOf(l, t) : r.lesson = l /\ r.index = 0
<1>1. Chunks[t] \in Seq(Nat \X Nat)
  BY DEF Chunks, WellChunked
<1>2. DOMAIN Chunks[t] = 1 .. Len(Chunks[t]) /\ Len(Chunks[t]) \in Nat
  BY <1>1
<1>3. DOMAIN Chunks[t] # {}
  BY DEF RowsOf
<1>4. 1 \in DOMAIN Chunks[t]
  BY <1>2, <1>3
<1> DEFINE r == [lesson |-> l, index |-> 1 - 1, text |-> t,
                 first |-> Chunks[t][1][1], last |-> Chunks[t][1][2]]
<1>5. r \in RowsOf(l, t)
  BY <1>4 DEF RowsOf
<1> QED BY <1>5

\* The COMMIT leaves a lesson its rows, or replaces all of them.
LEMMA CommittedRows ==
    ASSUME \A t \in Texts : WellChunked(t),
           TypeOK, RowInv, NEW s \in Slots, EndIndex(s), NEW l \in Lessons
    PROVE  \/ /\ RowsFor(job[s].deleted, l) = {}
              /\ RowsFor(chunks', l) = RowsFor(chunks, l)
           \/ /\ RowsFor(job[s].deleted, l) = RowsFor(chunks, l)
              /\ RowsFor(chunks', l) = RowsFor(NewRows(s), l)
<1>1. job[s] \in Inserts /\ job[s].pc = "indexed"
  BY CommitMoves
<1>2. chunks' = (chunks \ job[s].deleted) \cup NewRows(s)
  BY DEF EndIndex, CommitIndex
<1>3. /\ job[s].deleted \subseteq chunks
      /\ RowsFor(job[s].deleted, l) \in {{}, RowsFor(chunks, l)}
      /\ Duplicates(s) = {}
  BY <1>1 DEF RowInv, DeletesWhole, KeysFree
<1>4. CASE RowsFor(job[s].deleted, l) = RowsFor(chunks, l)
  BY <1>2, <1>4 DEF RowsFor
<1>5. CASE RowsFor(job[s].deleted, l) = {} /\ RowsFor(chunks, l) # {}
  <2>1. RowsFor(NewRows(s), l) = {}
    <3> SUFFICES ASSUME RowsFor(NewRows(s), l) # {} PROVE FALSE
      OBVIOUS
    <3>1. PICK q \in RowsFor(chunks, l) : q.lesson = l /\ q.index = 0
      BY <1>5, FirstRow DEF RowInv, RowsWhole
    <3>2. PICK r \in RowsFor(NewRows(s), l) : r.lesson = l /\ r.index = 0
      BY <1>1, FirstRow, NewRowsOfLesson
    <3>3. q \in chunks \ job[s].deleted /\ r \in NewRows(s)
      BY <1>5, <3>1 DEF RowsFor
    <3> QED BY <1>3, <3>1, <3>2, <3>3 DEF Duplicates
  <2> QED BY <1>2, <1>5, <2>1 DEF RowsFor
<1> QED BY <1>3, <1>4, <1>5

\* The COMMIT of an indexing transaction.
LEMMA RowsCommit ==
    ASSUME \A t \in Texts : WellChunked(t),
           TypeOK, RowInv, NEW s \in Slots, EndIndex(s)
    PROVE  RowInv'
<1>1. /\ job[s] \in Inserts /\ job[s].pc = "indexed"
      /\ job'[s].pc \in {"idle", "done"}
      /\ \A u \in Slots \ {s} :
            /\ job[u].pc # "deleting" => job'[u] = job[u]
            /\ job[u].pc = "deleting" =>
                  job'[u] = [job[u] EXCEPT !.deleted = @ \ job[s].deleted]
  BY CommitMoves DEF Idle
<1>2. \A u \in Slots \ {s} : /\ job'[u].pc = job[u].pc
                             /\ job[u].pc = "deleting" =>
                                   job'[u].deleted = job[u].deleted \ job[s].deleted
  BY <1>1, KindOf DEF Deletings
<1>3. chunks' = (chunks \ job[s].deleted) \cup NewRows(s)
  BY DEF EndIndex, CommitIndex
<1>4. /\ Deleted(s) = job[s].deleted /\ Deleted(s)' = {}
      /\ \A u \in Slots \ {s} : Deleted(u)' = Deleted(u)
  <2>1. Deleted(s) = job[s].deleted /\ Deleted(s)' = {}
    BY <1>1 DEF Deleted
  <2>2. ASSUME NEW u \in Slots \ {s} PROVE Deleted(u)' = Deleted(u)
    <3>1. CASE job[u].pc = "deleting"
      BY <1>2, <3>1 DEF Deleted
    <3>2. CASE job[u].pc # "deleting"
      BY <1>1, <3>2 DEF Deleted
    <3> QED BY <3>1, <3>2
  <2> QED BY <2>1, <2>2
<1>5. RowsWhole'
  <2>1. ASSUME NEW l \in Lessons
        PROVE  RowsFor(chunks', l) = {} \/ \E t \in Texts : RowsFor(chunks', l) = RowsOf(l, t)
    BY <1>1, CommittedRows, NewRowsOfLesson DEF RowInv, RowsWhole
  <2> QED BY <2>1 DEF RowsWhole, RowsFor
<1>6. DeletesWhole'
  <2>1. ASSUME NEW u \in Slots \ {s}, job[u].pc \in Deleting
        PROVE  job'[u].deleted = job[u].deleted \ job[s].deleted
    <3>1. CASE job[u].pc = "deleting"
      BY <1>2, <3>1
    <3>2. CASE job[u].pc # "deleting"
      <4>1. Deleted(u) = job[u].deleted /\ job'[u] = job[u]
        BY <1>1, <2>1, <3>2 DEF Deleted, Deleting
      <4>2. Deleted(u) \cap Deleted(s) = {}
        BY DEF RowInv, DeletesDisjoint
      <4> QED BY <1>4, <4>1, <4>2
    <3> QED BY <3>1, <3>2
  <2>2. ASSUME NEW u \in Slots \ {s}, job[u].pc \in Deleting
        PROVE  /\ job'[u].deleted \subseteq chunks'
               /\ \A l \in Lessons : RowsFor(job'[u].deleted, l) \in {{}, RowsFor(chunks', l)}
    <3>1. /\ job[u].deleted \subseteq chunks
          /\ \A l \in Lessons : RowsFor(job[u].deleted, l) \in {{}, RowsFor(chunks, l)}
      BY <2>2 DEF RowInv, DeletesWhole, Deleting
    <3>2. job'[u].deleted \subseteq chunks'
      BY <1>3, <2>1, <2>2, <3>1
    <3>3. ASSUME NEW l \in Lessons
          PROVE  RowsFor(job'[u].deleted, l) \in {{}, RowsFor(chunks', l)}
      <4>1. RowsFor(job'[u].deleted, l) = RowsFor(job[u].deleted, l) \ RowsFor(job[s].deleted, l)
        BY <2>1, <2>2 DEF RowsFor
      <4> QED BY <3>1, <4>1, CommittedRows
    <3> QED BY <3>2, <3>3
  <2>3. \A u \in Slots : job'[u].pc \in Deleting => u # s /\ job[u].pc \in Deleting
    BY <1>1, <1>2 DEF Deleting
  <2> QED BY <2>2, <2>3 DEF DeletesWhole, Deleting, RowsFor
<1>7. DeletesDisjoint'
  <2>1. \A u \in Slots : HoldsCourse(u)' => u # s /\ HoldsCourse(u)
    BY <1>1, <1>2 DEF HoldsCourse
  <2>2. \A u, v \in Slots : u # v => /\ Deleted(u)' \cap Deleted(v)' = {}
                                   /\ ~(HoldsCourse(u)' /\ HoldsCourse(v)')
    BY <1>4, <2>1 DEF RowInv, DeletesDisjoint
  <2> QED BY <2>2 DEF DeletesDisjoint
<1>8. KeysFree'
  <2>1. \A u \in Slots \ {s} : job'[u].pc # "indexed"
    BY <1>1, <1>2 DEF RowInv, DeletesDisjoint, HoldsCourse
  <2> QED BY <1>1, <2>1 DEF KeysFree
<1> QED BY <1>5, <1>6, <1>7, <1>8 DEF RowInv

\* The rows stay whole in every step.
LEMMA RowsNext ==
    ASSUME \A t \in Texts : WellChunked(t)
    PROVE  TypeOK /\ AttemptInPhase /\ RowInv /\ [Next]_vars => RowInv'
<1> SUFFICES ASSUME TypeOK, AttemptInPhase, RowInv, [Next]_vars PROVE RowInv'
  OBVIOUS
<1>1. CASE Instructor \/ StartWorkflow
  <2>1. UNCHANGED <<chunks, job>>
    BY <1>1 DEF Instructor, StartWorkflow, AskPublish, Archive, RequestReindex, AddLesson, Upload,
                indexVars
  <2> QED BY <2>1, RowsStay
<1>2. ASSUME NEW s \in Slots, StartAttempt(s) PROVE RowInv'
  <2>1. chunks' = chunks
    BY <1>2 DEF StartAttempt, indexVars
  <2> DEFINE r == [pc |-> FirstStatement(wf.phase), by |-> Publish, run |-> wf.run]
  <2>2. r \in Jobs /\ Moves(s, r) /\ r.pc \in {"validate", "read", "mark", "clear", "announce"}
    BY <1>2, StartMoves, JobKinds
  <2> HIDE DEF r
  <2> QED BY <2>1, <2>2, RowsApart DEF Deleting
<1>3. ASSUME NEW s \in Slots, TakeReindex(s) PROVE RowInv'
  <2>1. PICK n \in 0 .. MaxRetries :
          job' = [job EXCEPT ![s] = [pc |-> "read", by |-> [task |-> "reindex", retries |-> n]]]
    BY <1>3 DEF TakeReindex
  <2> DEFINE r == [pc |-> "read", by |-> [task |-> "reindex", retries |-> n]]
  <2>2. r \in Jobs /\ Moves(s, r)
    BY <2>1, JobKinds DEF Reindexes, Moves
  <2>3. chunks' = chunks
    BY <1>3 DEF TakeReindex, indexVars
  <2> QED BY <2>2, <2>3, RowsApart DEF Deleting
<1>4. ASSUME NEW s \in Slots, Timeout(s) PROVE RowInv'
  BY <1>4, RowsStay DEF Timeout, indexVars
<1>5. ASSUME NEW s \in Slots, Report(s) PROVE RowInv'
  <2>1. chunks' = chunks /\ Moves(s, Idle)
    BY <1>5, ReportMoves DEF Report, indexVars
  <2> QED BY <2>1, RowsApart, JobKinds DEF Deleting, Idle
<1>6. ASSUME NEW s \in Slots, ActivityStep(s) PROVE RowInv'
  <2>1. PICK r \in Jobs :
              /\ Moves(s, r)
              /\ r.pc \in {"done", "count", "publishing", "marked", "clearing", "cleared"}
              /\ r.pc \in {"marked", "cleared"} => CanUpdateCourse(s)
    BY <1>6, ActivityMoves
  <2>2. chunks' = chunks
    BY <1>6 DEF ActivityStep, ValidateStatus, CountLessons, MarkRead, MarkWrite, MarkCommit,
                ClearRead, ClearWrite, ClearCommit, Announce, indexVars
  <2> QED BY <2>1, <2>2, RowsApart DEF Deleting
<1>7. ASSUME NEW s \in Slots, IndexFails(s) \/ Fault(s) PROVE RowInv'
  <2>1. chunks' = chunks
    BY <1>7 DEF IndexFails, Fault, indexVars
  <2>2. CASE ByReindex(s)
    BY <1>7, <2>1, <2>2, EndMoves, RowsApart, JobKinds DEF Deleting, Idle
  <2>3. CASE ~ByReindex(s)
    <3> DEFINE r == [pc |-> "done", result |-> "error"]
    <3>1. r \in Jobs /\ Moves(s, r)
      BY <1>7, <2>3, EndMoves, ResultTypes, JobKinds
    <3> QED BY <2>1, <3>1, RowsApart DEF Deleting
  <2> QED BY <2>2, <2>3
<1>8. CASE UNCHANGED vars
  BY <1>8, RowsStay DEF vars, indexVars
<1> QED BY <1>1, <1>2, <1>3, <1>4, <1>5, <1>6, <1>7, <1>8, RowsIndexing, RowsCommit, StepKinds

-----------------------------------------------------------------------------
(* The attempt that the workflow waits for.                                 *)

\* The statements of the phases are apart.
LEMMA StatementsOf ==
    /\ Statements("validate") = {"validate", "count"}
    /\ Statements("process")  = {"read", "delete", "deleting", "extract", "insert", "indexed"}
    /\ Statements("mark")     = {"mark", "publishing", "marked"}
    /\ Statements("clear")    = {"clear", "clearing", "cleared"}
    /\ Statements("announce") = {"announce"}
BY DEF Statements

\* All slots but s stand where they stood.
Apart(s) ==
    \A u \in Slots \ {s} :
        /\ job'[u].pc = job[u].pc
        /\ job[u].pc \in {"done", "announce"} => job'[u] = job[u]
        /\ job[u].pc \in Statements("process") => job'[u].by = job[u].by

\* That is so of what only moves s, and of the COMMIT of an indexing transaction.
LEMMA MovesApart ==
    ASSUME TypeOK, NEW s \in Slots, NEW r \in Jobs, Moves(s, r)
    PROVE  Apart(s) /\ job'[s] = r
BY MovesType DEF Apart

\* The COMMIT of an indexing transaction leaves the other slots apart, and ends s.
LEMMA CommitApart ==
    ASSUME TypeOK, NEW s \in Slots, EndIndex(s)
    PROVE  Apart(s)
<1>1. \A u \in Slots \ {s} :
         /\ job[u].pc # "deleting" => job'[u] = job[u]
         /\ job[u].pc = "deleting" =>
               job'[u] = [job[u] EXCEPT !.deleted = @ \ job[s].deleted]
  BY CommitMoves
<1>2. ASSUME NEW u \in Slots \ {s}, job[u].pc = "deleting"
      PROVE  job'[u].pc = job[u].pc /\ job'[u].by = job[u].by
  BY <1>1, <1>2, KindOf DEF Deletings
<1> QED BY <1>1, <1>2 DEF Apart

\* What is new among the statements reached and the reports comes from s.
LEMMA Views ==
    ASSUME TypeOK, AttemptInPhase, NEW s \in Slots, Apart(s)
    PROVE  /\ \A S : At(S)' => At(S) \/ job'[s].pc \in S
           /\ wf' = wf => \A p, x : Reported(p, x)' =>
                 \/ Reported(p, x)
                 \/ /\ wf.attempt = s /\ wf.phase = p
                    /\ job'[s].pc = "done" /\ job'[s].result = x
<1>1. \A S : At(S)' => At(S) \/ job'[s].pc \in S
  BY DEF At, Apart
<1>2. ASSUME wf' = wf, NEW p, NEW x, Reported(p, x)', wf.attempt # s PROVE Reported(p, x)
  <2>1. wf.attempt \in Slots \ {s}
    BY <1>2 DEF Reported, TypeOK
  <2> QED BY <1>2, <2>1 DEF Reported, Apart
<1>3. ASSUME wf' = wf, NEW p, NEW x, Reported(p, x)', wf.attempt = s
      PROVE  wf.phase = p /\ job'[s].pc = "done" /\ job'[s].result = x
  BY <1>3 DEF Reported
<1> QED BY <1>1, <1>2, <1>3

\* The attempt keeps its phase when a statement of s does.
LEMMA AttemptStays ==
    ASSUME TypeOK, AttemptInPhase, NEW s \in Slots, Apart(s), UNCHANGED <<wf, asked>>,
           wf.attempt = s =>
               /\ job'[s].pc \in Statements(wf.phase) \cup {"done"}
               /\ job'[s].pc \in Statements("process") => ~ByReindex(s)'
    PROVE  AttemptInPhase'
<1>1. Running' = Running
  BY DEF Running
<1>2. ASSUME wf.attempt # NoSlot, wf.attempt # s
      PROVE  /\ job'[wf.attempt].pc \in Statements(wf.phase) \cup {"done"}
             /\ job'[wf.attempt].pc \in Statements("process") => ~ByReindex(wf.attempt)'
  <2>1. wf.attempt \in Slots \ {s}
    BY <1>2 DEF TypeOK
  <2> QED BY <1>2, <2>1 DEF AttemptInPhase, Apart, ByReindex
<1> QED BY <1>1, <1>2 DEF AttemptInPhase, ByReindex, Statements

\* Each statement of an activity is followed by one of the same phase.
LEMMA ActivityInPhase ==
    ASSUME TypeOK, NEW s \in Slots, ActivityStep(s), NEW p \in Phases,
           job[s].pc \in Statements(p)
    PROVE  job'[s].pc \in Statements(p) \cup {"done"} /\ job'[s].pc \notin Statements("process")
<1>1. job[s] \in Attempts
  BY ActivityMoves
<1>2. ASSUME NEW result, Done(s, result) PROVE job'[s].pc = "done"
  BY <1>2 DEF Done, TypeOK
<1>3. ASSUME NEW q, Goto(s, q) PROVE job'[s].pc = q
  BY <1>1, <1>3 DEF Goto, TypeOK, Attempts
<1>4. CASE ValidateStatus(s) \/ CountLessons(s)
  BY <1>2, <1>3, <1>4, StatementsOf DEF ValidateStatus, CountLessons, Statements
<1>5. CASE MarkRead(s)
  BY <1>2, <1>3, <1>5, StatementsOf DEF MarkRead, Statements, TypeOK
<1>6. CASE MarkWrite(s) \/ MarkCommit(s)
  BY <1>2, <1>3, <1>6, StatementsOf DEF MarkWrite, MarkCommit, Statements
<1>7. CASE ClearRead(s) \/ ClearWrite(s) \/ ClearCommit(s)
  BY <1>2, <1>3, <1>7, StatementsOf DEF ClearRead, ClearWrite, ClearCommit, Statements
<1>8. CASE Announce(s)
  BY <1>2, <1>8, StatementsOf DEF Announce, Statements
<1> QED BY <1>4, <1>5, <1>6, <1>7, <1>8 DEF ActivityStep

\* Where a slot stands tells the phase of the attempt the workflow waits for in it.
LEMMA PhaseOf ==
    ASSUME AttemptInPhase, NEW s \in Slots, wf.attempt = s, TypeOK
    PROVE  /\ wf.phase \in {"validate", "process", "mark", "clear", "announce"}
           /\ \A p \in {"validate", "process", "mark", "clear", "announce"} :
                 job[s].pc \in Statements(p) => wf.phase = p
           /\ job[s].pc # "done" => job[s].pc \in Statements(wf.phase)
           /\ job[s].pc # "idle"
<1>1. wf.phase \in {"validate", "process", "mark", "clear", "announce"}
  BY SlotsAssumption DEF AttemptInPhase, Running
<1>2. job[s].pc \in Statements(wf.phase) \cup {"done"}
  BY SlotsAssumption DEF AttemptInPhase
<1> QED BY <1>1, <1>2, StatementsOf

\* An attempt the workflow waits for reports its error.
LEMMA AttemptFails ==
    ASSUME TypeOK, AttemptInPhase, NEW s \in Slots, IndexFails(s) \/ Fault(s)
    PROVE  /\ Apart(s)
           /\ ByReindex(s) => job'[s] = Idle
           /\ ~ByReindex(s) => job'[s] = [pc |-> "done", result |-> "error"]
           /\ wf.attempt = s => ~ByReindex(s)
<1>1. job[s].pc \notin {"idle", "done"}
  BY EndMoves
<1>2. Apart(s) /\ (ByReindex(s) => job'[s] = Idle)
      /\ (~ByReindex(s) => job'[s] = [pc |-> "done", result |-> "error"])
  BY EndMoves, MovesApart, JobKinds, ResultTypes
<1>3. ASSUME wf.attempt = s PROVE ~ByReindex(s)
  <2>1. CASE job[s].pc \in Statements("process")
    BY <1>3, <2>1, SlotsAssumption DEF AttemptInPhase
  <2>2. CASE job[s].pc \notin Statements("process")
    <3>1. job[s] \in Attempts
      BY <1>1, <2>2, KindOf, JobKinds, StatementsOf
         DEF AttemptPcs, Deletes, Deletings, Extracts, Inserts, Results, Idle
    <3> QED BY <3>1 DEF Attempts, ByReindex, Publish
  <2> QED BY <2>1, <2>2
<1> QED BY <1>2, <1>3

\* Every step keeps the attempt in its phase.
LEMMA AttemptNext == TypeOK /\ AttemptInPhase /\ [Next]_vars => AttemptInPhase'
<1> SUFFICES ASSUME TypeOK, AttemptInPhase, [Next]_vars PROVE AttemptInPhase'
  OBVIOUS
<1>1. CASE Instructor
  <2>1. UNCHANGED <<wf, job>>
    BY <1>1 DEF Instructor, AskPublish, Archive, RequestReindex, AddLesson, Upload, pubVars
  <2>2. wf'.run + asked' <= MaxRuns
    <3>1. CASE AskPublish
      BY <2>1, <3>1, BoundsAssumption DEF AskPublish, TypeOK
    <3>2. CASE asked' = asked
      BY <2>1, <3>2 DEF AttemptInPhase
    <3> QED BY <1>1, <3>1, <3>2 DEF Instructor, Archive, RequestReindex, pubVars
  <2> QED BY <2>1, <2>2 DEF AttemptInPhase, Running, ByReindex, Statements
<1>2. CASE StartWorkflow
  <2>1. MaxRuns \in Nat /\ wf.run \in Nat /\ asked \in Nat /\ wf.run + asked <= MaxRuns
    BY BoundsAssumption DEF TypeOK, AttemptInPhase
  <2>2. CASE Running
    BY <1>2, <2>1, <2>2 DEF StartWorkflow, AttemptInPhase, Running, ByReindex, Statements
  <2>3. CASE ~Running
    <3>1. wf' = [phase |-> "validate", run |-> wf.run + 1, attempt |-> NoSlot] /\ asked' = asked - 1
          /\ asked > 0
      BY <1>2, <2>3 DEF StartWorkflow
    <3>2. wf'.run + asked' <= MaxRuns /\ wf'.run > 0 /\ wf'.attempt = NoSlot
      BY <2>1, <3>1
    <3> QED BY <3>2 DEF AttemptInPhase
  <2> QED BY <2>2, <2>3
<1>3. ASSUME NEW s \in Slots, StartAttempt(s) PROVE AttemptInPhase'
  <2> DEFINE r == [pc |-> FirstStatement(wf.phase), by |-> Publish, run |-> wf.run]
  <2>1. r \in Attempts /\ Moves(s, r) /\ r.pc \in Statements(wf.phase)
    BY <1>3, StartMoves
  <2>2. job'[s] = r
    BY <2>1, MovesApart, JobKinds
  <2>3. wf'.attempt = s /\ wf'.phase = wf.phase /\ wf'.run = wf.run /\ asked' = asked /\ Running
    BY <1>3 DEF StartAttempt, TypeOK
  <2>4. job'[s].by = Publish /\ job'[s].pc \in Statements(wf.phase)
    BY <2>1, <2>2 DEF Attempts
  <2> QED BY <2>3, <2>4 DEF AttemptInPhase, Running, ByReindex, Publish, Statements
<1>4. ASSUME NEW s \in Slots, TakeReindex(s) PROVE AttemptInPhase'
  <2>1. PICK n \in 0 .. MaxRetries :
          job' = [job EXCEPT ![s] = [pc |-> "read", by |-> [task |-> "reindex", retries |-> n]]]
    BY <1>4 DEF TakeReindex
  <2> DEFINE r == [pc |-> "read", by |-> [task |-> "reindex", retries |-> n]]
  <2>2. r \in Jobs /\ Moves(s, r) /\ job[s].pc = "idle"
    BY <1>4, <2>1, JobKinds DEF Reindexes, Moves, TakeReindex, Free
  <2>3. wf.attempt # s
    BY <2>2, PhaseOf
  <2> QED BY <1>4, <2>2, <2>3, MovesApart, AttemptStays DEF TakeReindex
<1>5. ASSUME NEW s \in Slots, Timeout(s) PROVE AttemptInPhase'
  <2>1. wf' = [wf EXCEPT !.attempt = NoSlot] /\ asked' = asked
    BY <1>5 DEF Timeout
  <2>2. wf'.attempt = NoSlot /\ wf'.phase = wf.phase /\ wf'.run = wf.run
    BY <2>1 DEF TypeOK
  <2> QED BY <2>1, <2>2 DEF AttemptInPhase, Running
<1>6. ASSUME NEW s \in Slots, Report(s) PROVE AttemptInPhase'
  <2>1. Moves(s, Idle) /\ asked' = asked
    BY <1>6, ReportMoves DEF Report
  <2>2. CASE wf.attempt # s
    BY <1>6, <2>1, <2>2, ReportMoves, MovesApart, AttemptStays, JobKinds
  <2>3. CASE wf.attempt = s
    <3>1. wf'.attempt = NoSlot /\ wf'.run = wf.run /\ Running
      BY <1>6, <2>3, ReportMoves DEF Running
    <3> QED BY <2>1, <3>1 DEF AttemptInPhase
  <2> QED BY <2>2, <2>3
<1>7. ASSUME NEW s \in Slots, ActivityStep(s) PROVE AttemptInPhase'
  <2>1. Apart(s)
    BY <1>7, ActivityMoves, MovesApart
  <2>2. UNCHANGED <<wf, asked>>
    BY <1>7 DEF ActivityStep, ValidateStatus, CountLessons, MarkRead, MarkWrite, MarkCommit,
                ClearRead, ClearWrite, ClearCommit, Announce, pubVars
  <2>3. job[s].pc # "done"
    BY <1>7, ActivityMoves DEF Attempts
  <2>4. wf.phase \in Phases
    BY DEF TypeOK
  <2>5. wf.attempt = s => /\ job'[s].pc \in Statements(wf.phase) \cup {"done"}
                          /\ job'[s].pc \notin Statements("process")
    BY <1>7, <2>3, <2>4, PhaseOf, ActivityInPhase
  <2> QED BY <2>1, <2>2, <2>5, AttemptStays
<1>8. ASSUME NEW s \in Slots, IndexStatement(s), UNCHANGED pubVars PROVE AttemptInPhase'
  <2>1. PICK r \in Jobs : /\ Moves(s, r)
              /\ job[s].pc \in Statements("process") /\ r.pc \in Statements("process")
              /\ job[s].by \in By /\ r.by = job[s].by
    BY <1>8, IndexMoves
  <2>2. Apart(s) /\ job'[s] = r
    BY <2>1, MovesApart
  <2>3. wf.attempt = s => wf.phase = "process" /\ ~ByReindex(s)
    BY <2>1, PhaseOf, SlotsAssumption DEF AttemptInPhase
  <2>4. ByReindex(s)' = ByReindex(s)
    BY <2>1, <2>2 DEF ByReindex
  <2> QED BY <1>8, <2>1, <2>2, <2>3, <2>4, AttemptStays DEF pubVars
<1>9. ASSUME NEW s \in Slots, EndIndex(s) PROVE AttemptInPhase'
  <2>1. /\ Apart(s) /\ job[s].pc = "indexed"
        /\ job'[s] = IF ByReindex(s) THEN Idle ELSE [pc |-> "done", result |-> "ok"]
    BY <1>9, CommitApart, CommitMoves
  <2>2. wf.attempt = s => ~ByReindex(s)
    BY <2>1, StatementsOf, SlotsAssumption DEF AttemptInPhase
  <2>3. wf.attempt = s => job'[s].pc = "done"
    BY <2>1, <2>2
  <2> QED BY <1>9, <2>1, <2>3, StatementsOf, AttemptStays DEF EndIndex, pubVars
<1>10. ASSUME NEW s \in Slots, IndexFails(s) \/ Fault(s) PROVE AttemptInPhase'
  <2>1. Apart(s) /\ (wf.attempt = s => job'[s].pc = "done")
    BY <1>10, AttemptFails
  <2> QED BY <1>10, <2>1, StatementsOf, AttemptStays DEF IndexFails, Fault
<1>11. CASE UNCHANGED vars
  BY <1>11 DEF vars, pubVars, AttemptInPhase, Running, ByReindex, Statements
<1> QED BY <1>1, <1>2, <1>3, <1>4, <1>5, <1>6, <1>7, <1>8, <1>9, <1>10, <1>11, StepKinds

-----------------------------------------------------------------------------
(* The status of the course and the phases of its workflow.                 *)

StatusInv == ClearedIfArchived /\ PublishedBefore /\ UnprocessedOnlyAfterOverwrite

\* Without a change of the slots and the workflow nothing new is seen.
LEMMA ViewsStay ==
    ASSUME UNCHANGED <<wf, job>>
    PROVE  (\A S : At(S)' <=> At(S)) /\ (\A p, x : Reported(p, x)' <=> Reported(p, x))
BY DEF At, Reported

\* Requests do not touch the workflow; archiving only makes the claims weaker.
LEMMA StatusRequests ==
    ASSUME TypeOK, AttemptInPhase, StatusInv, Instructor \/ StartWorkflow \/ UNCHANGED vars
    PROVE  StatusInv'
<1>1. UNCHANGED <<job, announced, history, processed>> /\ status' \in {status, "archived"}
  BY DEF Instructor, StartWorkflow, AskPublish, Archive, RequestReindex, AddLesson, Upload,
         indexVars, pubVars, vars
<1>2. CASE wf' = wf
  BY <1>1, <1>2, ViewsStay DEF StatusInv, ClearedIfArchived, PublishedBefore,
                              UnprocessedOnlyAfterOverwrite
<1>3. CASE wf' # wf
  <2>1. wf' = [phase |-> "validate", run |-> wf.run + 1, attempt |-> NoSlot] /\ status' = status
    BY <1>3 DEF Instructor, StartWorkflow, AskPublish, Archive, RequestReindex, AddLesson, Upload,
         indexVars, pubVars, vars
  <2>2. \A p, x : ~Reported(p, x)'
    BY <2>1 DEF Reported
  <2>3. \A S : At(S)' <=> At(S)
    BY <1>1 DEF At
  <2> QED BY <1>1, <2>1, <2>2, <2>3 DEF StatusInv, ClearedIfArchived, PublishedBefore,
                                        UnprocessedOnlyAfterOverwrite
<1> QED BY <1>2, <1>3

\* A statement that changes neither the course nor the history, in its phase.
LEMMA StatusMoves ==
    ASSUME TypeOK, AttemptInPhase, StatusInv, NEW s \in Slots, Apart(s),
           UNCHANGED <<wf, status, processed, history>>,
           \A p \in {"mark", "clear", "announce"} :
               job'[s].pc \in Statements(p) => job[s].pc \in Statements(p),
           wf.attempt = s /\ job'[s].pc = "done" /\ wf.phase = "mark" =>
               \/ job'[s].result = "error"
               \/ job'[s].result = "ok" /\ status = "published"
               \/ job'[s].result = "fatal" /\ status = "archived",
           wf.attempt = s /\ job'[s].pc = "done" /\ wf.phase = "process" =>
               job'[s].result # "ok",
           (\E r \in 1 .. MaxRuns : announced'[r] > 0) => history.published
    PROVE  StatusInv'
<1>1. \A p \in {"mark", "clear", "announce"} : At(Statements(p))' => At(Statements(p))
  <2>1. ASSUME NEW p \in {"mark", "clear", "announce"}, At(Statements(p))'
        PROVE  At(Statements(p))
    <3>1. Statements(p)' = Statements(p)
      BY DEF Statements
    <3> QED BY <2>1, <3>1, Views DEF At
  <2> QED BY <2>1
<1>2. At(Statements("mark"))' => At(Statements("mark"))
  BY <1>1
<1>3. At(Statements("clear"))' => At(Statements("clear"))
  BY <1>1
<1>4. At({"announce"})' => At({"announce"})
  BY <1>1, StatementsOf
<1>5. /\ Reported("mark", "fatal")' => Reported("mark", "fatal") \/ status = "archived"
      /\ Reported("mark", "ok")' => Reported("mark", "ok") \/ status = "published"
      /\ Reported("process", "ok")' => Reported("process", "ok")
  BY Views
<1>6. ClearedIfArchived'
  BY <1>2, <1>3, <1>5 DEF StatusInv, ClearedIfArchived
<1>7. PublishedBefore'
  BY <1>4, <1>5 DEF StatusInv, PublishedBefore
<1>8. UnprocessedOnlyAfterOverwrite'
  BY DEF StatusInv, UnprocessedOnlyAfterOverwrite
<1> QED BY <1>6, <1>7, <1>8 DEF StatusInv

\* The statements of validate, mark, clear and announce.
LEMMA StatusActivity ==
    ASSUME TypeOK, AttemptInPhase, StatusInv, NEW s \in Slots, ActivityStep(s)
    PROVE  StatusInv'
<1>1. job[s] \in Attempts /\ job[s].pc # "done" /\ Apart(s)
  BY ActivityMoves, MovesApart DEF Attempts
<1>2. ASSUME NEW result, Done(s, result)
      PROVE  job'[s].pc = "done" /\ job'[s].result = result
  BY <1>2 DEF Done, TypeOK
<1>3. ASSUME NEW q, Goto(s, q) PROVE job'[s].pc = q
  BY <1>1, <1>3 DEF Goto, TypeOK, Attempts
<1>4. CASE ValidateStatus(s) \/ CountLessons(s)
  <2>1. /\ job[s].pc \in Statements("validate")
        /\ job'[s].pc \in {"count", "done"}
        /\ UNCHANGED <<wf, status, processed, history, announced>>
    BY <1>2, <1>3, <1>4, StatementsOf
       DEF ValidateStatus, CountLessons, indexVars, pubVars
  <2>2. wf.attempt = s => wf.phase = "validate"
    BY <2>1, PhaseOf
  <2>3. (\E r \in 1 .. MaxRuns : announced'[r] > 0) => history.published
    BY <2>1 DEF StatusInv, PublishedBefore
  <2> QED BY <1>1, <2>1, <2>2, <2>3, StatementsOf, StatusMoves
<1>5. CASE MarkRead(s)
  <2>1. /\ job[s].pc \in Statements("mark")
        /\ UNCHANGED <<wf, status, processed, history, announced>>
        /\ \/ job'[s].pc = "publishing"
           \/ job'[s].pc = "done" /\ job'[s].result = "ok" /\ status = "published"
           \/ job'[s].pc = "done" /\ job'[s].result = "fatal" /\ status = "archived"
    BY <1>2, <1>3, <1>5, StatementsOf DEF MarkRead, indexVars, pubVars, TypeOK
  <2>2. wf.attempt = s => wf.phase = "mark"
    BY <2>1, PhaseOf
  <2>3. (\E r \in 1 .. MaxRuns : announced'[r] > 0) => history.published
    BY <2>1 DEF StatusInv, PublishedBefore
  <2>4. \A p \in {"mark", "clear", "announce"} :
           job'[s].pc \in Statements(p) => job[s].pc \in Statements(p)
    BY <2>1, StatementsOf
  <2> QED BY <1>1, <2>1, <2>2, <2>3, <2>4, StatusMoves
<1>6. CASE MarkWrite(s) \/ ClearRead(s) \/ ClearWrite(s)
  <2>1. /\ UNCHANGED <<wf, status, processed, history, announced>>
        /\ \/ job[s].pc \in Statements("mark") /\ job'[s].pc = "marked"
           \/ /\ job[s].pc \in Statements("clear")
              /\ job'[s].pc \in {"clearing", "cleared", "done"}
    BY <1>2, <1>3, <1>6, StatementsOf
       DEF MarkWrite, ClearRead, ClearWrite, indexVars, pubVars
  <2>2. wf.attempt = s /\ job'[s].pc = "done" => wf.phase = "clear"
    BY <2>1, PhaseOf
  <2>3. (\E r \in 1 .. MaxRuns : announced'[r] > 0) => history.published
    BY <2>1 DEF StatusInv, PublishedBefore
  <2>4. \A p \in {"mark", "clear", "announce"} :
           job'[s].pc \in Statements(p) => job[s].pc \in Statements(p)
    BY <2>1, StatementsOf
  <2> QED BY <1>1, <2>1, <2>2, <2>3, <2>4, StatusMoves
<1>7. CASE Announce(s)
  <2>1. /\ job[s].pc = "announce" /\ job'[s].pc = "done"
        /\ UNCHANGED <<wf, status, processed, history>>
    BY <1>2, <1>7 DEF Announce, indexVars
  <2>2. history.published
    BY <2>1 DEF StatusInv, PublishedBefore, At
  <2>3. wf.attempt = s => wf.phase = "announce"
    BY <2>1, PhaseOf, StatementsOf
  <2> QED BY <1>1, <2>1, <2>2, <2>3, StatementsOf, StatusMoves
<1>8. CASE MarkCommit(s)
  <2>1. /\ job[s].pc = "marked" /\ job'[s].pc = "done" /\ job'[s].result = "ok"
        /\ UNCHANGED <<wf, processed, announced>>
        /\ status' = "published" /\ history'.published
        /\ history'.overwritten <=> (history.overwritten \/ status = "archived")
    BY <1>2, <1>8 DEF MarkCommit, indexVars
  <2>2. At(Statements("mark"))
    BY <2>1, StatementsOf DEF At
  <2>3. ~processed => history'.overwritten
    BY <2>1, <2>2 DEF StatusInv, ClearedIfArchived
  <2>4. wf.phase = "clear" \/ At(Statements("clear")) \/ Reported("mark", "fatal")
            => history'.overwritten
    BY <2>1 DEF StatusInv, ClearedIfArchived
  <2>5. At(Statements("clear"))' => At(Statements("clear"))
    <3>1. Statements("clear")' = Statements("clear")
      BY DEF Statements
    <3> QED BY <1>1, <2>1, <3>1, Views, StatementsOf DEF At
  <2>6. Reported("mark", "fatal")' => Reported("mark", "fatal")
    BY <1>1, <2>1, Views
  <2>7. ClearedIfArchived'
    BY <2>1, <2>3, <2>4, <2>5, <2>6 DEF ClearedIfArchived
  <2> QED BY <2>1, <2>3, <2>7 DEF StatusInv, PublishedBefore, UnprocessedOnlyAfterOverwrite
<1>9. CASE ClearCommit(s)
  <2>1. /\ job[s].pc = "cleared" /\ job'[s].pc = "done"
        /\ UNCHANGED <<wf, status, history, announced>>
    BY <1>2, <1>9 DEF ClearCommit, pubVars
  <2>2. status = "archived" \/ history.overwritten
    <3>1. At(Statements("clear"))
      BY <2>1, StatementsOf DEF At
    <3> QED BY <3>1 DEF StatusInv, ClearedIfArchived
  <2>3. ClearedIfArchived' /\ UnprocessedOnlyAfterOverwrite'
    BY <2>1, <2>2 DEF ClearedIfArchived, UnprocessedOnlyAfterOverwrite
  <2>4. PublishedBefore'
    <3>1. wf.attempt = s => wf.phase = "clear"
      BY <2>1, PhaseOf, StatementsOf
    <3>2. At({"announce"})' => At({"announce"})
      BY <1>1, <2>1, Views
    <3>3. Reported("mark", "ok")' => Reported("mark", "ok")
      BY <1>1, <2>1, <3>1, Views
    <3> QED BY <2>1, <3>2, <3>3 DEF StatusInv, PublishedBefore
  <2> QED BY <2>3, <2>4 DEF StatusInv
<1> QED BY <1>4, <1>5, <1>6, <1>7, <1>8, <1>9 DEF ActivityStep

\* Every step keeps it.
LEMMA StatusNext == TypeOK /\ AttemptInPhase /\ StatusInv /\ [Next]_vars => StatusInv'
<1> SUFFICES ASSUME TypeOK, AttemptInPhase, StatusInv, [Next]_vars PROVE StatusInv'
  OBVIOUS
<1>0. (\E r \in 1 .. MaxRuns : announced[r] > 0) => history.published
  BY DEF StatusInv, PublishedBefore
<1>1. ASSUME NEW s \in Slots, StartAttempt(s) PROVE StatusInv'
  <2> DEFINE r == [pc |-> FirstStatement(wf.phase), by |-> Publish, run |-> wf.run]
  <2>1. r \in Jobs /\ Moves(s, r) /\ r.pc \in Statements(wf.phase) /\ r.pc # "done"
    BY <1>1, StartMoves, JobKinds
  <2>2. Apart(s) /\ job'[s].pc \in Statements(wf.phase) /\ job'[s].pc # "done"
    BY <2>1, MovesApart
  <2>3. wf'.attempt = s /\ wf'.phase = wf.phase
        /\ UNCHANGED <<status, processed, history, announced>>
        /\ wf.phase \in {"validate", "process", "mark", "clear", "announce"}
    BY <1>1 DEF StartAttempt, TypeOK, indexVars, Running
  <2>4. \A p, x : ~Reported(p, x)'
    BY <2>2, <2>3 DEF Reported
  <2>5. \A p \in {"mark", "clear", "announce"} :
           At(Statements(p))' => At(Statements(p)) \/ wf.phase = p
    <3>1. ASSUME NEW p \in {"mark", "clear", "announce"}, At(Statements(p))'
          PROVE  At(Statements(p)) \/ wf.phase = p
      <4>1. Statements(p)' = Statements(p)
        BY DEF Statements
      <4>2. job'[s].pc \in Statements(p) => wf.phase = p
        BY <2>2, <2>3, StatementsOf
      <4> QED BY <2>2, <3>1, <4>1, <4>2, Views
    <3> QED BY <3>1
  <2>6. /\ At(Statements("mark"))' => At(Statements("mark")) \/ wf.phase = "mark"
        /\ At(Statements("clear"))' => At(Statements("clear")) \/ wf.phase = "clear"
        /\ At({"announce"})' => At({"announce"}) \/ wf.phase = "announce"
    BY <2>5, StatementsOf
  <2> QED BY <2>3, <2>4, <2>6
          DEF StatusInv, ClearedIfArchived, PublishedBefore, UnprocessedOnlyAfterOverwrite
<1>2. ASSUME NEW s \in Slots, TakeReindex(s) PROVE StatusInv'
  <2>1. PICK n \in 0 .. MaxRetries :
          job' = [job EXCEPT ![s] = [pc |-> "read", by |-> [task |-> "reindex", retries |-> n]]]
    BY <1>2 DEF TakeReindex
  <2> DEFINE r == [pc |-> "read", by |-> [task |-> "reindex", retries |-> n]]
  <2>2. r \in Jobs /\ Moves(s, r)
    BY <2>1, JobKinds DEF Reindexes, Moves
  <2>3. Apart(s) /\ job'[s].pc = "read"
    BY <2>2, MovesApart
  <2>4. UNCHANGED <<wf, status, processed, history, announced>>
    BY <1>2 DEF TakeReindex, indexVars
  <2> QED BY <1>0, <2>3, <2>4, StatementsOf, StatusMoves
<1>3. ASSUME NEW s \in Slots, Timeout(s) PROVE StatusInv'
  <2>1. /\ wf'.attempt = NoSlot /\ wf'.phase = wf.phase
        /\ UNCHANGED <<job, status, processed, history, announced>>
    BY <1>3 DEF Timeout, TypeOK, indexVars
  <2>2. (\A p, x : ~Reported(p, x)') /\ (\A S : At(S)' <=> At(S))
    BY <2>1 DEF Reported, At
  <2> QED BY <2>1, <2>2
          DEF StatusInv, ClearedIfArchived, PublishedBefore, UnprocessedOnlyAfterOverwrite
<1>4. ASSUME NEW s \in Slots, Report(s) PROVE StatusInv'
  <2>1. /\ job[s] \in Results /\ Moves(s, Idle) /\ job[s].pc = "done"
        /\ UNCHANGED <<status, processed, history, announced>>
    BY <1>4, ReportMoves DEF Report, indexVars
  <2>2. Apart(s) /\ job'[s].pc = "idle"
    BY <2>1, MovesApart, JobKinds DEF Idle
  <2>3. CASE wf.attempt # s
    BY <1>0, <1>4, <2>1, <2>2, <2>3, ReportMoves, StatementsOf, StatusMoves
  <2>4. CASE wf.attempt = s
    <3>1. /\ wf.phase \in {"validate", "process", "mark", "clear", "announce"}
          /\ wf'.attempt = NoSlot
          /\ job[s].result = "ok"    => wf'.phase = AfterSuccess(wf.phase)
          /\ job[s].result = "fatal" => wf'.phase = AfterFailure(wf.phase)
          /\ job[s].result = "error" => wf'.phase = wf.phase
          /\ job[s].result \in {"ok", "error", "fatal"}
      BY <1>4, <2>1, <2>4, ReportMoves DEF Results
    <3>2. \A x : job[s].result = x => Reported(wf.phase, x)
      BY <2>1, <2>4, SlotsAssumption DEF Reported
    <3>3. /\ wf'.phase = "clear" => wf.phase = "clear" \/ Reported("mark", "fatal")
          /\ wf'.phase = "mark" => wf.phase = "mark" \/ Reported("process", "ok")
          /\ wf'.phase = "announce" => wf.phase = "announce" \/ Reported("mark", "ok")
      BY <3>1, <3>2, NextPhase
    <3>4. wf'.phase = "announce" =>
             wf.phase = "announce" \/ wf.phase = "mark"
      BY <3>1, NextPhase
    <3>5. \A p, x : ~Reported(p, x)'
      BY <3>1 DEF Reported
    <3>6. \A S : At(S)' => At(S) \/ "idle" \in S
      BY <2>2, Views
    <3>7. /\ At(Statements("mark"))' => At(Statements("mark"))
          /\ At(Statements("clear"))' => At(Statements("clear"))
          /\ At({"announce"})' => At({"announce"})
      <4>1. Statements("mark")' = Statements("mark") /\ Statements("clear")' = Statements("clear")
        BY DEF Statements
      <4> QED BY <3>6, <4>1, StatementsOf
    <3>8. ClearedIfArchived'
      BY <2>1, <3>3, <3>4, <3>5, <3>7 DEF StatusInv, ClearedIfArchived
    <3>9. PublishedBefore'
      BY <2>1, <3>3, <3>5, <3>7 DEF StatusInv, PublishedBefore
    <3> QED BY <2>1, <3>8, <3>9 DEF StatusInv, UnprocessedOnlyAfterOverwrite
  <2> QED BY <2>3, <2>4
<1>5. ASSUME NEW s \in Slots, IndexStatement(s), UNCHANGED pubVars PROVE StatusInv'
  <2>1. PICK r \in Jobs : Moves(s, r) /\ r.pc \in Statements("process")
    BY <1>5, IndexMoves
  <2>2. Apart(s) /\ job'[s].pc \in Statements("process")
    BY <2>1, MovesApart
  <2>3. UNCHANGED <<wf, status, processed, history, announced>>
    BY <1>5 DEF IndexStatement, ReadLessons, StartDelete, FinishDelete, Extract, UpdateCourse,
                InsertRows, indexVars, pubVars
  <2> QED BY <1>0, <2>2, <2>3, StatementsOf, StatusMoves
<1>6. ASSUME NEW s \in Slots, EndIndex(s) PROVE StatusInv'
  <2>1. /\ Apart(s) /\ job[s].pc = "indexed"
        /\ job'[s] = IF ByReindex(s) THEN Idle ELSE [pc |-> "done", result |-> "ok"]
        /\ UNCHANGED <<wf, status, history, announced>> /\ processed' = TRUE
    BY <1>6, CommitApart, CommitMoves DEF EndIndex, CommitIndex, pubVars
  <2>2. job'[s].pc \in {"idle", "done"}
    BY <2>1 DEF Idle
  <2>3. wf.attempt = s => wf.phase = "process"
    BY <2>1, PhaseOf, StatementsOf
  <2>4. Reported("mark", "fatal")' => Reported("mark", "fatal")
    BY <2>1, <2>3, Views
  <2>5. Reported("mark", "ok")' => Reported("mark", "ok")
    BY <2>1, <2>3, Views
  <2>6. At({"announce"})' => At({"announce"})
    BY <2>1, <2>2, Views
  <2>7. At(Statements("clear"))' => At(Statements("clear"))
    <3>1. Statements("clear")' = Statements("clear")
      BY DEF Statements
    <3> QED BY <2>1, <2>2, <3>1, Views, StatementsOf
  <2> QED BY <2>1, <2>4, <2>5, <2>6, <2>7
          DEF StatusInv, ClearedIfArchived, PublishedBefore, UnprocessedOnlyAfterOverwrite
<1>7. ASSUME NEW s \in Slots, IndexFails(s) \/ Fault(s) PROVE StatusInv'
  <2>1. /\ Apart(s)
        /\ job'[s] = Idle \/ job'[s] = [pc |-> "done", result |-> "error"]
    BY <1>7, AttemptFails
  <2>2. UNCHANGED <<wf, status, processed, history>>
    BY <1>7 DEF IndexFails, Fault, indexVars
  <2>3. (\E r \in 1 .. MaxRuns : announced'[r] > 0) => history.published
    <3>1. CASE announced' = announced
      BY <1>0, <3>1
    <3>2. CASE announced' # announced
      <4>1. job[s].pc = "announce"
        BY <1>7, <3>2 DEF IndexFails, Fault
      <4> QED BY <4>1 DEF StatusInv, PublishedBefore, At
    <3> QED BY <3>1, <3>2
  <2>4. /\ job'[s].pc \in {"idle", "done"}
        /\ job'[s].pc = "done" => job'[s].result = "error"
    BY <2>1 DEF Idle
  <2> QED BY <2>1, <2>2, <2>3, <2>4, StatementsOf, StatusMoves
<1> QED BY <1>1, <1>2, <1>3, <1>4, <1>5, <1>6, <1>7, StatusRequests, StatusActivity, StepKinds

-----------------------------------------------------------------------------
(* How often a run is announced.                                            *)

Chance(r) == IF MayAnnounce(r) THEN 1 ELSE 0
Charge(r) == announced[r] + Cardinality(Announcing(r)) + Chance(r)

\* The attempts that are about to announce a run can be counted.
LEMMA AnnouncingFinite ==
    ASSUME NEW k
    PROVE  IsFiniteSet(Announcing(k)) /\ Cardinality(Announcing(k)) \in Nat
<1>1. Announcing(k) \subseteq Slots
  BY DEF Announcing
<1> QED BY <1>1, SlotsAssumption, FS_Subset, FS_CardinalityType

\* They change by the slot that makes a step.
LEMMA AnnouncingMoves ==
    ASSUME NEW s \in Slots, Apart(s), NEW k
    PROVE  LET before == job[s].pc = "announce" /\ job[s].run = k
               after  == job'[s].pc = "announce" /\ job'[s].run = k
               n == Cardinality(Announcing(k))
               m == Cardinality(Announcing(k)')
           IN  /\ n \in Nat /\ m \in Nat
               /\ (before <=> after) => m = n
               /\ before /\ ~after => m = n - 1
               /\ ~before /\ after => m = n + 1
<1> DEFINE A == Announcing(k)
<1> DEFINE B == {u \in Slots : job'[u].pc = "announce" /\ job'[u].run = k}
<1>1. Announcing(k)' = B
  BY DEF Announcing
<1>2. A \ {s} = B \ {s}
  BY DEF Announcing, Apart
<1>3. /\ s \in A <=> job[s].pc = "announce" /\ job[s].run = k
      /\ s \in B <=> job'[s].pc = "announce" /\ job'[s].run = k
  BY DEF Announcing
<1>4. IsFiniteSet(A) /\ Cardinality(A) \in Nat
  BY AnnouncingFinite
<1> HIDE DEF A, B
<1>5. CASE s \in A <=> s \in B
  <2>1. A = B
    BY <1>2, <1>5
  <2> QED BY <1>1, <1>3, <1>4, <2>1 DEF A
<1>6. CASE s \in A /\ s \notin B
  <2>1. B = A \ {s}
    BY <1>2, <1>6
  <2>2. Cardinality(B) = Cardinality(A) - 1
    BY <1>4, <1>6, <2>1, FS_RemoveElement
  <2>3. IsFiniteSet(B) /\ Cardinality(B) \in Nat
    BY <1>4, <2>1, FS_Subset, FS_CardinalityType
  <2> QED BY <1>1, <1>3, <1>4, <1>6, <2>2, <2>3 DEF A
<1>7. CASE s \notin A /\ s \in B
  <2>1. B = A \cup {s}
    BY <1>2, <1>7
  <2>2. Cardinality(B) = Cardinality(A) + 1
    BY <1>4, <1>7, <2>1, FS_AddElement
  <2> QED BY <1>1, <1>3, <1>4, <1>7, <2>2 DEF A
<1> QED BY <1>5, <1>6, <1>7

\* What may be announced: a number, and one more than announced at most.
LEMMA ChargeType ==
    ASSUME TypeOK, NEW k \in 1 .. MaxRuns
    PROVE  /\ announced[k] \in Nat /\ Cardinality(Announcing(k)) \in Nat
           /\ Chance(k) \in {0, 1} /\ Chance(k)' \in {0, 1}
           /\ (MayAnnounce(k)' => MayAnnounce(k)) => Chance(k)' <= Chance(k)
           /\ ~MayAnnounce(k)' => Chance(k)' = 0
           /\ MayAnnounce(k) => Chance(k) = 1
BY AnnouncingFinite DEF TypeOK, Chance

\* No step charges a run with more than it adds to the timeouts and faults.
LEMMA ChargedForFaults ==
    ASSUME TypeOK, TypeOK', AnnouncesCounted,
           \A k \in 1 .. MaxRuns :
               Charge(k)' <= Charge(k) + (used'.timeouts - used.timeouts)
                                       + (used'.faults - used.faults)
    PROVE  AnnouncesCounted'
<1>1. ASSUME NEW k \in 1 .. MaxRuns
      PROVE  Charge(k)' <= 1 + used'.timeouts + used'.faults
  <2>1. Charge(k) <= 1 + used.timeouts + used.faults
    BY DEF AnnouncesCounted, Charge, Chance
  <2>2. /\ used.timeouts \in Nat /\ used.faults \in Nat
        /\ used'.timeouts \in Nat /\ used'.faults \in Nat
    BY DEF TypeOK
  <2>3. Charge(k) \in Nat
    BY ChargeType DEF Charge
  <2>4. Charge(k)' \in Nat
    <3>1. announced'[k] \in Nat
      BY DEF TypeOK
    <3>2. Cardinality(Announcing(k)') \in Nat
      <4>1. Announcing(k)' \subseteq Slots
        BY DEF Announcing
      <4> QED BY <4>1, SlotsAssumption, FS_Subset, FS_CardinalityType
    <3>3. Chance(k)' \in {0, 1}
      BY ChargeType
    <3> QED BY <3>1, <3>2, <3>3 DEF Charge
  <2> QED BY <2>1, <2>2, <2>3, <2>4
<1> QED BY <1>1 DEF AnnouncesCounted, Charge, Chance

\* A run that may announce may have done so before, if nothing but a report that
\* is no error, or none, is new.
LEMMA ChanceStays ==
    ASSUME TypeOK, AttemptInPhase, NEW s \in Slots, Apart(s), wf' = wf, NEW k,
           wf.attempt = s /\ job'[s].pc = "done" /\ wf.phase = "announce" =>
               job'[s].result # "error"
    PROVE  MayAnnounce(k)' => MayAnnounce(k)
<1>1. Reported("announce", "error")' => Reported("announce", "error")
  BY Views
<1> QED BY <1>1 DEF MayAnnounce

\* A statement that neither announces nor fails charges nothing.
LEMMA NoCharge ==
    ASSUME TypeOK, AttemptInPhase, NEW s \in Slots, Apart(s), wf' = wf,
           announced' = announced,
           job[s].pc # "announce", job'[s].pc # "announce",
           wf.attempt = s /\ job'[s].pc = "done" /\ wf.phase = "announce" =>
               job'[s].result # "error",
           NEW k \in 1 .. MaxRuns
    PROVE  Charge(k)' <= Charge(k)
<1>1. Cardinality(Announcing(k)') = Cardinality(Announcing(k))
  BY AnnouncingMoves
<1>2. Chance(k)' <= Chance(k)
  BY ChanceStays, ChargeType
<1> QED BY <1>1, <1>2, ChargeType DEF Charge

\* Requests, and the start of a workflow, charge nothing.
LEMMA RequestsCharge ==
    ASSUME TypeOK, AttemptInPhase, Instructor \/ StartWorkflow \/ UNCHANGED vars,
           NEW k \in 1 .. MaxRuns
    PROVE  Charge(k)' <= Charge(k) + (used'.timeouts - used.timeouts)
                                   + (used'.faults - used.faults)
<1>1. UNCHANGED <<job, announced>>
  BY DEF Instructor, StartWorkflow, AskPublish, Archive, RequestReindex, AddLesson, Upload,
         indexVars, pubVars, vars
<1>2. used'.timeouts = used.timeouts /\ used'.faults = used.faults
  BY DEF Instructor, StartWorkflow, AskPublish, Archive, RequestReindex, AddLesson, Upload,
         indexVars, pubVars, vars, TypeOK
<1>3. Cardinality(Announcing(k)') = Cardinality(Announcing(k))
  BY <1>1 DEF Announcing
<1>4. MayAnnounce(k)' => MayAnnounce(k)
  <2>1. CASE wf' = wf
    BY <1>1, <2>1 DEF MayAnnounce, Reported
  <2>2. CASE wf' # wf
    <3>1. wf' = [phase |-> "validate", run |-> wf.run + 1, attempt |-> NoSlot]
      BY <2>2 DEF Instructor, StartWorkflow, AskPublish, Archive, RequestReindex, AddLesson, Upload,
         indexVars, pubVars, vars
    <3>2. MayAnnounce(k)' => k > wf.run
      <4>1. wf.run \in Nat /\ k \in Nat
        BY BoundsAssumption DEF TypeOK
      <4>2. wf'.run = wf.run + 1
        BY <3>1
      <4> QED BY <4>1, <4>2 DEF MayAnnounce
    <3> QED BY <3>2 DEF MayAnnounce
  <2> QED BY <2>1, <2>2
<1>5. Chance(k)' <= Chance(k)
  BY <1>4, ChargeType
<1>6. used.timeouts \in Nat /\ used.faults \in Nat
  BY DEF TypeOK
<1> QED BY <1>1, <1>2, <1>3, <1>5, <1>6, ChargeType DEF Charge

\* The start of an announcement takes the chance the run had.
LEMMA StartCharge ==
    ASSUME TypeOK, AttemptInPhase, NEW s \in Slots, StartAttempt(s), NEW k \in 1 .. MaxRuns
    PROVE  Charge(k)' <= Charge(k)
<1> DEFINE r == [pc |-> FirstStatement(wf.phase), by |-> Publish, run |-> wf.run]
<1>1. /\ r \in Attempts /\ r \in Jobs /\ Moves(s, r) /\ r.pc \in Statements(wf.phase)
      /\ job[s].pc = "idle"
  BY StartMoves, JobKinds
<1>2. Apart(s) /\ job'[s] = r
  BY <1>1, MovesApart
<1>3. job'[s].pc \in Statements(wf.phase) /\ job'[s].run = wf.run
  BY <1>1, <1>2
<1>4. /\ wf'.attempt = s /\ wf'.phase = wf.phase /\ wf'.run = wf.run
      /\ wf.attempt = NoSlot /\ announced' = announced
      /\ wf.phase \in {"validate", "process", "mark", "clear", "announce"}
  BY DEF StartAttempt, TypeOK, indexVars, Running
<1>5. ~Reported("announce", "error")' /\ wf'.attempt # NoSlot
  BY <1>3, <1>4, StatementsOf, SlotsAssumption DEF Reported
<1>6. CASE wf.phase = "announce" /\ wf.run = k
  <2>1. job'[s].pc = "announce"
    BY <1>3, <1>6, StatementsOf
  <2>2. Cardinality(Announcing(k)') = Cardinality(Announcing(k)) + 1
    BY <1>1, <1>2, <1>3, <1>6, <2>1, AnnouncingMoves
  <2>3. MayAnnounce(k)
    BY <1>4, <1>6 DEF MayAnnounce
  <2>4. ~MayAnnounce(k)'
    <3>1. ~(k > wf'.run)
      BY <1>4, <1>6
    <3> QED BY <1>4, <1>5, <1>6, <3>1 DEF MayAnnounce
  <2> QED BY <1>4, <2>2, <2>3, <2>4, ChargeType DEF Charge
<1>7. CASE ~(wf.phase = "announce" /\ wf.run = k)
  <2>1. ~(job'[s].pc = "announce" /\ job'[s].run = k)
    BY <1>3, <1>4, <1>7, StatementsOf
  <2>2. Cardinality(Announcing(k)') = Cardinality(Announcing(k))
    BY <1>1, <1>2, <2>1, AnnouncingMoves
  <2>3. MayAnnounce(k)' => MayAnnounce(k)
    BY <1>4, <1>5, <1>7 DEF MayAnnounce
  <2> QED BY <1>4, <2>2, <2>3, ChargeType DEF Charge
<1> QED BY <1>6, <1>7

\* A report gives no run a chance that it did not have.
LEMMA ReportCharge ==
    ASSUME TypeOK, AttemptInPhase, NEW s \in Slots, Report(s), NEW k \in 1 .. MaxRuns
    PROVE  Charge(k)' <= Charge(k)
<1>1. job[s] \in Results /\ Moves(s, Idle) /\ job[s].pc = "done" /\ announced' = announced
  BY ReportMoves DEF Report
<1>2. Apart(s) /\ job'[s].pc = "idle"
  BY <1>1, MovesApart, JobKinds DEF Idle
<1>3. CASE wf.attempt # s
  BY <1>1, <1>2, <1>3, ReportMoves, NoCharge
<1>4. CASE wf.attempt = s
  <2>1. Cardinality(Announcing(k)') = Cardinality(Announcing(k))
    BY <1>1, <1>2, AnnouncingMoves
  <2>2. /\ wf.phase \in {"validate", "process", "mark", "clear", "announce"}
        /\ wf'.attempt = NoSlot /\ wf'.run = wf.run
        /\ job[s].result = "ok"    => wf'.phase = AfterSuccess(wf.phase)
        /\ job[s].result = "fatal" => wf'.phase = AfterFailure(wf.phase)
        /\ job[s].result = "error" => wf'.phase = wf.phase
        /\ job[s].result \in {"ok", "error", "fatal"}
    BY <1>1, <1>4, ReportMoves DEF Results
  <2>3. job[s].result = "error" => Reported(wf.phase, "error")
    BY <1>1, <1>4, SlotsAssumption DEF Reported
  <2>4. ~Reported("announce", "error")'
    BY <2>2 DEF Reported
  <2>5. wf'.phase \in {"validate", "process", "mark"} => wf.phase \in {"validate", "process", "mark"}
    BY <2>2, NextPhase
  <2>6. wf'.phase = "announce" => wf.phase = "mark" \/ Reported("announce", "error")
    BY <2>2, <2>3, NextPhase
  <2>7. MayAnnounce(k)' => MayAnnounce(k)
    BY <2>2, <2>4, <2>5, <2>6 DEF MayAnnounce
  <2> QED BY <1>1, <2>1, <2>7, ChargeType DEF Charge
<1> QED BY <1>3, <1>4

\* An announcement was charged when it started.
LEMMA ActivityCharge ==
    ASSUME TypeOK, AttemptInPhase, NEW s \in Slots, ActivityStep(s), NEW k \in 1 .. MaxRuns
    PROVE  Charge(k)' <= Charge(k)
<1>1. job[s] \in Attempts /\ job[s].pc # "done" /\ Apart(s)
      /\ job'[s].pc \in {"done", "count", "publishing", "marked", "clearing", "cleared"}
  BY ActivityMoves, MovesApart DEF Attempts
<1>2. wf' = wf
  BY DEF ActivityStep, ValidateStatus, CountLessons, MarkRead, MarkWrite, MarkCommit,
         ClearRead, ClearWrite, ClearCommit, Announce, pubVars
<1>3. CASE Announce(s)
  <2>1. job[s].pc = "announce" /\ job[s].run \in 1 .. MaxRuns
        /\ announced' = [announced EXCEPT ![job[s].run] = @ + 1]
        /\ job'[s].pc = "done" /\ job'[s].result = "ok"
    BY <1>1, <1>3 DEF Announce, Attempts, Done, TypeOK
  <2>2. Chance(k)' <= Chance(k)
    BY <1>1, <1>2, <2>1, ChanceStays, ChargeType
  <2>3. CASE job[s].run = k
    <3>1. Cardinality(Announcing(k)') = Cardinality(Announcing(k)) - 1
      BY <1>1, <2>1, <2>3, AnnouncingMoves
    <3>2. announced'[k] = announced[k] + 1
      BY <2>1, <2>3 DEF TypeOK
    <3> QED BY <2>2, <3>1, <3>2, ChargeType DEF Charge
  <2>4. CASE job[s].run # k
    <3>1. Cardinality(Announcing(k)') = Cardinality(Announcing(k))
      BY <1>1, <2>1, <2>4, AnnouncingMoves
    <3>2. announced'[k] = announced[k]
      BY <2>1, <2>4 DEF TypeOK
    <3> QED BY <2>2, <3>1, <3>2, ChargeType DEF Charge
  <2> QED BY <2>3, <2>4
<1>4. CASE ~Announce(s)
  <2>1. announced' = announced /\ job[s].pc \in Statements("validate") \cup Statements("mark")
                                                  \cup Statements("clear")
    BY <1>4, StatementsOf DEF ActivityStep, ValidateStatus, CountLessons, MarkRead, MarkWrite,
       MarkCommit, ClearRead, ClearWrite, ClearCommit, pubVars
  <2>2. job[s].pc # "announce" /\ (wf.attempt = s => wf.phase # "announce")
    BY <2>1, PhaseOf, StatementsOf
  <2> QED BY <1>1, <1>2, <2>1, <2>2, NoCharge
<1> QED BY <1>3, <1>4

\* A fault costs a run at most one message or one attempt more.
LEMMA FaultCharge ==
    ASSUME TypeOK, AttemptInPhase, NEW s \in Slots, Fault(s), NEW k \in 1 .. MaxRuns
    PROVE  Charge(k)' <= Charge(k) + 1
<1>1. /\ Apart(s) /\ job'[s].pc \in {"idle", "done"}
      /\ wf.attempt = s => ~ByReindex(s)
  BY AttemptFails DEF Idle
<1>2. CASE job[s].pc = "announce"
  <2>1. job[s].run \in 1 .. MaxRuns
    BY <1>2, KindOf DEF Attempts, AttemptPcs
  <2>2. announced' = announced \/ announced' = [announced EXCEPT ![job[s].run] = @ + 1]
    BY DEF Fault
  <2>3. CASE job[s].run = k
    <3>1. Cardinality(Announcing(k)') = Cardinality(Announcing(k)) - 1
      BY <1>1, <1>2, <2>3, AnnouncingMoves
    <3>2. announced'[k] \in {announced[k], announced[k] + 1}
      BY <2>2, <2>3 DEF TypeOK
    <3> QED BY <3>1, <3>2, ChargeType DEF Charge
  <2>4. CASE job[s].run # k
    <3>1. Cardinality(Announcing(k)') = Cardinality(Announcing(k))
      BY <1>1, <1>2, <2>4, AnnouncingMoves
    <3>2. announced'[k] = announced[k]
      BY <2>1, <2>2, <2>4 DEF TypeOK
    <3> QED BY <3>1, <3>2, ChargeType DEF Charge
  <2> QED BY <2>3, <2>4
<1>3. CASE job[s].pc # "announce"
  <2>1. announced' = announced
    BY <1>3 DEF Fault
  <2>2. Cardinality(Announcing(k)') = Cardinality(Announcing(k))
    BY <1>1, <1>3, AnnouncingMoves
  <2> QED BY <2>1, <2>2, ChargeType DEF Charge
<1> QED BY <1>2, <1>3

\* Every step keeps the count.
LEMMA AnnouncesNext ==
    TypeOK /\ TypeOK' /\ AttemptInPhase /\ AnnouncesCounted /\ [Next]_vars => AnnouncesCounted'
<1> SUFFICES ASSUME TypeOK, TypeOK', AttemptInPhase, AnnouncesCounted, [Next]_vars
             PROVE AnnouncesCounted'
  OBVIOUS
<1> DEFINE Paid(k) == Charge(k)' <= Charge(k) + (used'.timeouts - used.timeouts)
                                              + (used'.faults - used.faults)
<1>0. /\ used.timeouts \in Nat /\ used.faults \in Nat
      /\ \A k \in 1 .. MaxRuns : Charge(k) \in Nat
      /\ \A k \in 1 .. MaxRuns : used'.timeouts = used.timeouts /\ used'.faults = used.faults =>
             (Charge(k)' <= Charge(k) => Paid(k))
  <2>1. used.timeouts \in Nat /\ used.faults \in Nat
    BY DEF TypeOK
  <2>2. ASSUME NEW k \in 1 .. MaxRuns PROVE Charge(k) \in Nat
    BY ChargeType DEF Charge
  <2>3. ASSUME NEW k \in 1 .. MaxRuns, Charge(k)' <= Charge(k),
               used'.timeouts = used.timeouts, used'.faults = used.faults
        PROVE  Paid(k)
    <3>1. Charge(k) + 0 + 0 = Charge(k)
      BY <2>2
    <3> QED BY <2>1, <2>3, <3>1
  <2> QED BY <2>1, <2>2, <2>3
<1> SUFFICES ASSUME NEW k \in 1 .. MaxRuns PROVE Paid(k)
  BY ChargedForFaults
<1>1. CASE Instructor \/ StartWorkflow \/ UNCHANGED vars
  BY <1>1, RequestsCharge
<1>2. ASSUME NEW s \in Slots, StartAttempt(s) PROVE Paid(k)
  BY <1>0, <1>2, StartCharge DEF StartAttempt
<1>3. ASSUME NEW s \in Slots, TakeReindex(s) PROVE Paid(k)
  <2>1. PICK n \in 0 .. MaxRetries :
          job' = [job EXCEPT ![s] = [pc |-> "read", by |-> [task |-> "reindex", retries |-> n]]]
    BY <1>3 DEF TakeReindex
  <2> DEFINE r == [pc |-> "read", by |-> [task |-> "reindex", retries |-> n]]
  <2>2. r \in Jobs /\ Moves(s, r)
    BY <2>1, JobKinds DEF Reindexes, Moves
  <2>3. Apart(s) /\ job'[s].pc = "read"
    BY <2>2, MovesApart
  <2>4. job[s].pc = "idle" /\ UNCHANGED <<wf, announced, used>>
    BY <1>3 DEF TakeReindex, Free
  <2>5. Charge(k)' <= Charge(k)
    BY <2>3, <2>4, NoCharge
  <2> QED BY <1>0, <2>4, <2>5
<1>4. ASSUME NEW s \in Slots, Timeout(s) PROVE Paid(k)
  <2>1. UNCHANGED <<job, announced>> /\ used'.timeouts = used.timeouts + 1
        /\ used'.faults = used.faults
    BY <1>4 DEF Timeout, TypeOK
  <2>2. Cardinality(Announcing(k)') = Cardinality(Announcing(k))
    BY <2>1 DEF Announcing
  <2>3. Charge(k)' <= Charge(k) + 1
    BY <2>1, <2>2, ChargeType DEF Charge
  <2> QED BY <1>0, <2>1, <2>3
<1>5. ASSUME NEW s \in Slots, Report(s) PROVE Paid(k)
  BY <1>0, <1>5, ReportCharge DEF Report
<1>6. ASSUME NEW s \in Slots, ActivityStep(s) PROVE Paid(k)
  <2>1. used' = used
    BY <1>6 DEF ActivityStep, ValidateStatus, CountLessons, MarkRead, MarkWrite, MarkCommit,
                ClearRead, ClearWrite, ClearCommit, Announce, pubVars
  <2> QED BY <1>0, <1>6, <2>1, ActivityCharge
<1>7. ASSUME NEW s \in Slots, IndexStatement(s), UNCHANGED pubVars PROVE Paid(k)
  <2>1. PICK r \in Jobs : /\ Moves(s, r) /\ job[s].pc \in Statements("process")
                          /\ r.pc \in Statements("process")
    BY <1>7, IndexMoves
  <2>2. Apart(s) /\ job[s].pc \in Statements("process") /\ job'[s].pc \in Statements("process")
    BY <2>1, MovesApart
  <2>3. UNCHANGED <<wf, announced, used>>
    BY <1>7 DEF pubVars
  <2>4. Charge(k)' <= Charge(k)
    BY <2>2, <2>3, NoCharge, StatementsOf
  <2> QED BY <1>0, <2>3, <2>4
<1>8. ASSUME NEW s \in Slots, EndIndex(s) PROVE Paid(k)
  <2>1. /\ Apart(s) /\ job[s].pc = "indexed"
        /\ job'[s] = IF ByReindex(s) THEN Idle ELSE [pc |-> "done", result |-> "ok"]
        /\ UNCHANGED <<wf, announced, used>>
    BY <1>8, CommitApart, CommitMoves DEF EndIndex, pubVars
  <2>2. /\ job'[s].pc \in {"idle", "done"} /\ (job'[s].pc = "done" => job'[s].result = "ok")
    BY <2>1 DEF Idle
  <2>3. Charge(k)' <= Charge(k)
    BY <2>1, <2>2, NoCharge
  <2> QED BY <1>0, <2>1, <2>3
<1>9. ASSUME NEW s \in Slots, IndexFails(s) PROVE Paid(k)
  <2>1. /\ Apart(s) /\ job'[s].pc \in {"idle", "done"} /\ job[s].pc \in {"extract", "insert"}
        /\ UNCHANGED <<wf, announced, used>>
    BY <1>9, AttemptFails DEF IndexFails, ExtractFails, InsertFails, Deadlocked, Idle
  <2>2. wf.attempt = s => wf.phase = "process"
    BY <2>1, PhaseOf, StatementsOf
  <2>3. Charge(k)' <= Charge(k)
    BY <2>1, <2>2, NoCharge
  <2> QED BY <1>0, <2>1, <2>3
<1>10. ASSUME NEW s \in Slots, Fault(s) PROVE Paid(k)
  <2>1. used'.timeouts = used.timeouts /\ used'.faults = used.faults + 1
    BY <1>10 DEF Fault, TypeOK
  <2>2. Charge(k)' <= Charge(k) + 1
    BY <1>10, FaultCharge
  <2> QED BY <1>0, <2>1, <2>2
<1> HIDE DEF Paid
<1> QED BY <1>1, <1>2, <1>3, <1>4, <1>5, <1>6, <1>7, <1>8, <1>9, <1>10, StepKinds

-----------------------------------------------------------------------------
(* The theorems.                                                            *)

WorkflowInv == TypeOK /\ AttemptInPhase /\ StatusInv /\ AnnouncesCounted

\* The initial states satisfy the invariants.
LEMMA WorkflowInit == Init => WorkflowInv /\ RowInv
<1> SUFFICES ASSUME Init PROVE WorkflowInv /\ RowInv
  OBVIOUS
<1>1. TypeOK
  BY TypeInit
<1>2. /\ \A s \in Slots : job[s] = Idle /\ job[s].pc = "idle"
      /\ wf = [phase |-> "none", run |-> 0, attempt |-> NoSlot]
      /\ chunks = {} /\ status = "draft" /\ asked = 0
      /\ \A r \in 1 .. MaxRuns : announced[r] = 0
      /\ used = [timeouts |-> 0, faults |-> 0, reindexes |-> 0]
  BY DEF Init, IndexInit, Idle
<1>3. AttemptInPhase
  BY <1>2, BoundsAssumption DEF AttemptInPhase, Running
<1>4. \A S : At(S) => "idle" \in S
  BY <1>2 DEF At
<1>5. \A p, x : ~Reported(p, x)
  BY <1>2 DEF Reported
<1>6. StatusInv
  BY <1>2, <1>4, <1>5, StatementsOf
     DEF StatusInv, ClearedIfArchived, PublishedBefore, UnprocessedOnlyAfterOverwrite
<1>7. AnnouncesCounted
  <2>1. ASSUME NEW r \in 1 .. MaxRuns
        PROVE  announced[r] + Cardinality(Announcing(r)) + Chance(r)
                  <= 1 + used.timeouts + used.faults
    <3>1. Announcing(r) = {}
      BY <1>2 DEF Announcing
    <3>2. Cardinality(Announcing(r)) = 0
      BY <3>1, FS_EmptySet
    <3> QED BY <1>2, <3>2 DEF Chance
  <2> QED BY <2>1 DEF AnnouncesCounted, Chance
<1>8. RowInv
  <2>1. RowsWhole
    BY <1>2 DEF RowsWhole, RowsFor
  <2>2. DeletesWhole /\ DeletesDisjoint /\ KeysFree
    BY <1>2 DEF DeletesWhole, DeletesDisjoint, KeysFree, Deleted, HoldsCourse
  <2> QED BY <2>1, <2>2 DEF RowInv
<1> QED BY <1>1, <1>3, <1>6, <1>7, <1>8 DEF WorkflowInv

\* Attempts, phases, the status and the announcements fit together in every
\* reachable state, whatever times out, fails or runs late.
THEOREM WorkflowInvariance == Spec => []WorkflowInv
<1>1. WorkflowInv /\ [Next]_vars => WorkflowInv'
  BY TypeNext, AttemptNext, StatusNext, AnnouncesNext DEF WorkflowInv
<1> QED BY WorkflowInit, <1>1, PTL DEF Spec

\* Only a course that was published is announced, once but for faults and timeouts.
THEOREM AnnouncedWasPublished == Spec => []AnnouncedIsPublished
<1>1. WorkflowInv => AnnouncedIsPublished
  <2> SUFFICES ASSUME WorkflowInv, NEW r \in 1 .. MaxRuns
               PROVE  /\ announced[r] > 0 => history.published
                      /\ announced[r] <= 1 + used.timeouts + used.faults
    BY DEF AnnouncedIsPublished
  <2>1. announced[r] > 0 => history.published
    BY DEF WorkflowInv, StatusInv, PublishedBefore
  <2>2. /\ announced[r] \in Nat /\ Cardinality(Announcing(r)) \in Nat
        /\ used.timeouts \in Nat /\ used.faults \in Nat
    BY AnnouncingFinite DEF WorkflowInv, TypeOK
  <2>3. announced[r] + Cardinality(Announcing(r)) + Chance(r) <= 1 + used.timeouts + used.faults
    BY DEF WorkflowInv, AnnouncesCounted, Chance
  <2>4. Chance(r) \in {0, 1}
    BY DEF Chance
  <2> QED BY <2>1, <2>2, <2>3, <2>4
<1> QED BY <1>1, WorkflowInvariance, PTL

\* A published course is indexed, unless an attempt that had timed out wrote over
\* the archived status.
THEOREM IndexedUnlessOverwritten == Spec => []UnprocessedOnlyAfterOverwrite
<1>1. WorkflowInv => UnprocessedOnlyAfterOverwrite
  BY DEF WorkflowInv, StatusInv
<1> QED BY <1>1, WorkflowInvariance, PTL

\* The inductive invariant, of every text that chunk_text splits as it should.
THEOREM PublishInvariance ==
    ASSUME \A t \in Texts : WellChunked(t)
    PROVE  Spec => []PubInv
<1>1. WorkflowInv /\ RowInv /\ [Next]_vars => RowInv'
  BY RowsNext DEF WorkflowInv
<1>2. Init => RowInv
  BY WorkflowInit
<1>3. WorkflowInv /\ RowInv => PubInv
  BY DEF WorkflowInv, RowInv, StatusInv, PubInv
<1> QED BY <1>1, <1>2, <1>3, WorkflowInvariance, PTL DEF Spec

\* The rows of a text have its chunks, one by one.
LEMMA RowsAreChunks ==
    ASSUME NEW l \in Lessons, NEW t \in Texts, WellChunked(t)
    PROVE  LET rows == RowsOf(l, t) IN
           /\ \A r \in rows : r.text = t /\ r.last - r.first < MaxTokens + OverlapTokens
           /\ {r.index : r \in rows} = 0 .. (Cardinality(rows) - 1)
           /\ \A q, r \in rows : q.index < r.index =>
                 /\ q.first <= r.first /\ q.last <= r.last
                 /\ <<q.first, q.last>> # <<r.first, r.last>>
           /\ UNION {r.first .. r.last : r \in rows} = 1 .. TokenCount(t)
<1> DEFINE c == ChunkText(t)
<1> DEFINE n == Len(c)
<1> DEFINE row(i) == [lesson |-> l, index |-> i - 1, text |-> t,
                      first |-> c[i][1], last |-> c[i][2]]
<1>1. /\ c \in Seq(Nat \X Nat) /\ n \in Nat /\ DOMAIN c = 1 .. n
      /\ \A i \in 1 .. n : c[i] \in Nat \X Nat
  BY DEF WellChunked
<1>2. /\ \A i \in 1 .. n : c[i][2] - c[i][1] < MaxTokens + OverlapTokens
      /\ \A i, j \in 1 .. n : i < j => /\ c[i][1] <= c[j][1] /\ c[i][2] <= c[j][2]
                                      /\ c[i] # c[j]
      /\ UNION {c[i][1] .. c[i][2] : i \in 1 .. n} = 1 .. TokenCount(t)
  BY DEF WellChunked
<1>3. RowsOf(l, t) = {row(i) : i \in 1 .. n}
  <2>1. Chunks[t] = c
    BY DEF Chunks
  <2> HIDE DEF c
  <2> QED BY <1>1, <2>1 DEF RowsOf
<1> HIDE DEF c
<1>4. \A i \in 1 .. n : /\ row(i).index = i - 1 /\ row(i).text = t
                       /\ row(i).first = c[i][1] /\ row(i).last = c[i][2]
  OBVIOUS
<1>5. Cardinality(RowsOf(l, t)) = n
  <2> DEFINE f == [i \in 1 .. n |-> row(i)]
  <2>1. f \in [1 .. n -> RowsOf(l, t)]
    BY <1>3
  <2>2. \A i, j \in 1 .. n : f[i] = f[j] => i = j
    <3> TAKE i \in 1 .. n, j \in 1 .. n
    <3>1. f[i].index = i - 1 /\ f[j].index = j - 1
      OBVIOUS
    <3> QED BY <1>1, <3>1
  <2>3. \A r \in RowsOf(l, t) : \E i \in 1 .. n : f[i] = r
    BY <1>3
  <2> HIDE DEF f
  <2>4. f \in Bijection(1 .. n, RowsOf(l, t))
    BY <2>1, <2>2, <2>3, Fun_IsBij
  <2>5. ExistsBijection(1 .. n, RowsOf(l, t))
    BY <2>4 DEF ExistsBijection
  <2> QED BY <1>1, <2>5, FS_CountingElements
<1>6. \A r \in RowsOf(l, t) : \E i \in 1 .. n :
         /\ r.index = i - 1 /\ r.text = t /\ r.first = c[i][1] /\ r.last = c[i][2]
  BY <1>3, <1>4
<1>7. \A i \in 1 .. n : \E r \in RowsOf(l, t) :
         /\ r.index = i - 1 /\ r.first = c[i][1] /\ r.last = c[i][2]
  BY <1>3, <1>4
<1> HIDE DEF row, n
<1>8. \A r \in RowsOf(l, t) : r.text = t /\ r.last - r.first < MaxTokens + OverlapTokens
  BY <1>2, <1>6
<1>9. {r.index : r \in RowsOf(l, t)} = 0 .. (n - 1)
  <2>1. ASSUME NEW r \in RowsOf(l, t) PROVE r.index \in 0 .. (n - 1)
    BY <1>1, <1>6
  <2>2. ASSUME NEW m \in 0 .. (n - 1) PROVE \E r \in RowsOf(l, t) : r.index = m
    <3>1. m + 1 \in 1 .. n /\ (m + 1) - 1 = m
      BY <1>1
    <3> QED BY <1>7, <3>1
  <2> QED BY <2>1, <2>2
<1>10. ASSUME NEW q \in RowsOf(l, t), NEW r \in RowsOf(l, t), q.index < r.index
       PROVE  /\ q.first <= r.first /\ q.last <= r.last
              /\ <<q.first, q.last>> # <<r.first, r.last>>
  <2>1. PICK i \in 1 .. n : q.index = i - 1 /\ q.first = c[i][1] /\ q.last = c[i][2]
    BY <1>6
  <2>2. PICK j \in 1 .. n : r.index = j - 1 /\ r.first = c[j][1] /\ r.last = c[j][2]
    BY <1>6
  <2>3. i < j
    BY <1>1, <1>10, <2>1, <2>2
  <2>4. c[i] = <<c[i][1], c[i][2]>> /\ c[j] = <<c[j][1], c[j][2]>>
    BY <1>1
  <2> QED BY <1>2, <2>1, <2>2, <2>3, <2>4
<1>11. UNION {r.first .. r.last : r \in RowsOf(l, t)} = UNION {c[i][1] .. c[i][2] : i \in 1 .. n}
  <2>1. \A r \in RowsOf(l, t) : \E i \in 1 .. n : r.first .. r.last = c[i][1] .. c[i][2]
    BY <1>6
  <2>2. \A i \in 1 .. n : \E r \in RowsOf(l, t) : r.first .. r.last = c[i][1] .. c[i][2]
    BY <1>7
  <2> QED BY <2>1, <2>2
<1> QED BY <1>2, <1>5, <1>8, <1>9, <1>10, <1>11

\* The chunks of a lesson are those of one text, whole and in order, whichever
\* publish attempts and re-index tasks deleted and inserted at the same time.
THEOREM IndexedWhole ==
    ASSUME \A t \in Texts : WellChunked(t)
    PROVE  Spec => []LessonsIndexedWhole
<1>1. PubInv => LessonsIndexedWhole
  <2> SUFFICES ASSUME PubInv, NEW l \in Lessons, RowsFor(chunks, l) # {}
               PROVE  LET rows == RowsFor(chunks, l) IN \E t \in Texts :
                      /\ \A r \in rows : r.text = t /\ r.last - r.first < MaxTokens + OverlapTokens
                      /\ {r.index : r \in rows} = 0 .. (Cardinality(rows) - 1)
                      /\ \A q, r \in rows : q.index < r.index =>
                            /\ q.first <= r.first /\ q.last <= r.last
                            /\ <<q.first, q.last>> # <<r.first, r.last>>
                      /\ UNION {r.first .. r.last : r \in rows} = 1 .. TokenCount(t)
    BY DEF LessonsIndexedWhole, RowsFor
  <2>1. PICK t \in Texts : RowsFor(chunks, l) = RowsOf(l, t)
    BY DEF PubInv, RowsWhole
  <2> QED BY <2>1, RowsAreChunks
<1> QED BY <1>1, PublishInvariance, PTL
=============================================================================
