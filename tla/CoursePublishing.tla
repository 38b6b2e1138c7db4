-------------------------- MODULE CoursePublishing --------------------------
(***************************************************************************)
(* Publishing a course: the request (publish_service.py), the Temporal       *)
(* workflow (course_publishing.py) and its activities (course_publish.py),   *)
(* with the Celery re-index task and the requests that run beside them.      *)
(*                                                                         *)
(* Temporal retries an activity that raises until it succeeds, unless the    *)
(* error is marked non-retryable.  An attempt that outlives its              *)
(* start_to_close_timeout is retried as well, but nothing stops it: it goes  *)
(* on beside the new attempt and may commit late.                            *)
(***************************************************************************)
EXTENDS ContentIndex

CONSTANTS
    NoSlot,
    MaxRuns,        \* bound: workflows started
    MaxTimeouts,    \* bound: attempts that outlive their timeout
    MaxFaults,      \* bound: transactions, sends and workers that fail
    MaxReindexes,   \* bound: re-index requests
    MaxRetries      \* max_retries of the re-index task, 2 in the code

ASSUME BoundsAssumption ==
    {MaxRuns, MaxTimeouts, MaxFaults, MaxReindexes, MaxRetries} \subseteq Nat

ASSUME SlotsAssumption == IsFiniteSet(Slots) /\ NoSlot \notin Slots

VARIABLES
    status,         \* courses.status
    asked,          \* publish requests that have found the course a draft
    wf,             \* the workflow: its phase, its run, the attempt it waits for
    announced,      \* course.published messages in the topic, by run
    queued,         \* re-index tasks in the queue, by the retries they have had
    used,           \* how much of the bounds is used up
    history         \* what happened to the status so far

pubVars == <<status, asked, wf, announced, queued, used, history>>
vars    == <<indexVars, job, pubVars>>

Running == wf.phase \in {"validate", "process", "mark", "clear", "announce"}

Init ==
    /\ IndexInit
    /\ status = "draft"
    /\ asked = 0
    /\ wf = [phase |-> "none", run |-> 0, attempt |-> NoSlot]
    /\ announced = [r \in 1 .. MaxRuns |-> 0]
    /\ queued = [n \in 0 .. MaxRetries |-> 0]
    /\ used = [timeouts |-> 0, faults |-> 0, reindexes |-> 0]
    /\ history = [published |-> FALSE, overwritten |-> FALSE]

Publish == [task |-> "publish", retries |-> 0]

\* Slots are only names: a job takes the one CHOOSE gives.
Free(s) == job[s].pc = "idle" /\ s = CHOOSE u \in Slots : job[u].pc = "idle"

-----------------------------------------------------------------------------
(* Requests.                                                                 *)

\* POST publish: the course is read as a draft ...
AskPublish ==
    /\ status = "draft"
    /\ wf.run + asked < MaxRuns
    /\ asked' = asked + 1
    /\ UNCHANGED <<indexVars, job, status, wf, announced, queued, used, history>>

\* ... and the workflow starts, unless one with its id is running (409).
StartWorkflow ==
    /\ asked > 0
    /\ asked' = asked - 1
    /\ IF Running THEN wf' = wf
       ELSE wf' = [phase |-> "validate", run |-> wf.run + 1, attempt |-> NoSlot]
    /\ UNCHANGED <<indexVars, job, status, announced, queued, used, history>>

\* PATCH status = archived, or DELETE.
Archive ==
    /\ status # "archived"
    /\ \A s \in Slots : ~HoldsCourse(s)
    /\ status' = "archived"
    /\ UNCHANGED <<indexVars, job, asked, wf, announced, queued, used, history>>

\* POST reindex, for a published course.
RequestReindex ==
    /\ status = "published"
    /\ used.reindexes < MaxReindexes
    /\ used' = [used EXCEPT !.reindexes = @ + 1]
    /\ queued' = [queued EXCEPT ![0] = @ + 1]
    /\ UNCHANGED <<indexVars, job, status, asked, wf, announced, history>>

Instructor ==
    \/ AskPublish \/ Archive \/ RequestReindex
    \/ \E l \in Lessons : (AddLesson(l) \/ Upload(l)) /\ UNCHANGED pubVars

-----------------------------------------------------------------------------
(* The workflow: what follows an activity that succeeds, and one that fails  *)
(* for good.                                                                 *)

\* Faulty variant: the course is announced before it is marked.
AnnouncesFirst(phase) ==
    CASE phase = "validate" -> "process"
      [] phase = "process"  -> "announce"
      [] phase = "announce" -> "mark"
      [] phase = "mark"     -> "completed"
      [] phase = "clear"    -> "failed"

AfterSuccess(phase) ==
    CASE phase = "validate" -> "process"
      [] phase = "process"  -> "mark"
      [] phase = "mark"     -> "announce"
      [] phase = "announce" -> "completed"
      [] phase = "clear"    -> "failed"

AfterFailure(phase) == IF phase = "mark" THEN "clear" ELSE "failed"

FirstStatement(phase) == IF phase = "process" THEN "read" ELSE phase

\* An attempt of the activity the workflow has reached starts.
StartAttempt(s) ==
    /\ Running /\ wf.attempt = NoSlot
    /\ Free(s)
    /\ wf' = [wf EXCEPT !.attempt = s]
    /\ job' = [job EXCEPT ![s] = [pc |-> FirstStatement(wf.phase), by |-> Publish,
                                  run |-> wf.run]]
    /\ UNCHANGED <<indexVars, status, asked, announced, queued, used, history>>

\* The worker reports: the workflow goes on, ends or tries again; the report of
\* an attempt it has given up is ignored.
Report(s) ==
    /\ job[s].pc = "done"
    /\ job' = [job EXCEPT ![s] = Idle]
    /\ IF wf.attempt # s THEN wf' = wf
       ELSE wf' = [wf EXCEPT !.attempt = NoSlot,
                             !.phase = CASE job[s].result = "ok"    -> AfterSuccess(@)
                                         [] job[s].result = "fatal" -> AfterFailure(@)
                                         [] job[s].result = "error" -> @]
    /\ UNCHANGED <<indexVars, status, asked, announced, queued, used, history>>

\* The workflow gives up an attempt; the attempt goes on.
Timeout(s) ==
    /\ wf.attempt = s
    /\ used.timeouts < MaxTimeouts
    /\ used' = [used EXCEPT !.timeouts = @ + 1]
    /\ wf' = [wf EXCEPT !.attempt = NoSlot]
    /\ UNCHANGED <<indexVars, job, status, asked, announced, queued, history>>

-----------------------------------------------------------------------------
(* The activities, statement by statement.                                   *)

Done(s, result) == job' = [job EXCEPT ![s] = [pc |-> "done", result |-> result]]
Goto(s, pc)     == job' = [job EXCEPT ![s].pc = pc]

\* validate_course_activity: the status, then the number of lessons.
ValidateStatus(s) ==
    /\ job[s].pc = "validate"
    /\ IF status = "draft" THEN Goto(s, "count") ELSE Done(s, "fatal")
    /\ UNCHANGED <<indexVars, pubVars>>

\* Faulty variant: the error is not marked non-retryable.
RetriesEmptyCourse(s) ==
    /\ job[s].pc = "count"
    /\ Done(s, IF lessons = {} THEN "error" ELSE "ok")
    /\ UNCHANGED <<indexVars, pubVars>>

CountLessons(s) ==
    /\ job[s].pc = "count"
    /\ Done(s, IF lessons = {} THEN "fatal" ELSE "ok")
    /\ UNCHANGED <<indexVars, pubVars>>

\* mark_published_activity: SELECT, ...
MarkRead(s) ==
    /\ job[s].pc = "mark"
    /\ CASE status = "published" -> Done(s, "ok")
         [] status = "archived"  -> Done(s, "fatal")
         [] status = "draft"     -> Goto(s, "publishing")
    /\ UNCHANGED <<indexVars, pubVars>>

\* ... UPDATE of the row that was read, whatever it holds by now, ...
MarkWrite(s) ==
    /\ job[s].pc = "publishing"
    /\ CanUpdateCourse(s)
    /\ Goto(s, "marked")
    /\ UNCHANGED <<indexVars, pubVars>>

\* ... and COMMIT.
MarkCommit(s) ==
    /\ job[s].pc = "marked"
    /\ status' = "published"
    /\ history' = [published |-> TRUE,
                   overwritten |-> history.overwritten \/ status = "archived"]
    /\ Done(s, "ok")
    /\ UNCHANGED <<indexVars, asked, wf, announced, queued, used>>

\* delete_processed_data_activity: the assignment writes a column only if it
\* changes what was read.
ClearRead(s) ==
    /\ job[s].pc = "clear"
    /\ IF processed THEN Goto(s, "clearing") ELSE Done(s, "ok")
    /\ UNCHANGED <<indexVars, pubVars>>

ClearWrite(s) ==
    /\ job[s].pc = "clearing"
    /\ CanUpdateCourse(s)
    /\ Goto(s, "cleared")
    /\ UNCHANGED <<indexVars, pubVars>>

ClearCommit(s) ==
    /\ job[s].pc = "cleared"
    /\ processed' = FALSE
    /\ Done(s, "ok")
    /\ UNCHANGED <<lessons, uploaded, cachedText, chunks, pubVars>>

\* emit_course_published_activity: one message, under a key of the run.
Announce(s) ==
    /\ job[s].pc = "announce"
    /\ announced' = [announced EXCEPT ![job[s].run] = @ + 1]
    /\ Done(s, "ok")
    /\ UNCHANGED <<indexVars, status, asked, wf, queued, used, history>>

-----------------------------------------------------------------------------
(* Indexing, in an activity or in a re-index task.                           *)

ByReindex(s) == job[s].by.task = "reindex"

TakeReindex(s) ==
    /\ Free(s)
    /\ \E n \in 0 .. MaxRetries :
          /\ queued[n] > 0
          /\ queued' = [queued EXCEPT ![n] = @ - 1]
          /\ job' = [job EXCEPT ![s] = [pc |-> "read",
                                        by |-> [task |-> "reindex", retries |-> n]]]
    /\ UNCHANGED <<indexVars, status, asked, wf, announced, used, history>>

EndIndex(s) ==
    /\ job[s].pc = "indexed"
    /\ CommitIndex(s)
    /\ SkipDeleted(s, IF ByReindex(s) THEN Idle ELSE [pc |-> "done", result |-> "ok"])
    /\ UNCHANGED pubVars

\* The transaction is rolled back.  An activity reports the error; a task is
\* published again with one retry more, max_retries times.
Fail(s) ==
    IF ByReindex(s)
    THEN /\ job' = [job EXCEPT ![s] = Idle]
         /\ LET n == job[s].by.retries IN
            queued' = IF n < MaxRetries THEN [queued EXCEPT ![n + 1] = @ + 1]
                      ELSE queued
    ELSE Done(s, "error") /\ UNCHANGED queued

IndexFails(s) ==
    /\ \/ ExtractFails(s) \/ InsertFails(s)
       \/ \E u \in Slots \ {s} : Deadlocked(s, u) \/ Deadlocked(u, s)
    /\ Fail(s)
    /\ UNCHANGED <<indexVars, status, asked, wf, announced, used, history>>

\* The database, the network or the worker fails, up to the COMMIT.  A message
\* may have reached the broker; a task whose worker is lost is delivered again.
Fault(s) ==
    /\ job[s].pc \notin {"idle", "done"}
    /\ used.faults < MaxFaults
    /\ used' = [used EXCEPT !.faults = @ + 1]
    /\ \/ Fail(s) /\ UNCHANGED announced
       \/ /\ ByReindex(s)
          /\ job' = [job EXCEPT ![s] = Idle]
          /\ queued' = [queued EXCEPT ![job[s].by.retries] = @ + 1]
          /\ UNCHANGED announced
       \/ /\ job[s].pc = "announce"
          /\ announced' = [announced EXCEPT ![job[s].run] = @ + 1]
          /\ Fail(s)
    /\ UNCHANGED <<indexVars, status, asked, wf, history>>

Step(s) ==
    \/ ValidateStatus(s) \/ CountLessons(s)
    \/ MarkRead(s) \/ MarkWrite(s) \/ MarkCommit(s)
    \/ ClearRead(s) \/ ClearWrite(s) \/ ClearCommit(s)
    \/ Announce(s) \/ Report(s)
    \/ IndexStatement(s) /\ UNCHANGED pubVars
    \/ EndIndex(s) \/ IndexFails(s)

Next ==
    \/ Instructor \/ StartWorkflow
    \/ \E s \in Slots : \/ StartAttempt(s) \/ TakeReindex(s)
                        \/ Step(s) \/ Timeout(s) \/ Fault(s)

\* The server schedules attempts and the workers run what they have started;
\* requests, re-index tasks, timeouts and faults may never come.  A statement
\* that waits for a row is woken when the transaction it waits for ends, before
\* the next attempt, a retry interval later, can take the row again: SF.
Spec ==
    /\ Init /\ [][Next]_vars
    /\ WF_vars(\E s \in Slots : StartAttempt(s))
    /\ \A s \in Slots : SF_vars(Step(s))

-----------------------------------------------------------------------------
\* A published course has been indexed, unless the compensation of its workflow
\* cleared processed_at and an attempt that had timed out then wrote "published"
\* over the "archived" that made the workflow fail (course_publish.py:131-138).
UnprocessedOnlyAfterOverwrite ==
    status = "published" /\ ~processed => history.overwritten

\* Only a course that was published is announced, and a run announces it once
\* but for sends that failed or outlived their timeout (course_publish.py:148).
AnnouncedIsPublished ==
    \A r \in 1 .. MaxRuns :
        /\ announced[r] > 0 => history.published
        /\ announced[r] <= 1 + used.timeouts + used.faults

\* What indexing asks of a lesson, and nobody looks at before it is published.
Indexable(l) ==
    /\ Kind[l] = "upload" => l \in uploaded
    /\ Source[l] \cap (Unencodable \cup Unstorable) = {}

\* A publish workflow ends, once every lesson of the course can be indexed: its
\* upload is in the store and its text can be encoded and stored; until it does,
\* POST publish answers 409 (publish_service.py:54).
PublishEnds ==
    <>[](\A l \in lessons : Indexable(l)) => (Running ~> ~Running)

\* "All extraction is best-effort ... We log the reason and return None; the
\* activity then skips that lesson" (extraction_service.py:12-14): whatever the
\* lessons, a publish workflow ends.
EveryPublishEnds == Running ~> ~Running

-----------------------------------------------------------------------------
(* The inductive invariant of CoursePublishingProofs.                        *)

Phases == {"none", "validate", "process", "mark", "clear", "announce",
           "completed", "failed"}

Results == [pc : {"done"}, result : {"ok", "error", "fatal"}]

Attempts == [pc : {"validate", "count", "read", "mark", "publishing", "marked",
                   "clear", "clearing", "cleared", "announce"},
             by : {Publish}, run : 1 .. MaxRuns]

Reindexes == [task : {"reindex"}, retries : 0 .. MaxRetries]

\* The texts of the lessons a transaction has read.
PartialTexts == UNION {[read -> Texts \cup {NoText}] : read \in SUBSET Lessons}

Indexings ==
    LET By == {Publish} \cup Reindexes IN
    [pc : {"delete"}, by : By, cached : PartialTexts]
    \cup [pc : {"deleting"}, by : By, cached : PartialTexts, deleted : SUBSET Rows]
    \cup {x \in [pc : {"extract"}, by : By, cached : PartialTexts, deleted : SUBSET Rows,
                todo : SUBSET Lessons, texts : PartialTexts] :
             x.todo \subseteq DOMAIN x.cached}
    \cup [pc : {"insert", "indexed"}, by : By, cached : PartialTexts,
          deleted : SUBSET Rows, texts : PartialTexts]

Jobs == {Idle} \cup Results \cup Attempts \cup [pc : {"read"}, by : Reindexes]
               \cup Indexings

TypeOK ==
    /\ lessons \subseteq Lessons /\ uploaded \subseteq Lessons
    /\ cachedText \in [Lessons -> Texts \cup {NoText}]
    /\ chunks \subseteq Rows /\ processed \in BOOLEAN
    /\ job \in [Slots -> Jobs]
    /\ status \in {"draft", "published", "archived"}
    /\ asked \in Nat
    /\ wf \in [phase : Phases, run : 0 .. MaxRuns, attempt : Slots \cup {NoSlot}]
    /\ announced \in [1 .. MaxRuns -> Nat]
    /\ queued \in [0 .. MaxRetries -> Nat]
    /\ used \in [timeouts : Nat, faults : Nat, reindexes : Nat]
    /\ history \in [published : BOOLEAN, overwritten : BOOLEAN]

\* The statements of an attempt, by the phase it works for.
Statements(phase) ==
    CASE phase = "validate" -> {"validate", "count"}
      [] phase = "process"  -> {"read", "delete", "deleting", "extract", "insert", "indexed"}
      [] phase = "mark"     -> {"mark", "publishing", "marked"}
      [] phase = "clear"    -> {"clear", "clearing", "cleared"}
      [] phase = "announce" -> {"announce"}
      [] OTHER              -> {}

\* The attempt that the workflow waits for works for its phase, or is done.
AttemptInPhase ==
    /\ Running => wf.run > 0
    /\ wf.run + asked <= MaxRuns
    /\ wf.attempt # NoSlot =>
          /\ Running
          /\ job[wf.attempt].pc \in Statements(wf.phase) \cup {"done"}
          /\ job[wf.attempt].pc \in Statements("process") => ~ByReindex(wf.attempt)

Reported(phase, result) ==
    /\ wf.phase = phase /\ wf.attempt # NoSlot
    /\ job[wf.attempt].pc = "done" /\ job[wf.attempt].result = result

At(statements) == \E s \in Slots : job[s].pc \in statements

\* The compensation runs only after a mark that found the course archived; and
\* once a course is indexed, only the compensation can undo it.
ClearedIfArchived ==
    \/ wf.phase = "clear" \/ At(Statements("clear")) \/ Reported("mark", "fatal")
    \/ /\ wf.phase \in {"mark", "announce"} \/ At(Statements("mark"))
          \/ Reported("process", "ok")
       /\ ~processed
    => status = "archived" \/ history.overwritten

\* The workflow gets to the announcement through a course that is published.
PublishedBefore ==
    \/ status = "published" \/ wf.phase = "announce" \/ At({"announce"})
    \/ Reported("mark", "ok") \/ \E r \in 1 .. MaxRuns : announced[r] > 0
    => history.published

\* A run may still start an announcement.
MayAnnounce(r) ==
    \/ r > wf.run
    \/ /\ r = wf.run
       /\ \/ wf.phase \in {"validate", "process", "mark"}
          \/ wf.phase = "announce" /\ wf.attempt = NoSlot
          \/ Reported("announce", "error")

Announcing(r) == {s \in Slots : job[s].pc = "announce" /\ job[s].run = r}

AnnouncesCounted ==
    \A r \in 1 .. MaxRuns :
        announced[r] + Cardinality(Announcing(r)) + (IF MayAnnounce(r) THEN 1 ELSE 0)
            <= 1 + used.timeouts + used.faults

PubInv ==
    /\ TypeOK
    /\ RowsWhole /\ DeletesWhole /\ DeletesDisjoint /\ KeysFree
    /\ AttemptInPhase /\ ClearedIfArchived /\ PublishedBefore /\ AnnouncesCounted
    /\ UnprocessedOnlyAfterOverwrite
=============================================================================
