# Smart-Course: specifications, model checks and proofs

This directory specifies the Smart-Course backend (`src/backend/app`, FastAPI
over Postgres, Kafka, Celery, Temporal, MongoDB and Redis) in TLA+. TLC checks
the modules on small instances; TLAPS proves the theorems for every value of the
constants.

    tlc -config EnrollmentRace.cfg MCEnrollment.tla
    tlapm EnrollmentProofs.tla

Paths of source files are relative to `src/backend/app`.

## Inventory

| component | state | operations | what is hard | modelled in |
|---|---|---|---|---|
| Enrollment (`services/enrollment_service.py`) | `enrollments`, `progress` | enroll, complete lesson | capacity, gate and completion under READ COMMITTED; unique keys; row locks | `Enrollment` |
| Certificates (`services/certificate_service.py`) | `certificates` | issue | one per completed enrollment; foreign key locks | `Enrollment` |
| Prerequisites (`services/prerequisite_service.py`) | `course_prerequisites` | add, remove, gate | cycle check and insert are two statements | `Enrollment` |
| Courses (`services/course_service.py`) | `courses` | update, archive, read through a cache | writes race with enroll and publish; invalidation comes before the commit | `Enrollment`, `CourseCache` |
| Modules and lessons (`services/module_service.py`, `lesson_service.py`) | `modules`, `lessons` | add, list | unique order_index; lessons added while others complete the course or index it | `Curriculum`, `Enrollment`, `ContentIndex` |
| Outbox (`services/event_service.py`, `repositories/outbox_repo.py`) | `outbox` | stage, claim, stamp | same transaction as the business row | `Enrollment`, `OutboxRelay` |
| Outbox relay (`workers/outbox_relay.py`) | open transaction, sends in flight | tick | replicas, partial failure, crash before the commit | `OutboxRelay` |
| Welcome-email consumer, events archiver (`workers/`) | `processed_events`, group offset, RabbitMQ / MongoDB | handle, commit | three systems without a common transaction; rebalances | `EventConsumer`, `WelcomePipeline`, `EventFlow` |
| Celery tasks (`tasks/`, `workers/celery_app.py`) | task queue | send welcome mail, re-index | late acknowledgement, retries, time limits, lost workers | `WelcomeEmail`, `CoursePublishing` |
| Publishing saga (`temporal/`, `services/publish_service.py`) | workflow history, `courses.status`, `processed_at` | validate, process, mark, announce, compensate | attempts that time out and commit late, compensation | `CoursePublishing` |
| Content indexing (`services/content_indexing_service.py`, `chunking_service.py`, `extraction_service.py`) | `lesson_chunks`, `lessons.cached_text` | extract, chunk, replace | publish and re-index at the same time; bounds of chunks; uploads that are missing | `Chunking`, `ContentIndex` |
| Cache (`cache.py`) | Redis keys, cooldown of a process | get, set, delete, bump | fill after invalidation, failing calls, lost data | `CourseCache` |
| Schema registry (`events/schema_registry.py`) | schemas | validate, compatible | what old events mean to a consumer of the next version | `SchemaRegistry` |
| Users (`services/auth_service.py`, `user_service.py`, `dependencies.py`) | `users` | register, login, change | check, hash, insert; rows read early and written late | `Users`, `HttpRequest` |
| Search (`services/search_service.py`) | none | search in a scope | an empty scope | `Assistant` |
| Assistant (`services/rag_service.py`, `llm_service.py`, `routers/assistant.py`) | streams, connections of the pool | ask, generate | the stream outlives the request's session; failures, cuts and clients that leave | `Assistant` |
| Request handling (`database.py`, `main.py`) | connection pool | session, commit, answer | the pool at its limit; a commit whose outcome is not known | `HttpRequest` |
| Storage uploads | object store | presigned URLs | a key that names nothing | `ContentIndex` (what the indexer finds) |
| Recommendations, metrics, observability, frontend, migrations, deployment | none | | | no |

**How they interact.** An HTTP request runs in one Postgres transaction that
`get_db` commits when the handler returns and before the answer is sent.
Enrolling or completing a lesson stages an event in the outbox in that
transaction. The relay publishes the row to Kafka, where the two consumer groups
read it: one enqueues a Celery task that sends the e-mail, the other stores the
event in MongoDB. Publishing a course is a Temporal workflow whose activities
index the lessons and change the same course row that enroll locks and course
updates change; a re-index task runs the same indexing from the Celery queue.
Course detail and catalog are read through Redis. The assistant searches the
chunks that indexing stored and streams what a language model says.

Properties that make each component correct:

* enrollment: never beyond the capacity, never into a course that is closed or
  whose prerequisites are open; completed when every lesson is done, and once;
  one certificate per completed enrollment; one event per row;
* prerequisites: acyclic; courses: archived is final (neither holds under
  concurrency, nor the completion in all cases: see the disagreements below);
* relay: nothing lost, nothing invented, duplicates only after a fault;
* consumers: every message takes effect, duplicates only after a fault, no
  message marked as processed without its effect;
* welcome e-mails: sent or given up, never forgotten;
* saga: what is announced was published, what is published was indexed, and a
  workflow ends;
* index: the chunks of a lesson are one text, whole and in order;
* cache: what is served was committed, and is not older than its TTL; a
  published course appears;
* requests: what an answer says was true; every connection comes back;
* streams: what the client saw and what is counted agree.

## Modules

### Enrollment

The state is what is committed: course rows (`status`, `maxStudents`,
`requires`, `lessons`), the rows of learning (`enrollment`, `completedAt`,
`progress`, `certificates`) and the outbox (`userEnrolled`, `lessonCompleted`,
counted per row, since the event key is derived from the row). `tx[t]` is the
request that slot `t` is serving. Every action is one SQL statement, or the
commit, of a request:

    enroll            StartEnroll LockCourse CheckPrerequisites CheckCapacity InsertEnrollment CommitEnroll
    complete_lesson   StartComplete InsertProgress CountLessons CountProgress UpdateEnrollment
                      IssueCertificate CommitProgress
    update/archive    StartUpdate WriteCourse CommitCourse
    mark_published    StartPublish WriteCourse CommitCourse
    add_prerequisite  StartAddPrerequisite InsertPrerequisite CheckForeignKeys CommitPrerequisite

`RemovePrerequisite` and `AddLesson` touch one row and nothing waits for them
in between, so each is one step. `Rollback` ends a request anywhere.

Postgres is modelled by what the code relies on: a statement under READ
COMMITTED sees the rows committed before it and those of its own transaction; a
row lock or a unique key held by an open transaction makes the statement wait;
everything becomes visible at the commit. Nothing uncommitted is stored: the
rows a transaction has written and the locks it holds are read off `tx[t].pc`
(`HoldsForUpdate`, `HoldsUpdate`, `HoldsKeyShare`, `HasInserted`,
`HasCompleted`, `HasAdded`). `FOR UPDATE` conflicts with all of them, `UPDATE`
with other writers, the `KEY SHARE` of foreign keys only with `FOR UPDATE`.

Data is reduced to what the properties tell apart. An enrollment is its
(student, course) pair and a progress row its (enrollment, lesson) pair, which
are the unique keys. `completedAt` counts how often the column was written.
`Keep` in a course write is a column the PATCH does not change; title and
description are not kept, but a PATCH that changes only them still takes the
lock. `dropped` is declared in the enum and never assigned in the code.
Ownership and role checks choose who may call and are left out. A lesson
belongs to one course for good (`CourseOf`).

### OutboxRelay

`outbox`, `sent` and `log` are the committed rows, those with `sent_at`, and
what Kafka has stored. Each replica has the batch it has locked (`claim`) and
the rows not acknowledged yet (`pending`); both are empty between ticks.
`SendFails` is the exception of one `send_and_wait`: `gather` raises, the
transaction rolls back, and the other sends of the batch go on without it
(`stray`). The failing message may or may not have been stored. `CommitFails`
and `Crash` are the two other ways to lose a tick. A crash of an idle replica
changes nothing and is left out. `Enqueue` stands for the commits of
`Enrollment`; it takes rows in any order, as ids are drawn from a sequence
before the commit.

### EventConsumer

One partition and one consumer group. `member[m]` is the loop of a process:
`Receive`, `ClaimKey` (`INSERT ... ON CONFLICT DO NOTHING`, which waits for an
open insert of the same key), `DoEffect`, `CommitClaim`, `CommitOffset`.
`HandlerFails` is an exception at any of these points: the transaction rolls
back and the loop goes on. `Crash` restarts a process; `Rebalance` gives the
partition to another member while the former owner may be in the middle of a
message. `commit()` without arguments commits the fetch position of the
partitions the process is assigned, which is none for a former owner. Kafka's
part (`Produce`, `Assign`, `Rebalance`) is external and modelled from how the
workers use it. `Produce` may repeat a key, as the relay may. Keys are the
`idempotency_key` header; messages without it and payloads without an
enrollment id do not occur, as the producers check the payload against the
schema registry and always set the header.

The archiver differs only in the effect: its upsert with `$setOnInsert` makes a
repeated effect harmless. `effects` counts executions and covers both.

### CoursePublishing, ContentIndex, Chunking

`Chunking` holds `chunk_text` as operators on token positions: a text is the
sequence of the lengths of its sentences, and a chunk is the interval of tokens it
covers. The overlap is taken from the end of the text so far, so that every chunk
is an interval.

`ContentIndex` is the transaction of `index_course_lessons`. A `job` is one run of
it, in the process step of a workflow or in a re-index task: `ReadLessons`,
`StartDelete`, `FinishDelete`, `Extract` for each lesson, `UpdateCourse`,
`InsertRows`, `CommitIndex`. What matters is what Postgres does when two of them
meet: a `DELETE` looks for its rows, waits for whoever is deleting one of them,
skips what is gone (`SkipDeleted`: a row that is inserted again has a new id, so
that the waiting `DELETE` does not take it) and does not see what was inserted
meanwhile; the `UPDATE` of the course row (`processed_at` is flushed before the
chunks) waits for its lock;
an `INSERT` waits for the deletion of a row with the same key and fails if the row
stays. A run that holds the course row and waits for a deleted row while the
deleting run waits for the course row is a deadlock, which Postgres breaks by
aborting either (`Deadlocked`). `TextsFor` lets an extraction of a lesson return
any of its texts (`Source`) or none. Three exceptions are caught by nothing and make
the attempt fail in the same way each time: an upload that is not in the store
(`MissingUpload`), a text with a special token, for which `ENCODER.encode` raises
(`Unencodable`, `chunking_service.py:58`), and a text with a NUL byte, which Postgres
refuses at the flush (`Unstorable`, `NotStored`). Embeddings are a function of the text
and are left out.

`CoursePublishing` adds the requests, the workflow and its activities. `wf` is
what Temporal keeps: the phase, the run and the attempt it waits for. `Timeout`
gives up an attempt without stopping it: it stays in its slot, goes on statement
by statement and may commit after the next attempt has started, after the
compensation or after the workflow has ended. `Report` brings the result of an
attempt; an error is retried without a limit, a non-retryable one takes the
workflow to its end or, after the process step, to the compensation. `Fault` is a
database, network or worker failure up to the commit.

Left out: the hook that lets a test fail a step (`TEST_PUBLISH_FAIL_STEP`) and
`revert_to_draft_activity`, which no workflow calls. A course that is gone cannot
occur, as courses are never deleted.

### CourseCache

One course, one page of the catalog. `log` is the sequence of committed versions
of the course, `redis` what is cached, each entry with the ticks it has left. A
`Get` or `Put` follows `cache.py`: nothing in the cooldown, else the call, which
may fail before or after Redis did its work and then starts the cooldown of its
process. Readers take the steps of `get_course_detail` and `list_catalog`; writers
flush, invalidate and then commit, as `update` and `soft_delete` do under
`get_db`; the publish activity commits first. `Tick` lets time pass, for a request
at most `MaxRequestTicks`. `RedisRestart` loses the data, the generation included.
`lost` and `published` are history.

### WelcomeEmail, WelcomePipeline, EventFlow, Delivery

`WelcomeEmail` is the Celery side: the queue by e-mail and retries, and what each
worker does. A task's message is acknowledged when the task ends; `Retry` publishes
it again first, and `RetryFails` is that publish raising, which rejects the message and
gives the task up, whether or not the broker has the new one; a killed worker gives it back (`Kill`), the hard time limit does
not (`HardTimeLimit`). `WelcomePipeline` composes it with `EventConsumer`, whose
effect is `Enqueue`. `Delivery` is what an asynchronous stage promises: nothing
comes out that was not accepted, what has come out stays out, and what was accepted
comes out, or is given up where that is allowed. `OutboxRelay!ImplementsDelivery`
maps it to rows committed and rows stored, without loss;
`WelcomePipeline!DeliversEnqueued` maps its safety part to tasks enqueued and mails
sent, with loss.

`EventFlow` puts the relay in front of the pipeline. The two share the partition
`log` and nothing else, as in the code: a step of the relay (`Upstream`) leaves the
consumers alone and takes the place of `Produce`, a step of the bridge or of a worker
(`Downstream`) leaves the relay alone. An event is one row, and its id its key.
`OnlyEnrolledAreMailed` maps the safety part of `Delivery` to the whole way, rows
committed and mails sent. `EnrolledAreSettled` is its liveness part: a committed
enrollment gets its e-mail, or a task that was given up after its retries or at the
time limit. It has one exception, the one that `SkippedMessage` exhibits: when a
handler has raised, the loop may have passed the message over without an effect.

### SchemaRegistry

`validate` and `is_backward_compatible` over all schemas of a few fields, with
producers that emit under the registered version and deployments of a compatible
one. A payload is reduced to the type of each of its values. `Evolve` models what
the rule is for; no code deploys schemas at run time.

### HttpRequest, Users, Curriculum, Assistant, Api

`HttpRequest` is what all requests share: token and account of the caller, a
connection of the pool from the first statement to the end of the session, commit
or rollback before the answer, 500 for what nobody catches, for a pool that is
empty too long and for a connection that breaks, in the commit too (`Commit`:
whether it was done stays open). `Users` and `Curriculum` add the statements of
their services; rows an open transaction has inserted or locked are read off its
`pc`. `Assistant` adds search and the streams. `get_db` has ended when the body of
a stream starts, so the retrieval takes a connection of its own, which comes back
when the generators are collected (`Collect`), after a failing statement too. A client
may leave at any point: at an `await` of the model the call is cancelled there, while a
frame is sent the generators stay suspended until they are collected. `Api` is their product over
one pool; `OthersConnect` stands for all other requests, of which only the
connections matter. `seen` is history: the committed states during a request.

### MC modules, proof modules, faulty variants

The `MC` modules name the model values, symmetry sets and inputs.
`MCEventPipeline` runs `EventFlow` and the registry one at a time. The modules
called `...Proofs` hold the theorems; the inductive invariants stand at the end of
the module they are about, so that TLC can check them too. Operators called
*faulty variants* are what the definition after them would be with a plausible bug;
nothing refers to them. Each property is known to fail when the definition is
replaced by the variant.

## Model-checking runs

| run | bounds | shows |
|---|---|---|
| `EnrollmentRace` | 2 students, 2 courses, 1 lesson, capacity 1 or none, 2 concurrent requests | `WithinCapacity`, `EnrollsIntoOpenCourse`; `NoCircularWait` among row locks, unique keys and foreign keys; the refinement of `EnrollmentContract`; the inductive invariant |
| `Completion` | 1 student, 3 lessons of which 1 is added later, 3 requests | `OneEventPerRow`, `RecordsAgree`, `CertificateHasEnoughLessons`, `UnchangedCourseIsCovered`, `CompletionsBounded`, `CompletionTimeSettles`, `RequestsEnd` |
| `Relay` | 3 rows, 2 replicas, batches of 2, 2 faults | `SentIsLogged`, `CopiesBounded`, `EventuallySent`, the refinement of `Delivery`; the inductive invariant |
| `ConsumerGroup` | 2 keys, 3 messages, 2 members, 2 failures, 2 crashes or rebalances | `ProcessedHasEffect`, `EffectsBounded`, `OffsetMonotone`, `SkippedOnlyAfterFailure`, `EventuallyProcessed`; the inductive invariant |
| `Publishing` | 1 lesson of three possible ones (2 good texts of 4 and 5 tokens in chunks of 3 with 1 overlapping, behind an upload; a text that cannot be encoded, behind a URL; one that cannot be stored, behind an upload), 2 transactions at once, 2 workflow runs, 1 timeout, 1 fault, 1 re-index with 1 retry | `LessonsIndexedWhole`, `UnprocessedOnlyAfterOverwrite`, `AnnouncedIsPublished`, `PublishEnds` |
| `CatalogCache` | 2 requests of the API and the publish activity in 2 processes, TTLs of 2 and 1 ticks, requests of at most 1 tick, 1 write, 1 fault | `BoundedStaleness`, `PublishedAppears` |
| `EventPipeline` | 1 event, 1 relay replica, 2 consumers, 2 workers, 1 retry, 1 fault of the relay, 1 failure and 1 crash of the bridge, 2 faults of the mail side; all schemas over 2 fields and 2 types | `OnlyEnrolledAreMailed`, `EnrolledAreSettled`, `MailsBounded`, `ClaimedIsOnItsWay`, `NewReadsOld` |
| `Api` | 2 requests of 28 kinds, 5 accounts, 2 courses, a pool of 2, 1 fault, answers of 2 tokens | `AnswersAreTrue`, `StreamHonest`, `SearchInScope`, `RequestsEnd` |

The `Api` answers include that a curriculum never shows two modules, or two lessons of
one module, at the same place (`PlacesDistinct`).

The bounds are the smallest with every conflict in them. Two students and a
capacity of one make the capacity bind; two courses make a prerequisite and
an edge in each direction; every conflict between transactions is between two
of them, and a third is added where a waiter can itself be waited for. Three
rows in batches of two give two replicas different batches and leave a row
behind; three messages of two keys include a repeated one. The two texts make
a chunk that starts with an overlap, one longer than `max_tokens`, and a sentence
split in windows. An attempt that has timed out and its successor, or an activity
and a re-index task, are the two transactions that meet. One generation more than
there are bumps is enough for the catalog. With a pool of two, the two requests and
the others compete for connections. `MCPublishing` also assumes, for TLC to
evaluate, that `chunk_text` splits every text of up to four sentences as it should
(`ShortTextsAssumption`). `MaxFaults`, `MaxFailures`, `MaxCrashes`, `MaxMailFaults`,
`MaxTimeouts` bound failures, `MaxLog` the partition, where the relay fills it never
reached (`LogAssumption` of `MCEventPipeline`), `MaxRuns`, `MaxReindexes` and
`MaxWrites` the requests, `MaxLessons` the lessons a course gets out of `Lessons`: any
single one of the three, so that the good lesson meets every interleaving and each bad
one its retries.

`CHECK_DEADLOCK FALSE` is set where the system stops when there is nothing left
to do and the bounds are used up.

### Disagreements with what the code says of itself

Each of these runs checks one sentence of the repository and TLC finds a
behaviour of the code that breaks it.

| run | sentence | behaviour |
|---|---|---|
| `LostCompletion` | `services/enrollment_service.py:140`, auto-completion when every lesson is completed | the last two lessons are completed at the same time, neither count sees the other row |
| `CyclicPrerequisites` | `docs/API.md:208`, 409 if adding it would create a cycle | two requests add opposite edges, each looks before the other has committed |
| `SkippedMessage` | `workers/welcome_email_consumer.py:144`, redelivered on next poll | the commit of the next message passes the failed one |
| `StuckPublish` | `services/extraction_service.py:12`, extraction is best-effort and must not fail the publish workflow | a lesson whose upload never arrived makes the activity fail, and be retried, for ever, and so does one whose text has a special token or a NUL byte; until then the publish request is answered 409 |

The passing runs show what remains true in each case. A certificate covers the lessons
of a course to which none has been added, however completions race
(`UnchangedCourseIsCovered`), and as many as there were at the start otherwise
(`CertificateHasEnoughLessons`); `completed_at` is written again only with a lesson
completed beyond those (`CompletionsBounded`) and stays once no request for the
enrollment runs (`CompletionTimeSettles`); a course is published without having been
indexed only where an archive was overwritten (`UnprocessedOnlyAfterOverwrite`); nothing
is skipped without a failure (`SkippedOnlyAfterFailure`); a workflow ends when every
lesson can be indexed: its upload is there, its text can be encoded and stored
(`PublishEnds`). Of the prerequisites nothing remains: no statement looks at the graph
again.

Three more sentences about `Enrollment` are broken by two concurrent requests. They
have no run of their own; TLC finds each violated in the instance of `LostCompletion`,
with the property of its cfg replaced:

* `CertificateCoversLessons` (an invariant; `services/enrollment_service.py:198`,
  auto-completion when every lesson is done): a lesson is added and completed by
  another request between the two counts, and makes up for one that is not completed.
* `CompletedAtWrittenOnce` (an action property; `models/enrollment.py:50`,
  `completed_at` is set when the status transitions to completed): a request that
  loaded the status earlier completes a lesson added meanwhile, and the enrollment
  again.
* `ArchivedIsFinal` (an action property; `tests/test_courses.py:101`, archived to
  published is not allowed): `mark_published` writes over an archive it has not seen.

Other observations from writing the models:

* Of two concurrent registrations of one address the second is answered 500, not
  the 409 of `docs/API.md:547`: the `IntegrityError` of the insert is not caught.
* When the model's response ends without its last line the client sees a normal
  end of the stream, and the call is counted as cancelled.
* A chunk may have up to `max_tokens + overlap_tokens` tokens, and one of at most
  `overlap_tokens` is contained whole in the next, which starts with all of it
  (a short sentence before a long one): `LessonsIndexedWhole` says so.
* A `PATCH /users/me` of password and name whose name equals the one loaded writes
  the password only. If another request changes the name meanwhile, there is no
  moment at which both columns are as the answer 200 says; `AnswersAreTrue` holds
  for each column.
* A run of indexing that took its list of lessons before another run committed
  removes the chunks of a lesson that only the other run had seen.
* Making an optional field required passes the compatibility rule, although old
  events may lack it; `NewReadsOld` excludes that change.
* An invalidation before the commit lets a reader store the old course, or an old
  page under the new generation, for one TTL; a failing Redis makes readers use
  generation 0, and after Redis has lost its data a page read earlier may be stored
  under a generation that comes again. `BoundedStaleness` holds all the same.

## Fairness

`Enrollment!FairSpec` gives one weak fairness to the statements of all requests
together: as long as one can run, one is run in the end, since the event loop resumes
its coroutines and Postgres wakes a waiter when its lock is free. New requests, rollbacks,
`AddLesson` and `RemovePrerequisite` are not fair. No strong fairness is assumed
of those who wait for a lock: the premise of `RequestsEnd` is that no more
requests arrive, so that a lock is at last free for good. `OutboxRelay!FairSpec`
gives weak fairness to the tick of each replica, whose loop never ends (an
exception is followed by another round after `ERROR_BACKOFF_SEC`); faults are
bounded and not fair. `EventConsumer!FairSpec` gives it to the loop of each process,
`PipelineFairness` to the steps of the Celery workers. `EventFlow!FlowSpec` assumes
these three and nothing more.

`CoursePublishing!Spec` gives weak fairness to the start of attempts, which the
Temporal server schedules, and strong fairness to the statements of each slot: a
statement that waits for a row is woken when the transaction it waits for ends,
which is before the next attempt, at least a retry interval later, can take the row
again. Requests, timeouts, faults, uploads and re-index tasks are not fair;
`PublishEnds` assumes that every lesson can be indexed. `Api!ApiSpec` gives weak fairness to the steps of
a request that has started: the pool, the database and the model answer or time
out (30 and 300 seconds), and generators are collected. `CourseCache` has safety
properties only; time may stop.

## Proofs

TLAPS proves each theorem for every value of the constants under the named
assumptions: any number of students, courses, requests, replicas, workers, slots,
any size of the pool, any bound on faults. Every safety property that a passing run
checks is stated by a theorem. The inductive invariants were checked by TLC on the bounds of the runs before they were proved.

| module | theorems | argument |
|---|---|---|
| `EnrollmentProofs` | `TypeCorrect` `InductiveInvariance` `OutboxCorrect` `RecordsCorrect` `CapacityCorrect` `GateCorrect` | `IndInv`: what was checked under a lock stays true until the commit |
| | `CertificatesEarned` | `CountsEnough`: the counts are at least those of the start |
| | `CompletionsAreBounded` | `CountsEnough`: each write of the time is paid by a lesson of its own |
| | `CompletionTimeStays` | `SettledNext`: who starts later loads the status `completed` |
| | `WaitsHaveAnEnd` | whoever is waited for has fewer statements left that may wait (`WaitedForIsFurther`) |
| | `RequestsLookAtomic` | refinement of `EnrollmentContract`: commits are its steps, every other statement a stutter |
| | `CertificatesOfUnchangedCourses` | `CertificateHasEnoughLessons` and a finite set with a subset of its size |
| `OutboxRelayProofs` | `InductiveInvariance` `NoEventLoss` `NothingInvented` `DisjointBatches` | `IndInv` |
| | `CopiesAreFaults` | each copy beyond the first is paid by a fault |
| | `RelayDelivers` | refinement of the safety part of `Delivery` |
| `EventConsumerProofs` | `InductiveInvariance` `ProcessedWasDone` `DuplicatesAreFailures` `ExclusiveClaims` `OffsetNeverBack` | `IndInv` |
| | `NoneSkippedWithoutFailure` | `SkipInv`: while no handler has raised, what the owner has fetched is processed but for the message it handles |
| `WelcomePipelineProofs` | `MailInvariance` `MailsAreEffectsAndFaults` `ClaimedIsNotLost` | `MailInv`, with the `IndInv` of the consumer |
| | `PipelineDelivers` | refinement of the safety part of `Delivery`, with loss |
| | `FlowOfParts` | `EventFlow` refines `OutboxRelay!FairSpec`, `EventConsumer!FairSpec` and `PipelineSpec` |
| | `FlowInvariance` `OnlyEnrolled` | `FlowInv`: what was enqueued is stored, what is stored was committed |
| `SchemaRegistryProofs` | `UpgradedConsumersRead` | the rule field by field |
| `CoursePublishingProofs` | `WorkflowInvariance` `AnnouncedWasPublished` `IndexedUnlessOverwritten` | `WorkflowInv`: which attempts may still act in which phase |
| | `PublishInvariance` `IndexedWhole` | `RowInv`, if chunk_text splits each text well |
| `CourseCacheProofs` | `CacheInvariance` `StalenessIsBounded` `PublishedIsListed` | `CacheInv`: the age of what is held, against its TTL |
| `ApiProofs` | `ApiInvariance` `AnswersTrue` `SearchesKeepScope` `StreamsAreHonest` | `ApiInv` and `BodiesOK` |
| | `ConnectionsComeBack` | every statement takes one connection at most, and only if there is one (`Checkout`); who holds one is at a statement (`InPhase`) |

**Enrollment.** `WithinCapacity` is not inductive: at the commit, the room
in the course was checked two statements earlier. `IndInv` adds that what a
transaction has checked under its lock stays true until it ends (`ChecksHold`),
for which no other transaction may hold the lock meanwhile (`LocksExclusive`)
nor have inserted the same key (`InsertsExclusive`). A step of another
transaction disturbs a check only when it commits a course write, a
prerequisite or an enrollment of the same course, and then it holds a lock that
conflicts. `RoomStays` does the counting: an update of rows that adds no active
enrollment to a course leaves its room.

`complete_lesson` takes no lock before it counts. Whatever runs beside it, the counts
are at least the lessons of the start and the completed lessons at least the total
(`CountsEnough`). What the documentation promises needs more, and the
code does not have it: the disagreements above show how it fails. The theorems say what is
left without any premise on concurrency: `CertificatesOfUnchangedCourses`, that a
certificate covers the lessons of its course for as long as the course has those of the
start; `CompletionsAreBounded`, how often the completion time can be written;
`CompletionTimeStays`, from when on it is not.

`WaitsFor(t, u)` reads the guards: the next statement of `t` cannot run because of
what `u` holds or has written. `NoCircularWait` says that among any running requests one
waits for none of the others, so no set of them can be stuck; `WaitedForIsFurther`
proves it from the number of statements that may still wait (`ToGo`), which falls from
the waiter to whoever it waits for: a completion writes the progress row, the
enrollment row and the certificate, whose foreign key needs the course row, in this
order; `add_prerequisite` inserts its edge and then takes the key-share locks of its two
courses; every other request waits for one course row, before it holds anything.

`RequestsLookAtomic` is the refinement: the tables and the outbox that other parts read
change only in `CommitEnroll`, `CommitProgress`, `CommitCourse`, `CommitPrerequisite`
and the single-statement writes, and `EnrollIsAtomic`, `CompleteIsAtomic` and
`CourseIsAtomic` show from `IndInv` and `CountsEnough` that what the request read some
statements ago is still enough for the abstract step at that moment. The abstract
completion leaves open whether the last lesson completes the course, which is all the
code promises with concurrent completions.

**OutboxRelay.** `SentIsLogged` needs that what a replica does not wait
for any more is stored (`AckedIsLogged`), that no row is claimed twice or sent
while it is claimed (`ClaimsDisjoint`), and `OnlyStaged`. By `IndInv` only staged rows
are stored (`StoresStaged`), so that every step accepts a row, delivers one or changes
nothing that the abstract stage can see.

**EventConsumer, WelcomePipeline.** The effect precedes the commit
(`EffectBeforeCommit`), a claim is exclusive (`ClaimsExclusive`), and all effects of a
key but the one that its committed or committing transaction accounts for are paid by a
failure or a crash (`EffectsCounted`). `OwnerAhead` gives `OffsetMonotone`. Each effect
of the consumer is one task; `EnqueuedAccounted` and `MailsCounted` follow it through
the queue, the workers and the retries: mails sent, messages queued and tasks running
never exceed the tasks enqueued and the faults, the publish of a retry that failed
included.

**EventFlow.** A step of the relay changes the partition by one message at most
(`ShipsOnce`), so that to the bridge it is `Produce` or nothing (`FlowIsPipeline`); a
step of the bridge or of a worker changes nothing the relay has (`FlowIsRelay`). Hence
`FlowOfParts`: each part, its fairness included, behaves in the composition as its own
module says, and what is shown of a part alone carries over. Across the parts, an
effect needs a message in hand and that message a committed row (`EffectsAreLogged`,
with the relay's `OnlyStaged`); the partition is never cut (`PartitionGrows`), so this
stays true when the relay crashes or sends again.

**CoursePublishing.** A late attempt is the difficulty: it commits after the workflow
has gone on. `AttemptInPhase`, `ClearedIfArchived` and `PublishedBefore` say what an
attempt may still find, `AnnouncesCounted` charges each announcement beyond the first
to the timeout or fault that caused a new attempt. For the rows, a lesson has all
chunks of one text or none (`RowsWhole`), a transaction deletes of a lesson all or none
(`DeletesWhole`), no two delete the same row or hold the course row
(`DeletesDisjoint`), and the keys that a transaction has inserted are free until its
commit (`KeysFree`). `PublishInvariance` and `IndexedWhole` assume
`WellChunked(t)` of every text: what the fold of `chunk_text` computes needs an
induction over the text, and TLC evaluates it on short texts instead.
`SlotsAssumption` says that the slots are finite and `NoSlot` is none of them.

**CourseCache.** What a request has read is not older than the request, and what the
cache holds is not older than the time it has been there and the request that stored it
(`AgesBounded`). Invalidation, failing calls and the cooldown do not enter the
argument. `GenerationsBehind` and `PublishedStays` give the catalog.

**Api.** `OthersKept` says when a step of one request leaves another as it should be:
no account or row disappears, each new state is added to the history of all that are
served, and an account appears only where the step's request had inserted it
(`Fits`). With it each statement is looked at for its own request only. `ApiInv` has the
phase and the connection (`InPhase`), the account of the caller (`IsAdmitted`), the
scope of a search (`InScope`), that what a session holds was in the database at a moment
of the request (`HasLoaded`), and that an address being inserted is free and inserted
once (`KeyFree`). A curriculum keeps its places apart since a row is inserted only where
neither a committed nor an open row of another request is (`PlaceFree`, `PlacesKept`).
`BodyAt` says of each statement of the generators what the frames, the
tokens and the record are: the count of token frames is the count of tokens read, but for
one between reading and forwarding it. `UsersAssumption`, `OperationsAssumption`,
`DatabaseAssumption` and `PoolAssumption` say what requests, rows and the first
database are.

**Model-checked only.** Liveness under fairness (`RequestsEnd`, `EventuallySent`,
`EventuallyProcessed`, `EnrolledAreSettled`, `PublishEnds` and the liveness part of
`OutboxRelay!ImplementsDelivery`), which
the prover does not reach; what `chunk_text` computes for every text, which needs an induction over data.

## Not modelled

* Recommendations, metrics and admin: single read-only queries; nothing follows
  from their results inside the program.
* Creating a course, listing one's own courses, enrollments or certificates,
  reading progress: one insert of a row nobody else knows, or one read.
* Observability, but for the outcome that `stream_chat` records.
* Frontend: presentation. Migrations and deployment: the tables are taken from the
  models, the configuration only where it decides a behaviour (late
  acknowledgement, time limits, pool size).
* Password hashes, tokens, presigned URLs, embeddings, parsers: library calls,
  reduced to their result.
* The archiver's branch for values that are not JSON: no producer writes them.
