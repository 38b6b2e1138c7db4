---------------------------- MODULE ContentIndex ----------------------------
(***************************************************************************)
(* The extract, chunk and embed pipeline (content_indexing_service.py) of    *)
(* one course, over Postgres (READ COMMITTED).  It runs in the process step  *)
(* of a publish workflow and in the Celery re-index task, at the same time   *)
(* or not, each run in one transaction: SELECT the lessons, DELETE the       *)
(* chunks, extract and chunk every lesson, UPDATE the course row, INSERT     *)
(* the new chunks, COMMIT.                                                   *)
(*                                                                         *)
(* Embeddings are a function of the text and are left out.                   *)
(***************************************************************************)
EXTENDS Chunking, Naturals, Sequences, FiniteSets

CONSTANTS
    Lessons,      \* the lessons the course may get
    Kind,         \* where the text of a lesson comes from
    Texts,        \* the texts that occur
    NoText,       \* None, or an empty text
    Source,       \* what the extraction of each lesson may return: its content_text,
                  \* or what its page, captions or file may give
    Unencodable,  \* texts with a special token, <|endoftext|>, which ENCODER refuses
    Unstorable,   \* texts with a NUL, which Postgres refuses
    Slots,        \* job slots: how many transactions run at once
    MaxLessons    \* bound: lessons of the course

ASSUME KindAssumption == /\ Kind \in [Lessons -> {"text", "url", "upload", "none"}]
                         /\ Source \in [Lessons -> SUBSET (Texts \cup {NoText})]
                         /\ NoText \notin Texts
                         /\ MaxLessons \in Nat

VARIABLES
    lessons,      \* lessons that exist
    uploaded,     \* lessons whose storage_key names an object in the store
    cachedText,   \* lessons.cached_text; its source never changes
    chunks,       \* lesson_chunks rows
    processed,    \* courses.processed_at IS NOT NULL
    job           \* the transaction of each slot

indexVars == <<lessons, uploaded, cachedText, chunks, processed>>

Idle == [pc |-> "idle"]

Chunks == [t \in Texts |-> ChunkText(t)]

RowsOf(l, t) ==
    {[lesson |-> l, index |-> i - 1, text |-> t,
      first |-> Chunks[t][i][1], last |-> Chunks[t][i][2]] : i \in DOMAIN Chunks[t]}

IndexInit ==
    /\ lessons = {}
    /\ uploaded = {}
    /\ cachedText = [l \in Lessons |-> NoText]
    /\ chunks = {}
    /\ processed = FALSE
    /\ job = [s \in Slots |-> Idle]

-----------------------------------------------------------------------------
(* Locks, read off the statement a transaction has reached.                  *)

\* The transactions that have updated the course row and not committed.
HoldsCourse(s) == job[s].pc \in {"insert", "indexed", "marked", "cleared"}

CanUpdateCourse(s) == \A u \in Slots \ {s} : ~HoldsCourse(u)

\* The chunks a transaction has deleted and not committed.
Deleted(s) ==
    IF job[s].pc \in {"extract", "insert", "indexed"} THEN job[s].deleted ELSE {}

-----------------------------------------------------------------------------
(* The statements of index_course_lessons.                                   *)

\* SELECT the course and its lessons.
ReadLessons(s) ==
    /\ job[s].pc = "read"
    /\ job' = [job EXCEPT ![s] = [pc |-> "delete", by |-> job[s].by,
                                  cached |-> [l \in lessons |-> cachedText[l]]]]
    /\ UNCHANGED indexVars

\* The DELETE looks for its rows ...
StartDelete(s) ==
    /\ job[s].pc = "delete"
    /\ job' = [job EXCEPT ![s] = [pc |-> "deleting", by |-> job[s].by,
                                  cached |-> job[s].cached, deleted |-> chunks]]
    /\ UNCHANGED indexVars

\* ... and waits for the transactions that are deleting some of them: the rows
\* that are gone by then are skipped (SkipDeleted), the rows inserted meanwhile
\* not looked at.
FinishDelete(s) ==
    /\ job[s].pc = "deleting"
    /\ \A u \in Slots \ {s} : Deleted(u) \cap job[s].deleted = {}
    /\ job' = [job EXCEPT ![s] = [pc |-> "extract", by |-> job[s].by,
                                  cached |-> job[s].cached,
                                  deleted |-> job[s].deleted,
                                  todo |-> DOMAIN job[s].cached,
                                  texts |-> [l \in DOMAIN job[s].cached |-> NoText]]]
    /\ UNCHANGED indexVars

\* _lesson_text: a text kept from an earlier run is used again; else a page,
\* captions or a file may give any of its texts, or none when the download or the
\* parser fails.
TextsFor(l, cached) ==
    IF Kind[l] \in {"url", "upload"} /\ cached # NoText THEN {cached} ELSE Source[l]

\* get_bytes raises for a key that names no object, and nothing catches it.
MissingUpload(l, cached) ==
    Kind[l] = "upload" /\ cached = NoText /\ l \notin uploaded

\* The text of one more lesson is there, and chunk_text encodes it.
Extract(s) ==
    /\ job[s].pc = "extract"
    /\ \E l \in job[s].todo :
          /\ ~MissingUpload(l, job[s].cached[l])
          /\ \E t \in TextsFor(l, job[s].cached[l]) \ Unencodable :
                job' = [job EXCEPT ![s].todo = @ \ {l}, ![s].texts[l] = t]
    /\ UNCHANGED indexVars

\* An exception that nothing catches, of get_bytes or of ENCODER.encode.
ExtractFails(s) ==
    /\ job[s].pc = "extract"
    /\ \E l \in job[s].todo :
          \/ MissingUpload(l, job[s].cached[l])
          \/ TextsFor(l, job[s].cached[l]) \cap Unencodable # {}

\* The flush: UPDATE courses SET processed_at comes before the INSERTs, ...
UpdateCourse(s) ==
    /\ job[s].pc = "extract" /\ job[s].todo = {}
    /\ CanUpdateCourse(s)
    /\ job' = [job EXCEPT ![s] = [pc |-> "insert", by |-> job[s].by,
                                  cached |-> job[s].cached,
                                  deleted |-> job[s].deleted, texts |-> job[s].texts]]
    /\ UNCHANGED indexVars

NewRows(s) ==
    UNION {RowsOf(l, job[s].texts[l]) : l \in {k \in DOMAIN job[s].texts :
                                                 job[s].texts[k] # NoText}}

\* Committed rows with the (lesson_id, chunk_index) of a new row.
Duplicates(s) ==
    {q \in chunks \ job[s].deleted : \E r \in NewRows(s) :
        r.lesson = q.lesson /\ r.index = q.index}

\* The flush refuses the rows and the cached_text of such a text, whatever the
\* other rows.
NotStored(s) == \E l \in DOMAIN job[s].texts : job[s].texts[l] \in Unstorable

\* Faulty variant: no unique constraint on (lesson_id, chunk_index).
NoUniqueKey(s) ==
    /\ job[s].pc = "insert" /\ ~NotStored(s)
    /\ job' = [job EXCEPT ![s].pc = "indexed"]
    /\ UNCHANGED indexVars

\* ... then the INSERTs, which wait for a transaction that is deleting a row with
\* the same key.
InsertRows(s) ==
    /\ job[s].pc = "insert" /\ Duplicates(s) = {} /\ ~NotStored(s)
    /\ job' = [job EXCEPT ![s].pc = "indexed"]
    /\ UNCHANGED indexVars

\* DataError; or IntegrityError: a row with the key is there, and nobody is
\* deleting it.
InsertFails(s) ==
    /\ job[s].pc = "insert"
    /\ \/ NotStored(s)
       \/ \E q \in Duplicates(s) : \A u \in Slots \ {s} : q \notin Deleted(u)

\* s holds the course row and waits for a row u is deleting; u waits for the
\* course row.  Postgres aborts one of them.
Deadlocked(s, u) ==
    /\ job[s].pc = "insert" /\ \E q \in Duplicates(s) : q \in Deleted(u)
    /\ job[u].pc = "extract" /\ job[u].todo = {}

\* The lessons whose text came from a page or a file and is to be kept.
Extracted(s, l) ==
    /\ l \in DOMAIN job[s].texts /\ Kind[l] \in {"url", "upload"}
    /\ job[s].cached[l] = NoText /\ job[s].texts[l] # NoText

\* Faulty variant: processed_at is left alone.
NoProcessedAt(s) ==
    /\ chunks' = (chunks \ job[s].deleted) \cup NewRows(s)
    /\ UNCHANGED <<lessons, uploaded, cachedText, processed>>

\* What the COMMIT makes visible.
CommitIndex(s) ==
    /\ chunks' = (chunks \ job[s].deleted) \cup NewRows(s)
    /\ cachedText' = [l \in Lessons |-> IF Extracted(s, l) THEN job[s].texts[l]
                                        ELSE cachedText[l]]
    /\ processed' = TRUE
    /\ UNCHANGED <<lessons, uploaded>>

\* With the COMMIT of s its transaction has ended, and the DELETEs that wait for
\* the rows it has deleted skip them, also where it has put the same text again.
SkipDeleted(s, ended) ==
    job' = [u \in Slots |-> IF u = s THEN ended
                            ELSE IF job[u].pc = "deleting"
                            THEN [job[u] EXCEPT !.deleted = @ \ job[s].deleted]
                            ELSE job[u]]

IndexStatement(s) ==
    \/ ReadLessons(s) \/ StartDelete(s) \/ FinishDelete(s)
    \/ Extract(s) \/ UpdateCourse(s) \/ InsertRows(s)

-----------------------------------------------------------------------------
(* The instructor's requests.                                                *)

\* POST lessons: the storage_key is the one of a presigned URL, and is not
\* looked up in the store.
AddLesson(l) ==
    /\ l \notin lessons /\ Cardinality(lessons) < MaxLessons
    /\ lessons' = lessons \cup {l}
    /\ UNCHANGED <<uploaded, cachedText, chunks, processed, job>>

\* The browser's PUT to the presigned URL, before or after the lesson.
Upload(l) ==
    /\ Kind[l] = "upload" /\ l \notin uploaded
    /\ uploaded' = uploaded \cup {l}
    /\ UNCHANGED <<lessons, cachedText, chunks, processed, job>>

-----------------------------------------------------------------------------
\* The chunks of a lesson come from one text, are numbered without a gap, cover
\* all its tokens in order and are at most one overlap longer than max_tokens,
\* whichever publish attempts and re-index tasks deleted and inserted them at
\* the same time (content_indexing_service.py:77-99, chunking_service.py).
LessonsIndexedWhole ==
    \A l \in Lessons :
        LET rows == {r \in chunks : r.lesson = l} IN
        rows # {} => \E t \in Texts :
            /\ \A r \in rows : r.text = t /\ r.last - r.first < MaxTokens + OverlapTokens
            /\ {r.index : r \in rows} = 0 .. (Cardinality(rows) - 1)
            /\ \A q, r \in rows : q.index < r.index =>
                   /\ q.first <= r.first /\ q.last <= r.last
                   /\ <<q.first, q.last>> # <<r.first, r.last>>
            /\ UNION {r.first .. r.last : r \in rows} = 1 .. TokenCount(t)

-----------------------------------------------------------------------------
(* The inductive invariant of CoursePublishingProofs, as far as it is about   *)
(* the rows.                                                                 *)

Rows == UNION {RowsOf(l, t) : l \in Lessons, t \in Texts}

RowsFor(rows, l) == {r \in rows : r.lesson = l}

\* The rows of a lesson are all those of one text.
RowsWhole ==
    \A l \in Lessons : RowsFor(chunks, l) = {}
                       \/ \E t \in Texts : RowsFor(chunks, l) = RowsOf(l, t)

\* A transaction deletes committed rows, and of a lesson all or none.
DeletesWhole ==
    \A s \in Slots : job[s].pc \in {"deleting", "extract", "insert", "indexed"} =>
        /\ job[s].deleted \subseteq chunks
        /\ \A l \in Lessons : RowsFor(job[s].deleted, l) \in {{}, RowsFor(chunks, l)}

\* No two transactions delete the same row, or have updated the course row.
DeletesDisjoint ==
    \A s, u \in Slots : s # u => /\ Deleted(s) \cap Deleted(u) = {}
                                 /\ ~(HoldsCourse(s) /\ HoldsCourse(u))

\* The unique key holds until the COMMIT: it comes under the lock of the course.
KeysFree == \A s \in Slots : job[s].pc = "indexed" => Duplicates(s) = {}
=============================================================================
