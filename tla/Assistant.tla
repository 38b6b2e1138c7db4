----------------------------- MODULE Assistant -----------------------------
(***************************************************************************)
(* Search over the indexed chunks, and the answers streamed from the language*)
(* model: search_service.py, search_repo.py, rag_service.py, llm_service.py  *)
(* and routers/assistant.py.                                                 *)
(*                                                                         *)
(* get_db has ended when the body of a stream starts.  The closed session    *)
(* takes a connection again for the retrieval, and nothing gives it back but *)
(* the end of the generator that holds the session.                         *)
(***************************************************************************)
EXTENDS HttpRequest, Sequences, SequencesExt

CONSTANTS
    EnrolledIn,    \* courses of a student's enrollments that are not dropped
    Indexed,       \* courses with rows in lesson_chunks
    MaxTokens      \* bound: tokens of an answer

ASSUME TokensAssumption == MaxTokens \in Nat

\* The body of a response: the frames sent, how the call of the model stands,
\* the tokens it produced, and what _record_completion counted.
VARIABLE stream

assistantVars == <<httpVars, stream>>

NoStream == [frames |-> <<>>, model |-> "none", tokens |-> 0, recorded |-> <<>>]

AssistantInit == stream = [r \in Requests |-> NoStream]

-----------------------------------------------------------------------------
(* Search.                                                                   *)

\* The courses global_search may look into; nobody limits an admin.
Scope(caller) ==
    CASE RoleOf[caller] = "admin"      -> DOMAIN CourseOwner
      [] RoleOf[caller] = "instructor" -> {c \in DOMAIN CourseOwner :
                                              CourseOwner[c] = caller}
      [] RoleOf[caller] = "student"    -> EnrolledIn[caller]

ReadScope(r) ==
    /\ Asks(r, "search") /\ pc[r] = "handle"
    /\ Query(r, "search", Scope(op[r].caller))
    /\ UNCHANGED stream

\* Faulty variant: no course in the list of courses is taken for no list.
EmptyIsNoScope(scope) == IF scope = {} THEN Indexed ELSE Indexed \cap scope

\* search_chunks.
Searchable(scope) == Indexed \cap scope

\* The nearest chunks above the similarity floor, of which none may be left.
Search(r) ==
    /\ Asks(r, "search") /\ pc[r] = "search"
    /\ \E hits \in SUBSET Searchable(hand[r]) : Commit(r, db, 200, "ended", hits)
    /\ UNCHANGED stream

-----------------------------------------------------------------------------
(* The response is prepared, its body has not begun.                         *)

Respond(r) == Commit(r, db, 200, "retrieve", {})

Ask(r) ==
    /\ Asks(r, "ask") /\ pc[r] = "handle"
    /\ Respond(r)
    /\ UNCHANGED stream

\* get_for_modify.
Generate(r) ==
    /\ Asks(r, "generate") /\ pc[r] = "handle"
    /\ LET c == op[r].course IN
       IF c \notin DOMAIN CourseOwner THEN Reject(r, 404)
       ELSE IF CourseOwner[c] # op[r].caller /\ RoleOf[op[r].caller] # "admin"
       THEN Reject(r, 403)
       ELSE Respond(r)
    /\ UNCHANGED stream

-----------------------------------------------------------------------------
(* The generators.                                                           *)

Sends(r, frame) == stream' = [stream EXCEPT ![r].frames = Append(@, frame)]

Proceed(r, next) ==
    /\ pc' = [pc EXCEPT ![r] = next]
    /\ UNCHANGED <<db, op, hand, answer, pool, seen, faults>>

\* retrieve, list_chunks_for_lesson: without a hit the model is not asked.
Retrieve(r) ==
    /\ pc[r] = "retrieve"
    /\ \/ Query(r, "canned", {}) /\ UNCHANGED stream
       \/ /\ op[r].course \in Indexed
          /\ Query(r, "model", {})
          /\ stream' = [stream EXCEPT ![r].model = "asked"]

\* The embedding fails, before a connection is taken; or the statement or the
\* trimming of a chunk does, and the session keeps its connection; or the pool has
\* none in time.
RetrieveFails(r) ==
    /\ pc[r] = "retrieve"
    /\ \/ ~Connected(r) /\ UNCHANGED <<pool, faults>>
       \/ /\ faults < MaxFaults /\ faults' = faults + 1
          /\ \/ pool' = pool
             \/ Connected(r) /\ pool' = pool \cup {r}
    /\ pc' = [pc EXCEPT ![r] = "error"]
    /\ UNCHANGED <<db, op, hand, answer, seen, stream>>

SendCanned(r) ==
    /\ pc[r] = "canned"
    /\ Sends(r, "canned")
    /\ Proceed(r, "close")

\* stream_chat: a line with a token, which may be the last one at the same time.
\* Lines that are blank or no JSON are skipped.
ReadToken(r) ==
    /\ pc[r] = "model" /\ stream[r].tokens < MaxTokens
    /\ stream' = [stream EXCEPT ![r].tokens = @ + 1]
    /\ \E next \in {"forward", "forwardLast"} : Proceed(r, next)

\* The call ends: it is recorded in the finally clause.
Recorded(r, model, outcome, s) ==
    [s EXCEPT ![r].model = model, ![r].recorded = Append(@, outcome)]

ReadDone(r) ==
    /\ pc[r] = "model"
    /\ stream' = Recorded(r, "done", "success", stream)
    /\ Proceed(r, "close")

\* The token is yielded through the generators and sent.
ForwardToken(r) ==
    /\ pc[r] \in {"forward", "forwardLast"}
    /\ LET sent == [stream EXCEPT ![r].frames = Append(@, "token")]
       IN IF pc[r] = "forward"
          THEN stream' = sent /\ Proceed(r, "model")
          ELSE stream' = Recorded(r, "done", "success", sent) /\ Proceed(r, "close")

\* The body of the model's response ends without a done line.
ModelCut(r) ==
    /\ pc[r] = "model"
    /\ stream' = Recorded(r, "cut", "cancelled", stream)
    /\ Proceed(r, "close")

\* Faulty variant: the record is made at the end of the try block.
FailsUnrecorded(r) ==
    /\ pc[r] = "model"
    /\ stream' = [stream EXCEPT ![r].model = "failed"]
    /\ Proceed(r, "error")

\* An exception: connecting, the status, the read timeout of 300 seconds.
ModelFails(r) ==
    /\ pc[r] = "model"
    /\ stream' = Recorded(r, "failed", "error", stream)
    /\ Proceed(r, "error")

SendError(r) ==
    /\ pc[r] = "error"
    /\ Sends(r, "error")
    /\ Proceed(r, "close")

\* The finally clause of event_stream.
Close(r) ==
    /\ pc[r] = "close"
    /\ Sends(r, "DONE")
    /\ Proceed(r, "collect")

\* The client goes away.  While the task waits for the retrieval or the model it
\* is cancelled there, and stream_chat records that; while a frame is being sent
\* the generators are left suspended.
Disconnect(r) ==
    /\ pc[r] \in {"retrieve", "canned", "model", "forward", "forwardLast", "error", "close"}
    /\ IF pc[r] = "model" THEN stream' = Recorded(r, "left", "cancelled", stream)
       ELSE UNCHANGED stream
    /\ Proceed(r, "collect")

\* Faulty variant: the session of a finished stream stays referenced.
StaysReferenced(r) ==
    /\ pc[r] = "collect"
    /\ IF stream[r].model = "asked"
       THEN stream' = Recorded(r, "left", "cancelled", stream)
       ELSE UNCHANGED stream
    /\ Proceed(r, "ended")

\* The generators are collected: a suspended stream_chat is closed and records
\* that now; the connection of the session goes back to the pool.
Collect(r) ==
    /\ pc[r] = "collect"
    /\ IF stream[r].model = "asked"
       THEN stream' = Recorded(r, "left", "cancelled", stream)
       ELSE UNCHANGED stream
    /\ pc' = [pc EXCEPT ![r] = "ended"]
    /\ pool' = pool \ {r}
    /\ UNCHANGED <<db, op, hand, answer, seen, faults>>

AssistantStep(r) ==
    \/ ReadScope(r) \/ Search(r) \/ Ask(r) \/ Generate(r)
    \/ Retrieve(r) \/ RetrieveFails(r) \/ SendCanned(r)
    \/ ReadToken(r) \/ ForwardToken(r) \/ ReadDone(r) \/ ModelCut(r) \/ ModelFails(r)
    \/ SendError(r) \/ Close(r) \/ Collect(r)

-----------------------------------------------------------------------------
\* global_search shows a student only courses with an enrollment and an
\* instructor only courses of their own, none to those who have none
\* (search_service.py:40-63, search_repo.py:86-110).
SearchInScope ==
    \A r \in Requests :
        pc[r] = "ended" /\ op[r].kind = "search" /\ answer[r] = 200 =>
            \A c \in hand[r] :
                \/ RoleOf[op[r].caller] = "admin"
                \/ CourseOwner[c] = op[r].caller
                \/ c \in EnrolledIn[op[r].caller]

Closed(frames) == frames # <<>> /\ Last(frames) = "DONE"

TokensIn(frames) == Cardinality({i \in DOMAIN frames : frames[i] = "token"})

\* The frames a client sees and the outcome that is counted tell the same story.
\* A stream is closed once, at its end; an error frame comes right before that;
\* a closed stream whose call was recorded as a success has every token of the
\* model and no error frame, and one without an error frame has every token.
\* Every call of the model is recorded exactly once by the time its request has
\* ended, with "success" only if the model said that it was done and "error" only
\* if it failed, also when the client left in the middle (assistant.py:31-41,
\* llm_service.py:132-174).
StreamHonest ==
    \A r \in Requests :
        LET s == stream[r]
            failed == \E i \in DOMAIN s.frames : s.frames[i] = "error"
        IN /\ \A i \in DOMAIN s.frames :
                 /\ s.frames[i] = "DONE" => i = Len(s.frames)
                 /\ s.frames[i] = "error" /\ Closed(s.frames) => i = Len(s.frames) - 1
           /\ Closed(s.frames) /\ ~failed => TokensIn(s.frames) = s.tokens
           /\ Closed(s.frames) /\ s.model = "done" => ~failed
           /\ Closed(s.frames) /\ s.model = "failed" => failed
           /\ Len(s.recorded) <= 1
           /\ pc[r] = "ended" /\ s.model # "none" => Len(s.recorded) = 1
           /\ Contains(s.recorded, "success") <=> s.model = "done"
           /\ Contains(s.recorded, "error") <=> s.model = "failed"
=============================================================================
