-------------------------------- MODULE Api --------------------------------
(***************************************************************************)
(* The API process: concurrent requests about users, curricula, search and   *)
(* the assistant, over one pool of database connections.                     *)
(***************************************************************************)
EXTENDS Users, Curriculum, Assistant

StreamSteps == {"retrieve", "canned", "model", "forward", "forwardLast", "error",
                "close", "collect"}

\* The statements of each kind of request.
StepsOf ==
    [register |-> {"handle", "hash", "inserted"},
     login    |-> {"handle", "verify"},
     updateMe |-> {"caller", "handle", "updated"},
     add      |-> {"caller", "handle", "module", "rows", "placed"},
     list     |-> {"caller", "handle", "module", "rows", "listed"},
     search   |-> {"caller", "handle", "search"},
     ask      |-> {"caller", "handle"} \cup StreamSteps,
     generate |-> {"caller", "handle"} \cup StreamSteps]

ASSUME OperationsAssumption ==
    \A o \in Operations :
        /\ o.kind \in DOMAIN StepsOf
        /\ IsPublic(o) => o.email \in Accounts /\ o.password \in Passwords
        /\ ~ IsPublic(o) => o.caller \in Accounts \cup {BadToken}
        /\ o.kind = "updateMe" => /\ o.set["password"] \in Passwords \cup {Nothing}
                                  /\ o.set["name"] \in Names \cup {Nothing}

Courses == DOMAIN CourseOwner \cup UNION {EnrolledIn[a] : a \in Accounts}

Db == [accounts : [Accounts -> UserRow \cup {NoUser}], rows : SUBSET Rows]

ASSUME DatabaseAssumption == InitialDb \in Db /\ PlacesDistinct(InitialDb)

ApiInit == HttpInit /\ AssistantInit

Step(r) ==
    \/ (Dispatch(r) \/ UserStep(r) \/ CurriculumStep(r)) /\ UNCHANGED stream
    \/ AssistantStep(r)

Arrive(r) == Start(r) /\ UNCHANGED stream

ApiNext ==
    \/ \E r \in Requests : Arrive(r) \/ Step(r) \/ Disconnect(r)
    \/ OthersConnect /\ UNCHANGED stream

\* A request that is being served goes on: the pool, the database and the model
\* answer or time out, and generators are collected.
ApiSpec ==
    /\ ApiInit /\ [][ApiNext]_assistantVars
    /\ \A r \in Requests : WF_assistantVars(Step(r))

-----------------------------------------------------------------------------
AnswerIsTrue(r) ==
    pc[r] = "ended" /\ answer[r] \in {200, 201, 401, 404, 409} =>
        /\ IsPublic(op[r]) => \E d \in seen[r] : UserAnswerIn(r, d)
        /\ op[r].kind = "register" /\ answer[r] = 201 => UserAnswerIn(r, db)
        /\ op[r].kind = "updateMe" /\ answer[r] = 200 =>
              \A c \in {"password", "name"} : \E d \in seen[r] : UpdatedIn(r, c, d)
        /\ op[r].kind \in {"add", "list"} /\ answer[r] # 401 =>
              \E d \in seen[r] : CurriculumAnswerIn(r, d)
        /\ op[r].kind = "add" /\ answer[r] = 201 => CurriculumAnswerIn(r, db)

\* Every answer but 500 is true of a state the database was in while the request
\* was served: 201 of a row this request inserted, which is there to stay, 409 of
\* a key another row has, a token or 401 of the password at some moment, a list
\* of the rows at some moment, an update of each column at some moment (a column
\* that has its new value when the row is loaded is not written), although requests
\* interleave at every statement, read a row and use it later, and lose their
\* connection.  A request that is told 201 has the order_index for its row alone,
\* whoever asked for the same one (auth_service.py:28-60, module_service.py:41-59,
\* lesson_service.py:67-103, database.py:28-35).
AnswersAreTrue == PlacesDistinct(db) /\ \A r \in Requests : AnswerIsTrue(r)

-----------------------------------------------------------------------------
(* The inductive invariants of ApiProofs.                                    *)

Streams == [frames   : Seq({"token", "canned", "error", "DONE"}),
            model    : {"none", "asked", "done", "cut", "failed", "left"},
            tokens   : Nat,
            recorded : Seq({"success", "error", "cancelled"})]

\* Every variable stays in its set.
TypeOK ==
    /\ db \in Db
    /\ op \in [Requests -> Operations \cup {Nothing}]
    /\ pc \in [Requests -> {"new", "ended"} \cup UNION {StepsOf[k] : k \in DOMAIN StepsOf}]
    /\ hand \in [Requests -> SUBSET (UserRow \cup Rows \cup Courses)]
    /\ answer \in [Requests -> {0, 200, 201, 401, 403, 404, 409, 500}]
    /\ pool \subseteq Requests \cup Others
    /\ seen \in [Requests -> SUBSET Db]
    /\ faults \in Nat
    /\ stream \in [Requests -> Streams]

\* A request is at a statement of its kind, and has a connection only then; a stream
\* begins after the answer.
InPhase(r) ==
    \/ pc[r] = "new" /\ answer[r] = 0 /\ r \notin pool
    \/ op[r] \in Operations /\ pc[r] = "ended" /\ r \notin pool
    \/ /\ op[r] \in Operations /\ pc[r] \in StepsOf[op[r].kind]
       /\ answer[r] = IF pc[r] \in StreamSteps THEN 200 ELSE 0

\* Whoever is served has an account, which nobody deletes, with a role for it.
IsAdmitted(r) ==
    Serving(r) /\ pc[r] # "caller" /\ ~ IsPublic(op[r]) =>
        /\ op[r].caller \in Accounts /\ db.accounts[op[r].caller] # NoUser
        /\ RoleOf[op[r].caller] \in Allowed(op[r])

\* A search keeps to the scope of its caller.
InScope(r) ==
    pc[r] # "new" /\ op[r].kind = "search" =>
        /\ pc[r] = "search" => hand[r] = Scope(op[r].caller)
        /\ pc[r] = "ended" /\ answer[r] = 200 =>
              /\ hand[r] \subseteq Scope(op[r].caller)
              /\ RoleOf[op[r].caller] \in {"student", "instructor", "admin"}

\* What a session has loaded was in the database at one moment of the request.
HasLoaded(r) ==
    /\ Serving(r) => db \in seen[r]
    /\ Asks(r, "login") /\ pc[r] = "verify" =>
          \E d \in seen[r] : hand[r] = {d.accounts[op[r].email]} \ {NoUser}
    /\ Asks(r, "updateMe") /\ pc[r] \in {"handle", "updated"} =>
          \E d \in seen[r] : hand[r] = {d.accounts[op[r].caller]}
    /\ Asks(r, "list") /\ pc[r] = "listed" =>
          \E d \in seen[r] : hand[r] = RowsOf(d, op[r].parent)

RequestOK(r) == InPhase(r) /\ IsAdmitted(r) /\ InScope(r) /\ HasLoaded(r) /\ AnswerIsTrue(r)

HasInsertedUser(r) == Asks(r, "register") /\ pc[r] = "inserted"

\* An address that is inserted is free until the commit, and inserted once.
KeyFree(r) ==
    HasInsertedUser(r) =>
        /\ db.accounts[op[r].email] = NoUser
        /\ \A u \in Requests \ {r} : HasInsertedUser(u) => op[u].email # op[r].email

\* So is the order_index of a row.
PlaceFree(r) ==
    Asks(r, "add") /\ pc[r] = "placed" =>
        ~Taken(db, op[r]) /\ \A u \in Requests \ {r} : ~HasInsertedAt(u, op[r])

PlacesKept == PlacesDistinct(db) /\ \A r \in Requests : PlaceFree(r)

ApiInv == TypeOK /\ \A r \in Requests : RequestOK(r) /\ KeyFree(r)

\* What the model's call has recorded.
RecordOf ==
    [none |-> <<>>, asked |-> <<>>, done |-> <<"success">>, failed |-> <<"error">>,
     cut |-> <<"cancelled">>, left |-> <<"cancelled">>]

\* A body s of a response whose generators are at statement p.
BodyAt(p, s) ==
    LET failed == \E i \in DOMAIN s.frames : s.frames[i] = "error"
    IN /\ p \notin StreamSteps \cup {"ended"} => s = NoStream
       /\ \A i \in DOMAIN s.frames :
             /\ s.frames[i] = "DONE" => i = Len(s.frames) /\ p \in {"collect", "ended"}
             /\ s.frames[i] = "error" =>
                   i = IF Closed(s.frames) THEN Len(s.frames) - 1 ELSE Len(s.frames)
       /\ failed => p \in {"close", "collect", "ended"} /\ s.model \in {"none", "failed"}
       /\ p \in {"retrieve", "canned"} => s.model = "none"
       /\ p \in {"model", "forward", "forwardLast"} => s.model = "asked"
       /\ p = "error" => s.model \in {"none", "failed"}
       /\ p = "close" \/ Closed(s.frames) =>
             s.model # "asked" /\ (s.model = "failed" => failed)
       /\ p = "ended" => s.model # "asked"
       /\ s.recorded = RecordOf[s.model]
       /\ p \in {"retrieve", "canned", "model", "error", "close"} \/ Closed(s.frames) =>
             TokensIn(s.frames) = s.tokens
       /\ p \in {"forward", "forwardLast"} => TokensIn(s.frames) + 1 = s.tokens

BodiesOK == \A r \in Requests : BodyAt(pc[r], stream[r])

-----------------------------------------------------------------------------
\* The pool is never overdrawn, although a stream takes a connection again after
\* its session has ended, and a connection is only held for a request that is
\* being served: however a request ends, rejected, failed, cut off or read to the
\* end of its stream, none is left behind (database.py:7-35, assistant.py:31-41).
ConnectionsInUse ==
    /\ IsFiniteSet(pool) /\ Cardinality(pool) <= PoolLimit
    /\ \A r \in pool \cap Requests : Serving(r)

\* Every request ends and gives its connection back, also when streams hold the
\* whole pool, clients leave and the model does not answer.
RequestsEnd ==
    <>[](\A r \in Requests : r \notin pool /\ pc[r] \in {"new", "ended"})
=============================================================================
