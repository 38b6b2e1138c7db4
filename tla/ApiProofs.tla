----------------------------- MODULE ApiProofs -----------------------------
(***************************************************************************)
(* Proofs about Api, for any number of concurrent requests, accounts,        *)
(* courses and rows, and any size of the connection pool.                    *)
(***************************************************************************)
EXTENDS Api, FiniteSetTheorems, TLAPS

PCs      == {"new", "ended"} \cup UNION {StepsOf[k] : k \in DOMAIN StepsOf}
Codes    == {0, 200, 201, 401, 403, 404, 409, 500}
Loadable == UserRow \cup Rows \cup Courses

\* The variables of HttpRequest stay in their sets.
HttpTypeOK ==
    /\ db \in Db
    /\ op \in [Requests -> Operations \cup {Nothing}]
    /\ pc \in [Requests -> PCs]
    /\ hand \in [Requests -> SUBSET Loadable]
    /\ answer \in [Requests -> Codes]
    /\ pool \subseteq Requests \cup Others
    /\ seen \in [Requests -> SUBSET Db]
    /\ faults \in Nat

\* A step of r changes nothing of the other requests.
Alone(r) ==
    \A u \in Requests \ {r} :
        /\ op'[u] = op[u] /\ pc'[u] = pc[u] /\ hand'[u] = hand[u] /\ answer'[u] = answer[u]
        /\ u \in pool' => u \in pool

\* The statements there are.
LEMMA PCsAre ==
    PCs = {"new", "ended", "caller", "handle", "hash", "inserted", "verify", "updated",
           "module", "rows", "placed", "listed", "search", "retrieve", "canned", "model",
           "forward", "forwardLast", "error", "close", "collect"}
<1>1. /\ DOMAIN StepsOf = {"register", "login", "updateMe", "add", "list", "search", "ask",
                           "generate"}
      /\ StepsOf["register"] = {"handle", "hash", "inserted"}
      /\ StepsOf["login"] = {"handle", "verify"}
      /\ StepsOf["updateMe"] = {"caller", "handle", "updated"}
      /\ StepsOf["add"] = {"caller", "handle", "module", "rows", "placed"}
      /\ StepsOf["list"] = {"caller", "handle", "module", "rows", "listed"}
      /\ StepsOf["search"] = {"caller", "handle", "search"}
      /\ StepsOf["ask"] = {"caller", "handle"} \cup StreamSteps
      /\ StepsOf["generate"] = {"caller", "handle"} \cup StreamSteps
  BY DEF StepsOf
<1> QED
  BY <1>1 DEF PCs, StreamSteps

\* A statement of r that loads rows.
LEMMA QueryDoes ==
    ASSUME HttpTypeOK, NEW r \in Requests, NEW next \in PCs, NEW loaded \in SUBSET Loadable,
           Query(r, next, loaded)
    PROVE  /\ HttpTypeOK' /\ Alone(r)
           /\ db' = db /\ seen' = seen /\ op'[r] = op[r] /\ answer'[r] = answer[r]
           /\ pc'[r] = next /\ hand'[r] = loaded
BY DEF Query, HttpTypeOK, Alone

\* An exception in r, which ends it.
LEMMA RejectDoes ==
    ASSUME HttpTypeOK, NEW r \in Requests, NEW code \in Codes,
           Reject(r, code) \/ (Leave(r, code, "ended", {}) /\ db' = db /\ seen' = seen
                               /\ faults' \in Nat)
    PROVE  /\ HttpTypeOK' /\ Alone(r)
           /\ db' = db /\ seen' = seen /\ op'[r] = op[r] /\ answer'[r] = code
           /\ pc'[r] = "ended" /\ hand'[r] = {} /\ r \notin pool'
<1>1. "ended" \in PCs
  BY DEF PCs
<1> QED
  BY <1>1 DEF Reject, Leave, HttpTypeOK, Alone

\* The commit of r and its answer, or the loss of its connection.
LEMMA CommitDoes ==
    ASSUME HttpTypeOK, NEW r \in Requests, NEW new \in Db, NEW code \in Codes,
           NEW next \in PCs, NEW result \in SUBSET Loadable,
           Commit(r, new, code, next, result)
    PROVE  /\ HttpTypeOK' /\ Alone(r) /\ op'[r] = op[r] /\ r \notin pool'
           /\ \/ /\ Commits(new)
                 /\ answer'[r] = code /\ pc'[r] = next /\ hand'[r] = result
              \/ /\ Commits(db) \/ Commits(new)
                 /\ answer'[r] = 500 /\ pc'[r] = "ended" /\ hand'[r] = {}
<1>1. "ended" \in PCs /\ 500 \in Codes
  BY DEF PCs, Codes
<1>2. ASSUME NEW x \in Db, Commits(x) PROVE db' \in Db /\ seen' \in [Requests -> SUBSET Db]
  <2>1. \A q \in Requests : (IF Serving(q) THEN seen[q] \cup {x} ELSE seen[q]) \in SUBSET Db
    BY DEF HttpTypeOK
  <2> QED
    BY <1>2, <2>1 DEF Commits
<1>3. ASSUME NEW c \in Codes, NEW n \in PCs, NEW h \in SUBSET Loadable, Leave(r, c, n, h)
      PROVE  /\ op' \in [Requests -> Operations \cup {Nothing}] /\ pc' \in [Requests -> PCs]
             /\ hand' \in [Requests -> SUBSET Loadable] /\ answer' \in [Requests -> Codes]
             /\ pool' \subseteq Requests \cup Others /\ r \notin pool'
             /\ Alone(r) /\ op'[r] = op[r]
             /\ answer'[r] = c /\ pc'[r] = n /\ hand'[r] = h
  BY <1>3 DEF Leave, HttpTypeOK, Alone
<1>4. CASE Commits(new) /\ UNCHANGED faults /\ Leave(r, code, next, result)
  BY <1>2, <1>3, <1>4 DEF HttpTypeOK
<1>5. CASE /\ faults' = faults + 1
           /\ \E outcome \in {db, new} : Commits(outcome)
           /\ Leave(r, 500, "ended", {})
  <2>1. Commits(db) \/ Commits(new)
    BY <1>5
  <2>2. db \in Db /\ faults' \in Nat
    BY <1>5 DEF HttpTypeOK
  <2>3. db' \in Db /\ seen' \in [Requests -> SUBSET Db]
    BY <1>2, <2>1, <2>2
  <2> QED
    BY <1>1, <1>3, <1>5, <2>1, <2>2, <2>3 DEF HttpTypeOK
<1> QED
  BY <1>4, <1>5 DEF Commit

\* A step of the body of a response.
LEMMA ProceedDoes ==
    ASSUME HttpTypeOK, NEW r \in Requests, NEW next \in PCs,
           pc' = [pc EXCEPT ![r] = next], UNCHANGED <<db, op, hand, answer, seen>>,
           pool' \subseteq pool, faults' \in Nat
    PROVE  /\ HttpTypeOK' /\ Alone(r)
           /\ db' = db /\ seen' = seen /\ op'[r] = op[r] /\ answer'[r] = answer[r]
           /\ pc'[r] = next /\ hand'[r] = hand[r]
BY DEF HttpTypeOK, Alone

-----------------------------------------------------------------------------
(* What a step does to the database and to the other requests               *)

\* No account and no row disappears, nor does an account change its owner.
Grows ==
    /\ \A a \in Accounts : db.accounts[a] # NoUser =>
          db'.accounts[a] # NoUser /\ db'.accounts[a].by = db.accounts[a].by
    /\ db.rows \subseteq db'.rows

\* A state is seen by all the others that are being served.
History(r) ==
    \A u \in Requests \ {r} : seen[u] \subseteq seen'[u] /\ (Serving(u) => db' \in seen'[u])

\* An account appears only where r has inserted it.
TakesOwnKey(r) ==
    \A a \in Accounts : db.accounts[a] = NoUser /\ db'.accounts[a] # NoUser =>
        HasInsertedUser(r) /\ op[r].email = a

Fits(r) == Alone(r) /\ Grows /\ History(r) /\ TakesOwnKey(r)

\* A request that takes no step is as it should be after the step of another.
LEMMA OthersKept ==
    ASSUME ApiInv, NEW r \in Requests, Fits(r), NEW u \in Requests \ {r}
    PROVE  RequestOK(u)' /\ (HasInsertedUser(u)' => db'.accounts[op'[u].email] = NoUser)
<1>0. /\ op'[u] = op[u] /\ pc'[u] = pc[u] /\ hand'[u] = hand[u] /\ answer'[u] = answer[u]
      /\ (u \in pool' => u \in pool)
      /\ seen[u] \subseteq seen'[u] /\ (Serving(u) => db' \in seen'[u])
      /\ RequestOK(u) /\ KeyFree(u)
  BY DEF Fits, Alone, History, ApiInv
<1>1. Serving(u)' <=> Serving(u)
  BY <1>0 DEF Serving
<1>2. InPhase(u)' /\ InScope(u)'
  <2>1. InPhase(u)'
    BY <1>0 DEF RequestOK, InPhase
  <2>2. InScope(u)'
    BY <1>0 DEF RequestOK, InScope
  <2> QED
    BY <2>1, <2>2
<1>3. IsAdmitted(u)'
  BY <1>0, <1>1 DEF RequestOK, IsAdmitted, Fits, Grows
<1>4. HasLoaded(u)'
  BY <1>0, <1>1 DEF RequestOK, HasLoaded, RowsOf, Asks
<1>5. AnswerIsTrue(u)'
  <2>1. \A d : /\ UserAnswerIn(u, d)' <=> UserAnswerIn(u, d)
               /\ \A c : UpdatedIn(u, c, d)' <=> UpdatedIn(u, c, d)
               /\ CurriculumAnswerIn(u, d)' <=> CurriculumAnswerIn(u, d)
    <3> TAKE d
    <3>1. UserAnswerIn(u, d)' <=> UserAnswerIn(u, d)
      BY <1>0 DEF UserAnswerIn
    <3>2. \A c : UpdatedIn(u, c, d)' <=> UpdatedIn(u, c, d)
      BY <1>0 DEF UpdatedIn
    <3>3. CourseError(u)' = CourseError(u)
      BY <1>0 DEF CourseError, CanModify, Role
    <3>4. CurriculumAnswerIn(u, d)' <=> CurriculumAnswerIn(u, d)
      BY <1>0, <3>3 DEF CurriculumAnswerIn, RowsOf, Taken, IsModuleOf
    <3> QED
      BY <3>1, <3>2, <3>4
  <2>2. ASSUME pc[u] = "ended", op[u].kind = "register", answer[u] = 201
        PROVE  \A d : d = db' => UserAnswerIn(u, d)
    <3>1. op[u].email \in Accounts
      BY <1>0, <2>2, OperationsAssumption DEF RequestOK, InPhase, IsPublic
    <3>2. UserAnswerIn(u, db)
      BY <1>0, <2>2 DEF RequestOK, AnswerIsTrue
    <3> QED
      BY <2>2, <3>1, <3>2 DEF UserAnswerIn, Fits, Grows
  <2>3. ASSUME pc[u] = "ended", op[u].kind = "add", answer[u] = 201
        PROVE  \A d : d = db' => CurriculumAnswerIn(u, d)
    <3>1. CurriculumAnswerIn(u, db)
      BY <1>0, <2>3 DEF RequestOK, AnswerIsTrue
    <3> QED
      BY <2>3, <3>1 DEF CurriculumAnswerIn, RowsOf, Fits, Grows
  <2>4. PICK e : e = db'
    OBVIOUS
  <2>5. UserAnswerIn(u, db)' <=> UserAnswerIn(u, e)
    BY <1>0, <2>4 DEF UserAnswerIn
  <2>6. CurriculumAnswerIn(u, db)' <=> CurriculumAnswerIn(u, e)
    <3>1. CourseError(u)' = CourseError(u)
      BY <1>0 DEF CourseError, CanModify, Role
    <3> QED
      BY <1>0, <2>4, <3>1 DEF CurriculumAnswerIn, RowsOf, Taken, IsModuleOf
  <2> QED
    BY <1>0, <2>1, <2>2, <2>3, <2>4, <2>5, <2>6 DEF RequestOK, AnswerIsTrue
<1>6. HasInsertedUser(u)' => db'.accounts[op'[u].email] = NoUser
  <2> SUFFICES ASSUME HasInsertedUser(u)', db'.accounts[op[u].email] # NoUser PROVE FALSE
    BY <1>0
  <2>1. HasInsertedUser(u)
    BY <1>0, <1>1 DEF HasInsertedUser, Asks
  <2>2. op[u].email \in Accounts
    BY <1>0, <2>1, OperationsAssumption DEF RequestOK, InPhase, HasInsertedUser, Asks,
       Serving, IsPublic
  <2>3. db.accounts[op[u].email] = NoUser
    BY <1>0, <2>1 DEF KeyFree
  <2>4. HasInsertedUser(r) /\ op[r].email = op[u].email
    BY <2>2, <2>3 DEF Fits, TakesOwnKey
  <2> QED
    BY <1>0, <2>1, <2>4 DEF KeyFree
<1> QED
  BY <1>2, <1>3, <1>4, <1>5, <1>6 DEF RequestOK

-----------------------------------------------------------------------------
(* What a step does to the request that takes it                            *)

\* What a step of r is to establish.
StepOK(r) ==
    /\ HttpTypeOK' /\ Fits(r) /\ RequestOK(r)'
    /\ HasInsertedUser(r)' =>
          /\ db'.accounts[op'[r].email] = NoUser
          /\ \A u \in Requests \ {r} : HasInsertedUser(u) => op[u].email # op'[r].email

\* A request that is served is at a statement of its kind.
LEMMA Served ==
    ASSUME ApiInv, NEW r \in Requests, Serving(r)
    PROVE  /\ HttpTypeOK
           /\ op[r] \in Operations /\ pc[r] \in StepsOf[op[r].kind]
           /\ op[r].kind \in {"register", "login", "updateMe", "add", "list", "search",
                              "ask", "generate"}
           /\ answer[r] = IF pc[r] \in StreamSteps THEN 200 ELSE 0
           /\ db \in seen[r]
           /\ IsPublic(op[r]) => op[r].email \in Accounts /\ op[r].password \in Passwords
           /\ ~ IsPublic(op[r]) => op[r].caller \in Accounts \cup {BadToken}
           /\ IsAdmitted(r) /\ InScope(r) /\ HasLoaded(r) /\ KeyFree(r)
<1>1. HttpTypeOK
  BY DEF ApiInv, TypeOK, HttpTypeOK, PCs, Codes, Loadable
<1>2. op[r] \in Operations /\ pc[r] \in StepsOf[op[r].kind]
      /\ answer[r] = IF pc[r] \in StreamSteps THEN 200 ELSE 0
  BY DEF ApiInv, RequestOK, InPhase, Serving
<1>3. op[r].kind \in DOMAIN StepsOf
  BY <1>2, OperationsAssumption
<1>4. DOMAIN StepsOf = {"register", "login", "updateMe", "add", "list", "search", "ask",
                        "generate"}
  BY DEF StepsOf
<1> QED
  BY <1>1, <1>2, <1>3, <1>4, OperationsAssumption DEF ApiInv, RequestOK, HasLoaded

\* The statements of each kind.
LEMMA StepsAre ==
    /\ StepsOf["register"] = {"handle", "hash", "inserted"}
    /\ StepsOf["login"] = {"handle", "verify"}
    /\ StepsOf["updateMe"] = {"caller", "handle", "updated"}
    /\ StepsOf["add"] = {"caller", "handle", "module", "rows", "placed"}
    /\ StepsOf["list"] = {"caller", "handle", "module", "rows", "listed"}
    /\ StepsOf["search"] = {"caller", "handle", "search"}
    /\ StepsOf["ask"] = {"caller", "handle"} \cup StreamSteps
    /\ StepsOf["generate"] = {"caller", "handle"} \cup StreamSteps
    /\ StreamSteps = {"retrieve", "canned", "model", "forward", "forwardLast", "error",
                      "close", "collect"}
BY DEF StepsOf, StreamSteps

\* A step that leaves the database alone, or commits nothing, fits in.
LEMMA NothingNew ==
    ASSUME ApiInv, NEW r \in Requests, Alone(r),
           Commits(db) \/ (db' = db /\ \A u \in Requests \ {r} : seen'[u] = seen[u])
    PROVE  Fits(r)
<1>1. db' = db
  BY DEF Commits
<1>2. \A u \in Requests : Serving(u) => db \in seen[u]
  BY DEF ApiInv, RequestOK, HasLoaded
<1> QED
  BY <1>1, <1>2 DEF Fits, Grows, History, TakesOwnKey, Commits

\* A request that is answered and leaves is done.
LEMMA EndedOK ==
    ASSUME ApiInv, NEW r \in Requests, Serving(r), op'[r] = op[r], pc'[r] = "ended",
           r \notin pool', AnswerIsTrue(r)', op[r].kind = "search" => answer'[r] # 200
    PROVE  RequestOK(r)' /\ ~ HasInsertedUser(r)'
<1>1. ~ Serving(r)'
  BY DEF Serving
<1>2. op'[r] \in Operations
  BY Served
<1> QED
  BY <1>1, <1>2 DEF RequestOK, InPhase, IsAdmitted, InScope, HasLoaded, HasInsertedUser, Asks

\* So is one that is answered by an exception with a code that says nothing of the
\* database, or with one that is true of it.
LEMMA RejectOK ==
    ASSUME ApiInv, NEW r \in Requests, Serving(r), NEW code \in Codes \ {0, 200, 201},
           Reject(r, code) \/ (Leave(r, code, "ended", {}) /\ db' = db /\ seen' = seen
                               /\ faults' \in Nat),
           code \in {401, 404, 409} => AnswerIsTrue(r)'
    PROVE  StepOK(r)
<1>1. HttpTypeOK
  BY Served
<1>2. /\ HttpTypeOK' /\ Alone(r) /\ db' = db /\ seen' = seen /\ op'[r] = op[r]
      /\ answer'[r] = code /\ pc'[r] = "ended" /\ r \notin pool'
  BY <1>1, RejectDoes
<1>3. AnswerIsTrue(r)'
  BY <1>2 DEF AnswerIsTrue, Codes
<1> QED
  BY <1>2, <1>3, NothingNew, EndedOK DEF StepOK, Codes

\* The steps every request takes: token, account, failures.
LEMMA DispatchOK ==
    ASSUME ApiInv, NEW r \in Requests, Dispatch(r)
    PROVE  StepOK(r)
<1>0. Serving(r)
  <2>1. \A o \in Operations : "new" \notin StepsOf[o.kind] /\ "ended" \notin StepsOf[o.kind]
    <3> TAKE o \in Operations
    <3>1. o.kind \in {"register", "login", "updateMe", "add", "list", "search", "ask", "generate"}
      BY OperationsAssumption DEF StepsOf
    <3> QED
      BY <3>1, StepsAre
  <2>2. r \in pool => Serving(r)
    BY <2>1 DEF ApiInv, RequestOK, InPhase, Serving
  <2> QED
    BY <2>2 DEF Dispatch, RejectToken, LoadCaller, StatementFails, PoolTimeout, Serving
<1>1. /\ HttpTypeOK /\ op[r] \in Operations /\ db \in seen[r]
      /\ op[r].caller \in Accounts \cup {BadToken} \/ IsPublic(op[r])
  BY <1>0, Served
<1>2. pc[r] = "caller" => ~ IsPublic(op[r])
  BY <1>0, Served, StepsAre DEF IsPublic
<1>3. CASE RejectToken(r)
  <2>1. Leave(r, 401, "ended", {}) /\ db' = db /\ seen' = seen /\ faults' = faults
    BY <1>3 DEF RejectToken
  <2>2. op'[r] = op[r] /\ answer'[r] = 401
    BY <1>1, <2>1, RejectDoes DEF Codes, HttpTypeOK
  <2>3. AnswerIsTrue(r)'
    BY <1>2, <1>3, <2>2 DEF AnswerIsTrue, RejectToken
  <2> QED
    BY <1>0, <1>1, <2>1, <2>3, RejectOK DEF Codes, HttpTypeOK
<1>4. CASE LoadCaller(r) /\ Reject(r, 401)
  <2>2. op'[r] = op[r] /\ answer'[r] = 401
    BY <1>1, <1>4, RejectDoes DEF Codes
  <2>3. AnswerIsTrue(r)'
    BY <1>2, <1>4, <2>2 DEF AnswerIsTrue, LoadCaller
  <2> QED
    BY <1>0, <1>4, <2>3, RejectOK DEF Codes
<1>5. CASE Reject(r, 403)
  BY <1>0, <1>5, RejectOK DEF Codes
<1>6. CASE StatementFails(r) \/ PoolTimeout(r)
  <2>1. Leave(r, 500, "ended", {}) /\ db' = db /\ seen' = seen /\ faults' \in Nat
    BY <1>1, <1>6 DEF StatementFails, PoolTimeout, HttpTypeOK
  <2> QED
    BY <1>0, <2>1, RejectOK DEF Codes
<1>7. ASSUME pc[r] = "caller", op[r].caller # BadToken,
             db.accounts[op[r].caller] # NoUser,
             RoleOf[op[r].caller] \in Allowed(op[r]),
             Query(r, "handle", {db.accounts[op[r].caller]})
      PROVE  StepOK(r)
  <2>1. op[r].caller \in Accounts
    BY <1>1, <1>2, <1>7
  <2>2. {db.accounts[op[r].caller]} \in SUBSET Loadable
    BY <1>1, <1>7, <2>1 DEF HttpTypeOK, Db, Loadable
  <2>3. "handle" \in PCs
    BY PCsAre
  <2>4. /\ HttpTypeOK' /\ Alone(r)
        /\ db' = db /\ seen' = seen /\ op'[r] = op[r] /\ answer'[r] = answer[r]
        /\ pc'[r] = "handle" /\ hand'[r] = {db.accounts[op[r].caller]}
    BY <1>1, <1>7, <2>2, <2>3, QueryDoes
  <2>5. Fits(r)
    BY <2>4, NothingNew
  <2>6. InPhase(r)'
    BY <1>0, <1>7, <2>4, Served, StepsAre DEF InPhase
  <2>7. IsAdmitted(r)'
    BY <1>7, <2>1, <2>4 DEF IsAdmitted
  <2>8. InScope(r)' /\ AnswerIsTrue(r)' /\ ~ HasInsertedUser(r)'
    BY <2>4 DEF InScope, AnswerIsTrue, HasInsertedUser
  <2>9. HasLoaded(r)'
    BY <1>1, <2>4 DEF HasLoaded
  <2> QED
    BY <2>4, <2>5, <2>6, <2>7, <2>8, <2>9 DEF StepOK, RequestOK
<1> QED
  BY <1>3, <1>4, <1>5, <1>6, <1>7 DEF Dispatch, LoadCaller

\* A statement that goes on after loading rows.
LEMMA QueryFits ==
    ASSUME ApiInv, NEW r \in Requests, Serving(r), NEW next \in PCs \ {"new", "ended"},
           NEW loaded \in SUBSET Loadable, Query(r, next, loaded),
           next \in StepsOf[op[r].kind], pc[r] \notin StreamSteps \/ next \in StreamSteps,
           pc[r] \in StreamSteps \/ next \notin StreamSteps
    PROVE  /\ HttpTypeOK' /\ Fits(r) /\ InPhase(r)' /\ AnswerIsTrue(r)'
           /\ db' = db /\ seen' = seen /\ op'[r] = op[r] /\ answer'[r] = answer[r]
           /\ pc'[r] = next /\ hand'[r] = loaded /\ Serving(r)' /\ db' \in seen'[r]
<1>1. HttpTypeOK /\ op[r] \in Operations /\ db \in seen[r]
      /\ answer[r] = IF pc[r] \in StreamSteps THEN 200 ELSE 0
  BY Served
<1>2. /\ HttpTypeOK' /\ Alone(r)
      /\ db' = db /\ seen' = seen /\ op'[r] = op[r] /\ answer'[r] = answer[r]
      /\ pc'[r] = next /\ hand'[r] = loaded
  BY <1>1, QueryDoes
<1>3. Fits(r)
  BY <1>2, NothingNew
<1>4. InPhase(r)'
  BY <1>1, <1>2 DEF InPhase
<1>5. AnswerIsTrue(r)' /\ Serving(r)'
  BY <1>2 DEF AnswerIsTrue, Serving
<1> QED
  BY <1>1, <1>2, <1>3, <1>4, <1>5

\* A commit that fails, or that leaves the database as it is.
LEMMA CommitFits ==
    ASSUME ApiInv, NEW r \in Requests, Serving(r), NEW new \in Db, NEW code \in Codes,
           NEW next \in PCs, NEW result \in SUBSET Loadable,
           Commit(r, new, code, next, result),
           Commits(new) => Grows /\ TakesOwnKey(r)
    PROVE  /\ HttpTypeOK' /\ Fits(r) /\ op'[r] = op[r] /\ r \notin pool'
           /\ seen[r] \cup {db'} \subseteq seen'[r]
           /\ \/ /\ db' = new
                 /\ answer'[r] = code /\ pc'[r] = next /\ hand'[r] = result
              \/ RequestOK(r)' /\ ~ HasInsertedUser(r)'
<1>1. HttpTypeOK /\ db \in seen[r]
  BY Served
<1>2. /\ HttpTypeOK' /\ Alone(r) /\ op'[r] = op[r] /\ r \notin pool'
      /\ \/ /\ Commits(new)
            /\ answer'[r] = code /\ pc'[r] = next /\ hand'[r] = result
         \/ /\ Commits(db) \/ Commits(new)
            /\ answer'[r] = 500 /\ pc'[r] = "ended" /\ hand'[r] = {}
  BY <1>1, CommitDoes
<1>3. Commits(db) \/ Commits(new)
  BY <1>2
<1>4. seen[r] \cup {db'} \subseteq seen'[r] /\ History(r)
  BY <1>3 DEF Commits, History
<1>5. Fits(r)
  BY <1>2, <1>3, <1>4, NothingNew DEF Fits
<1>6. ASSUME answer'[r] = 500, pc'[r] = "ended" PROVE RequestOK(r)' /\ ~ HasInsertedUser(r)'
  <2>1. AnswerIsTrue(r)'
    BY <1>6 DEF AnswerIsTrue
  <2> QED
    BY <1>2, <1>6, <2>1, EndedOK
<1> QED
  BY <1>2, <1>4, <1>5, <1>6 DEF Commits

\* Registration, login and the change of an account.
LEMMA UserOK ==
    ASSUME ApiInv, NEW r \in Requests, UserStep(r)
    PROVE  StepOK(r)
<1>0. Serving(r)
  BY DEF UserStep, CheckEmail, InsertUser, CommitUser, FindUser, VerifyPassword, UpdateMe,
     CommitUpdate, Asks
<1>1. /\ HttpTypeOK /\ op[r] \in Operations /\ db \in seen[r]
      /\ op[r].kind \in {"register", "login"} => op[r].email \in Accounts /\ op[r].password \in Passwords
      /\ IsAdmitted(r) /\ HasLoaded(r) /\ KeyFree(r)
  BY <1>0, Served DEF IsPublic
<1>2. {} \in SUBSET Loadable
  OBVIOUS
<1>a. \A a \in Accounts : db.accounts[a] \in UserRow \cup {NoUser}
  BY <1>1 DEF HttpTypeOK, Db
<1>3. CASE CheckEmail(r)
  <2>1. CASE db.accounts[op[r].email] # NoUser /\ Reject(r, 409)
    <3>1. op'[r] = op[r] /\ answer'[r] = 409 /\ seen' = seen /\ op[r].kind = "register"
      BY <1>1, <1>3, <2>1, RejectDoes DEF Codes, CheckEmail, Asks
    <3>2. AnswerIsTrue(r)'
      BY <1>1, <2>1, <3>1 DEF AnswerIsTrue, UserAnswerIn, IsPublic
    <3> QED
      BY <1>0, <2>1, <3>2, RejectOK DEF Codes
  <2>2. CASE Query(r, "hash", {})
    <3>1. op[r].kind = "register" /\ pc[r] = "handle"
      BY <1>3 DEF CheckEmail, Asks
    <3>2. "hash" \in PCs \ {"new", "ended"} /\ "hash" \in StepsOf[op[r].kind]
          /\ pc[r] \notin StreamSteps /\ "hash" \notin StreamSteps
      BY <3>1, PCsAre, StepsAre
    <3>3. /\ HttpTypeOK' /\ Fits(r) /\ InPhase(r)' /\ AnswerIsTrue(r)'
          /\ op'[r] = op[r] /\ pc'[r] = "hash" /\ Serving(r)' /\ db' \in seen'[r]
      BY <1>0, <1>2, <2>2, <3>2, QueryFits
    <3> QED
      BY <3>1, <3>3 DEF StepOK, RequestOK, IsAdmitted, InScope, HasLoaded, HasInsertedUser, Asks,
         IsPublic
  <2> QED
    BY <1>3, <2>1, <2>2 DEF CheckEmail
<1>4. CASE InsertUser(r)
  <2>1. CASE Reject(r, 500)
    BY <1>0, <2>1, RejectOK DEF Codes
  <2>2. CASE db.accounts[op[r].email] = NoUser /\ Query(r, "inserted", {})
    <3>1. op[r].kind = "register" /\ pc[r] = "hash"
      BY <1>4 DEF InsertUser, Asks
    <3>2. "inserted" \in PCs \ {"new", "ended"} /\ "inserted" \in StepsOf[op[r].kind]
          /\ pc[r] \notin StreamSteps /\ "inserted" \notin StreamSteps
      BY <3>1, PCsAre, StepsAre
    <3>3. /\ HttpTypeOK' /\ Fits(r) /\ InPhase(r)' /\ AnswerIsTrue(r)' /\ db' = db
          /\ op'[r] = op[r] /\ pc'[r] = "inserted" /\ Serving(r)' /\ db' \in seen'[r]
      BY <1>0, <1>2, <2>2, <3>2, QueryFits
    <3>4. RequestOK(r)'
      BY <3>1, <3>3 DEF RequestOK, IsAdmitted, InScope, HasLoaded, Asks, IsPublic
    <3>5. \A u \in Requests \ {r} : HasInsertedUser(u) => op[u].email # op[r].email
      BY <1>4 DEF InsertUser, HasInsertedUser
    <3> QED
      BY <2>2, <3>3, <3>4, <3>5 DEF StepOK
  <2> QED
    BY <1>4, <2>1, <2>2 DEF InsertUser
<1>5. CASE CommitUser(r)
  <2>1. op[r].kind = "register" /\ pc[r] = "inserted" /\ HasInsertedUser(r)
    BY <1>5 DEF CommitUser, Asks, HasInsertedUser
  <2>2. op[r].email \in Accounts /\ db.accounts[op[r].email] = NoUser
    BY <1>1, <2>1 DEF KeyFree
  <2> DEFINE row == [password |-> op[r].password, name |-> Nothing, by |-> r]
             new == [db EXCEPT !.accounts[op[r].email] = row]
  <2>3. row \in UserRow /\ row # NoUser /\ row.by = r
    BY <1>1, <2>1, UsersAssumption DEF UserRow
  <2> HIDE DEF row
  <2>4. /\ new \in Db /\ new.rows = db.rows /\ new.accounts[op[r].email] = row
        /\ \A a \in Accounts : a # op[r].email => new.accounts[a] = db.accounts[a]
    BY <1>1, <2>2, <2>3 DEF HttpTypeOK, Db
  <2>5. Commit(r, new, 201, "ended", {})
    BY <1>5 DEF CommitUser, row
  <2> HIDE DEF new
  <2>6. Commits(new) => Grows /\ TakesOwnKey(r)
    BY <2>1, <2>2, <2>3, <2>4 DEF Commits, Grows, TakesOwnKey
  <2>7. /\ HttpTypeOK' /\ Fits(r) /\ op'[r] = op[r] /\ r \notin pool'
        /\ seen[r] \cup {db'} \subseteq seen'[r]
        /\ \/ db' = new /\ answer'[r] = 201 /\ pc'[r] = "ended"
           \/ RequestOK(r)' /\ ~ HasInsertedUser(r)'
    <3>1. "ended" \in PCs /\ 201 \in Codes
      BY DEF PCs, Codes
    <3> QED
      BY <1>0, <1>2, <2>4, <2>5, <2>6, <3>1, CommitFits
  <2>8. ASSUME db' = new, answer'[r] = 201, pc'[r] = "ended"
        PROVE  RequestOK(r)' /\ ~ HasInsertedUser(r)'
    <3>0. /\ op'[r].kind = "register" /\ op'[r].email = op[r].email
          /\ db'.accounts[op[r].email] # NoUser /\ db'.accounts[op[r].email].by = r
      BY <2>1, <2>3, <2>4, <2>7, <2>8
    <3>1. \A d : d = db' => UserAnswerIn(r, d)'
      BY <2>8, <3>0 DEF UserAnswerIn
    <3>2. UserAnswerIn(r, db)'
      BY <2>8, <3>0 DEF UserAnswerIn
    <3>3. AnswerIsTrue(r)'
      BY <2>1, <2>7, <2>8, <3>1, <3>2 DEF AnswerIsTrue
    <3> QED
      BY <1>0, <2>1, <2>7, <2>8, <3>3, EndedOK
  <2> QED
    BY <2>7, <2>8 DEF StepOK
<1>6. CASE FindUser(r)
  <2> DEFINE found == {db.accounts[op[r].email]} \ {NoUser}
  <2>1. op[r].kind = "login" /\ pc[r] = "handle" /\ Query(r, "verify", found)
    BY <1>6 DEF FindUser, Asks
  <2>2. found \in SUBSET Loadable
    BY <1>1, <1>a, <2>1 DEF Loadable
  <2>3. "verify" \in PCs \ {"new", "ended"} /\ "verify" \in StepsOf[op[r].kind]
        /\ pc[r] \notin StreamSteps /\ "verify" \notin StreamSteps
    BY <2>1, PCsAre, StepsAre
  <2>4. PICK h : h = found
    OBVIOUS
  <2>5. /\ HttpTypeOK' /\ Fits(r) /\ InPhase(r)' /\ AnswerIsTrue(r)' /\ seen' = seen
        /\ op'[r] = op[r] /\ pc'[r] = "verify" /\ Serving(r)' /\ db' \in seen'[r]
        /\ hand'[r] = h
    <3> HIDE DEF found
    <3> QED
      BY <1>0, <2>1, <2>2, <2>3, <2>4, QueryFits
  <2>6. HasLoaded(r)'
    BY <1>1, <2>1, <2>4, <2>5 DEF HasLoaded, Asks
  <2> QED
    BY <2>1, <2>5, <2>6 DEF StepOK, RequestOK, IsAdmitted, InScope, HasInsertedUser, Asks, IsPublic
<1>7. CASE VerifyPassword(r)
  <2>1. op[r].kind = "login" /\ pc[r] = "verify"
    BY <1>7 DEF VerifyPassword, Asks
  <2>2. PICK d \in seen[r] : hand[r] = {d.accounts[op[r].email]} \ {NoUser}
    BY <1>0, <1>1, <2>1 DEF HasLoaded, Asks
  <2> DEFINE valid == \E row \in hand[r] : row.password = op[r].password
  <2>3. valid <=> (d.accounts[op[r].email] # NoUser
                     /\ d.accounts[op[r].email].password = op[r].password)
    BY <2>2
  <2> HIDE DEF valid
  <2>4. ASSUME op'[r] = op[r], d \in seen'[r], pc'[r] = "ended",
               answer'[r] \in {200, 401}, answer'[r] = 200 <=> valid
        PROVE  AnswerIsTrue(r)'
    <3>1. op'[r].kind = "login" /\ op'[r].email = op[r].email /\ op'[r].password = op[r].password
      BY <2>1, <2>4
    <3>2. UserAnswerIn(r, d)'
      BY <2>3, <2>4, <3>1 DEF UserAnswerIn
    <3> QED
      BY <2>4, <3>1, <3>2 DEF AnswerIsTrue
  <2>5. CASE ~ valid /\ Reject(r, 401)
    <3>1. /\ op'[r] = op[r] /\ answer'[r] = 401 /\ seen' = seen /\ pc'[r] = "ended"
      BY <1>1, <2>5, RejectDoes DEF Codes
    <3>2. AnswerIsTrue(r)'
      BY <2>2, <2>4, <2>5, <3>1
    <3> QED
      BY <1>0, <2>5, <3>2, RejectOK DEF Codes
  <2>6. CASE valid /\ Commit(r, db, 200, "ended", {})
    <3>1. "ended" \in PCs /\ 200 \in Codes /\ db \in Db
      BY <1>1 DEF PCs, Codes, HttpTypeOK
    <3>2. Commits(db) => Grows /\ TakesOwnKey(r)
      BY DEF Commits, Grows, TakesOwnKey
    <3>3. /\ HttpTypeOK' /\ Fits(r) /\ op'[r] = op[r] /\ r \notin pool'
          /\ seen[r] \cup {db'} \subseteq seen'[r]
          /\ \/ answer'[r] = 200 /\ pc'[r] = "ended"
             \/ RequestOK(r)' /\ ~ HasInsertedUser(r)'
      BY <1>0, <1>2, <2>6, <3>1, <3>2, CommitFits
    <3>4. ASSUME answer'[r] = 200, pc'[r] = "ended"
          PROVE  RequestOK(r)' /\ ~ HasInsertedUser(r)'
      <4>1. AnswerIsTrue(r)'
        BY <2>2, <2>4, <2>6, <3>3, <3>4
      <4> QED
        BY <1>0, <2>1, <3>3, <3>4, <4>1, EndedOK
    <3> QED
      BY <3>3, <3>4 DEF StepOK
  <2> QED
    BY <1>7, <2>5, <2>6 DEF VerifyPassword, valid
<1>8. ASSUME op[r].kind = "updateMe", pc[r] \in {"handle", "updated"}
      PROVE  /\ op[r].caller \in Accounts /\ db.accounts[op[r].caller] \in UserRow
             /\ ~ IsPublic(op[r]) /\ RoleOf[op[r].caller] \in Allowed(op[r])
             /\ op[r].set["password"] \in Passwords \cup {Nothing}
             /\ op[r].set["name"] \in Names \cup {Nothing}
  BY <1>0, <1>1, <1>a, <1>8, OperationsAssumption DEF IsAdmitted, IsPublic
<1>9. CASE UpdateMe(r)
  <2>1. op[r].kind = "updateMe" /\ pc[r] = "handle" /\ Query(r, "updated", hand[r])
    BY <1>9 DEF UpdateMe, Asks
  <2>2. hand[r] \in SUBSET Loadable
    BY <1>1 DEF HttpTypeOK
  <2>3. "updated" \in PCs \ {"new", "ended"} /\ "updated" \in StepsOf[op[r].kind]
        /\ pc[r] \notin StreamSteps /\ "updated" \notin StreamSteps
    BY <2>1, PCsAre, StepsAre
  <2>4. /\ HttpTypeOK' /\ Fits(r) /\ InPhase(r)' /\ AnswerIsTrue(r)' /\ seen' = seen /\ db' = db
        /\ op'[r] = op[r] /\ pc'[r] = "updated" /\ Serving(r)' /\ db' \in seen'[r]
        /\ hand'[r] = hand[r]
    BY <1>0, <2>1, <2>2, <2>3, QueryFits
  <2>5. HasLoaded(r)'
    BY <1>0, <1>1, <2>1, <2>4 DEF HasLoaded, Asks
  <2>6. IsAdmitted(r)'
    BY <1>0, <1>1, <2>1, <2>4 DEF IsAdmitted
  <2> QED
    BY <2>1, <2>4, <2>5, <2>6 DEF StepOK, RequestOK, InScope, HasInsertedUser, Asks
<1>10. CASE CommitUpdate(r)
  <2>1. op[r].kind = "updateMe" /\ pc[r] = "updated"
    BY <1>10 DEF CommitUpdate, Asks
  <2>2. PICK d \in seen[r] : hand[r] = {d.accounts[op[r].caller]}
    BY <1>0, <1>1, <2>1 DEF HasLoaded, Asks
  <2> DEFINE a == op[r].caller
             old == db.accounts[a]
             row == [c \in DOMAIN old |-> IF c \in Changed(r) THEN op[r].set[c] ELSE old[c]]
             new == [db EXCEPT !.accounts[a] = row]
  <2>3. /\ a \in Accounts /\ old \in UserRow /\ old # NoUser
        /\ DOMAIN old = {"password", "name", "by"}
        /\ Changed(r) \subseteq {"password", "name"}
        /\ \A c \in Changed(r) : op[r].set[c] # Nothing
    BY <1>8, <2>1, UsersAssumption DEF UserRow, Changed
  <2>4. /\ row \in UserRow /\ row # NoUser /\ row.by = old.by
        /\ \A c \in Changed(r) : row[c] = op[r].set[c]
    <3>1. /\ (IF "password" \in Changed(r) THEN op[r].set["password"] ELSE old["password"]) \in Passwords
          /\ (IF "name" \in Changed(r) THEN op[r].set["name"] ELSE old["name"]) \in Names \cup {Nothing}
          /\ old["by"] \in Requests \cup {Nothing} /\ "by" \notin Changed(r)
      BY <1>8, <2>1, <2>3 DEF UserRow
    <3>2. /\ row = [password |-> row["password"], name |-> row["name"], by |-> row["by"]]
          /\ row["password"] \in Passwords /\ row["name"] \in Names \cup {Nothing}
          /\ row["by"] = old["by"]
      BY <2>3, <3>1
    <3>3. row \in UserRow
      BY <3>1, <3>2 DEF UserRow
    <3> QED
      BY <2>3, <3>2, <3>3, UsersAssumption
  <2> HIDE DEF row
  <2>5. /\ new \in Db /\ new.rows = db.rows /\ new.accounts[a] = row
        /\ \A b \in Accounts : b # a => new.accounts[b] = db.accounts[b]
    BY <1>1, <2>3, <2>4 DEF HttpTypeOK, Db
  <2>6. Commit(r, new, 200, "ended", {})
    BY <1>10 DEF CommitUpdate, row
  <2> HIDE DEF new
  <2>7. Commits(new) => Grows /\ TakesOwnKey(r)
    BY <2>3, <2>4, <2>5 DEF Commits, Grows, TakesOwnKey
  <2>8. /\ HttpTypeOK' /\ Fits(r) /\ op'[r] = op[r] /\ r \notin pool'
        /\ seen[r] \cup {db'} \subseteq seen'[r]
        /\ \/ db' = new /\ answer'[r] = 200 /\ pc'[r] = "ended"
           \/ RequestOK(r)' /\ ~ HasInsertedUser(r)'
    <3>1. "ended" \in PCs /\ 200 \in Codes
      BY DEF PCs, Codes
    <3> QED
      BY <1>0, <1>2, <2>5, <2>6, <2>7, <3>1, CommitFits
  <2>9. ASSUME db' = new, answer'[r] = 200, pc'[r] = "ended"
        PROVE  RequestOK(r)' /\ ~ HasInsertedUser(r)'
    <3>1. ASSUME NEW c \in {"password", "name"}
          PROVE  \E e \in seen'[r] : op[r].set[c] \in {Nothing, e.accounts[a][c]}
      <4>1. CASE c \in Changed(r)
        <5>1. db'.accounts[a][c] = op[r].set[c]
          BY <2>4, <2>5, <2>9, <4>1
        <5> QED
          BY <2>8, <5>1
      <4>2. CASE op[r].set[c] = Nothing
        BY <2>8, <4>2
      <4>3. CASE c \notin Changed(r) /\ op[r].set[c] # Nothing
        <5>1. c = "name" /\ op[r].set[c] = d.accounts[a].name
          BY <2>2, <4>3 DEF Changed
        <5> QED
          BY <2>8, <5>1
      <4> QED
        BY <4>1, <4>2, <4>3
    <3>2. \A c \in {"password", "name"} : \E e \in seen'[r] : UpdatedIn(r, c, e)'
      BY <2>8, <3>1 DEF UpdatedIn
    <3>3. AnswerIsTrue(r)'
      BY <2>1, <2>8, <2>9, <3>2 DEF AnswerIsTrue, IsPublic
    <3> QED
      BY <1>0, <2>1, <2>8, <2>9, <3>3, EndedOK
  <2> QED
    BY <2>8, <2>9 DEF StepOK
<1> QED
  BY <1>3, <1>4, <1>5, <1>6, <1>7, <1>9, <1>10 DEF UserStep

\* Adding and listing modules and lessons.
LEMMA CurriculumOK ==
    ASSUME ApiInv, NEW r \in Requests, CurriculumStep(r)
    PROVE  StepOK(r)
<1>0. Serving(r)
  BY DEF CurriculumStep, CheckCourse, CheckModule, InsertRow, CommitRow, ListRows, AnswerList,
     Asks, Serving
<1>1. /\ HttpTypeOK /\ op[r] \in Operations /\ db \in seen[r]
      /\ IsAdmitted(r) /\ HasLoaded(r)
  BY <1>0, Served
<1>2. {} \in SUBSET Loadable
  OBVIOUS
<1>3. op[r].kind \in {"add", "list"} /\ pc[r] \notin StreamSteps /\ ~ IsPublic(op[r])
  <2>1. \/ op[r].kind \in {"add", "list"} /\ pc[r] \in {"handle", "rows", "placed", "listed"}
        \/ pc[r] = "module"
    BY DEF CurriculumStep, CheckCourse, CheckModule, InsertRow, CommitRow, ListRows,
       AnswerList, Asks
  <2>2. pc[r] = "module" => op[r].kind \in {"add", "list"}
    BY <1>0, Served, StepsAre
  <2> QED
    BY <2>1, <2>2 DEF StreamSteps, IsPublic
\* A statement that goes on.
<1>4. ASSUME NEW next \in {"module", "rows", "placed", "listed"},
             NEW loaded \in SUBSET Loadable, Query(r, next, loaded),
             next \in StepsOf[op[r].kind], pc[r] # "caller",
             op[r].kind = "list" /\ next = "listed" => loaded = RowsOf(db, op[r].parent)
      PROVE  StepOK(r)
  <2>1. next \in PCs \ {"new", "ended"} /\ next \notin StreamSteps
    BY PCsAre, StepsAre
  <2>2. /\ HttpTypeOK' /\ Fits(r) /\ InPhase(r)' /\ AnswerIsTrue(r)' /\ db' = db /\ seen' = seen
        /\ op'[r] = op[r] /\ pc'[r] = next /\ Serving(r)' /\ hand'[r] = loaded
    BY <1>0, <1>3, <1>4, <2>1, QueryFits
  <2>3. HasLoaded(r)'
    BY <1>1, <1>3, <1>4, <2>2 DEF HasLoaded, Asks, RowsOf
  <2>4. IsAdmitted(r)'
    BY <1>0, <1>1, <1>3, <1>4, <2>2 DEF IsAdmitted
  <2> QED
    BY <1>3, <2>2, <2>3, <2>4 DEF StepOK, RequestOK, InScope, HasInsertedUser, Asks
<1>5. ASSUME op'[r] = op[r] PROVE CourseError(r)' = CourseError(r)
  BY <1>5 DEF CourseError, CanModify, Role
\* An exception that ends the request.
<1>6. ASSUME NEW code \in {403, 404, 409}, Reject(r, code),
             code = 404 => CourseError(r) # 0 \/ ~ IsModuleOf(db, op[r].parent, op[r].course),
             code = 409 => Taken(db, op[r])
      PROVE  StepOK(r)
  <2>1. op'[r] = op[r] /\ answer'[r] = code /\ seen' = seen
    BY <1>1, <1>6, RejectDoes DEF Codes
  <2>2. PICK d : d = db
    OBVIOUS
  <2>3. CurriculumAnswerIn(r, d)'
    BY <1>5, <1>6, <2>1, <2>2 DEF CurriculumAnswerIn, IsModuleOf, Taken, RowsOf
  <2>4. AnswerIsTrue(r)'
    BY <1>1, <1>3, <1>6, <2>1, <2>2, <2>3 DEF AnswerIsTrue, IsPublic
  <2> QED
    BY <1>0, <1>6, <2>4, RejectOK DEF Codes
<1>7. CASE CheckCourse(r)
  <2>1. pc[r] = "handle"
    BY <1>7 DEF CheckCourse
  <2>2. CourseError(r) \in {0, 403, 404}
    BY DEF CourseError
  <2>3. CASE CourseError(r) # 0
    BY <1>6, <1>7, <2>2, <2>3 DEF CheckCourse
  <2>4. CASE CourseError(r) = 0
    BY <1>2, <1>3, <1>4, <1>7, <2>1, <2>4, StepsAre DEF CheckCourse
  <2> QED
    BY <2>3, <2>4
<1>8. CASE CheckModule(r)
  BY <1>2, <1>3, <1>4, <1>6, <1>8, StepsAre DEF CheckModule
<1>9. CASE InsertRow(r)
  BY <1>2, <1>3, <1>4, <1>6, <1>9, StepsAre DEF InsertRow, Asks
<1>10. CASE ListRows(r)
  <2>1. RowsOf(db, op[r].parent) \in SUBSET Loadable
    BY <1>1 DEF HttpTypeOK, Db, RowsOf, Loadable
  <2> QED
    BY <1>4, <1>10, <2>1, StepsAre DEF ListRows, Asks
<1>11. CASE AnswerList(r)
  <2>1. op[r].kind = "list" /\ pc[r] = "listed" /\ Commit(r, db, 200, "ended", hand[r])
    BY <1>11 DEF AnswerList, Asks
  <2>2. PICK d \in seen[r] : hand[r] = RowsOf(d, op[r].parent)
    BY <1>0, <1>1, <2>1 DEF HasLoaded, Asks
  <2>3. "ended" \in PCs /\ 200 \in Codes /\ db \in Db /\ hand[r] \in SUBSET Loadable
    BY <1>1 DEF PCs, Codes, HttpTypeOK
  <2>4. Commits(db) => Grows /\ TakesOwnKey(r)
    BY DEF Commits, Grows, TakesOwnKey
  <2>5. /\ HttpTypeOK' /\ Fits(r) /\ op'[r] = op[r] /\ r \notin pool'
        /\ seen[r] \cup {db'} \subseteq seen'[r]
        /\ \/ answer'[r] = 200 /\ pc'[r] = "ended" /\ hand'[r] = hand[r]
           \/ RequestOK(r)' /\ ~ HasInsertedUser(r)'
    BY <1>0, <2>1, <2>3, <2>4, CommitFits
  <2>6. ASSUME answer'[r] = 200, pc'[r] = "ended", hand'[r] = hand[r]
        PROVE  RequestOK(r)' /\ ~ HasInsertedUser(r)'
    <3>1. CurriculumAnswerIn(r, d)'
      BY <2>2, <2>5, <2>6 DEF CurriculumAnswerIn, RowsOf
    <3>2. AnswerIsTrue(r)'
      BY <2>1, <2>2, <2>5, <2>6, <3>1 DEF AnswerIsTrue, IsPublic
    <3> QED
      BY <1>0, <2>1, <2>5, <2>6, <3>2, EndedOK
  <2> QED
    BY <2>5, <2>6 DEF StepOK
<1>12. CASE CommitRow(r)
  <2> DEFINE row == [parent |-> op[r].parent, position |-> op[r].position, id |-> r]
             new == [db EXCEPT !.rows = @ \cup {row}]
  <2>1. op[r].kind = "add" /\ pc[r] = "placed" /\ Commit(r, new, 201, "ended", {})
    BY <1>12 DEF CommitRow, Asks
  <2>2. row \in Rows
    BY <1>1, <2>1 DEF Rows
  <2>3. /\ row.parent = op[r].parent /\ row.position = op[r].position /\ row.id = r
    OBVIOUS
  <2> HIDE DEF row
  <2>4. new \in Db /\ new.accounts = db.accounts /\ new.rows = db.rows \cup {row}
    BY <1>1, <2>2 DEF HttpTypeOK, Db
  <2> HIDE DEF new
  <2>5. Commits(new) => Grows /\ TakesOwnKey(r)
    BY <2>4 DEF Commits, Grows, TakesOwnKey
  <2>6. /\ HttpTypeOK' /\ Fits(r) /\ op'[r] = op[r] /\ r \notin pool'
        /\ seen[r] \cup {db'} \subseteq seen'[r]
        /\ \/ db' = new /\ answer'[r] = 201 /\ pc'[r] = "ended"
           \/ RequestOK(r)' /\ ~ HasInsertedUser(r)'
    <3>1. "ended" \in PCs /\ 201 \in Codes
      BY DEF PCs, Codes
    <3> QED
      BY <1>0, <1>2, <2>1, <2>4, <2>5, <3>1, CommitFits
  <2>7. ASSUME db' = new, answer'[r] = 201, pc'[r] = "ended"
        PROVE  RequestOK(r)' /\ ~ HasInsertedUser(r)'
    <3>1. PICK w \in db'.rows : w.parent = op[r].parent /\ w.position = op[r].position /\ w.id = r
      BY <2>3, <2>4, <2>7
    <3>2. \A d : d = db' => CurriculumAnswerIn(r, d)'
      BY <2>6, <2>7, <3>1 DEF CurriculumAnswerIn, RowsOf
    <3>3. CurriculumAnswerIn(r, db)'
      BY <2>6, <2>7, <3>1 DEF CurriculumAnswerIn, RowsOf
    <3>4. AnswerIsTrue(r)'
      BY <2>1, <2>6, <2>7, <3>2, <3>3 DEF AnswerIsTrue, IsPublic
    <3> QED
      BY <1>0, <2>1, <2>6, <2>7, <3>4, EndedOK
  <2> QED
    BY <2>6, <2>7 DEF StepOK
<1> QED
  BY <1>7, <1>8, <1>9, <1>10, <1>11, <1>12 DEF CurriculumStep

\* The courses a search may look into exist.
LEMMA ScopeIs ==
    ASSUME NEW caller \in Accounts, RoleOf[caller] \in {"student", "instructor", "admin"}
    PROVE  /\ Scope(caller) \subseteq Courses
           /\ \A c \in Scope(caller) :
                 \/ RoleOf[caller] = "admin" \/ CourseOwner[c] = caller
                 \/ c \in EnrolledIn[caller]
<1>1. CASE RoleOf[caller] = "admin"
  <2>1. Scope(caller) = DOMAIN CourseOwner
    BY <1>1 DEF Scope
  <2> QED
    BY <1>1, <2>1 DEF Courses
<1>2. CASE RoleOf[caller] = "instructor"
  <2>1. Scope(caller) = {c \in DOMAIN CourseOwner : CourseOwner[c] = caller}
    BY <1>2 DEF Scope
  <2> QED
    BY <2>1 DEF Courses
<1>3. CASE RoleOf[caller] = "student"
  <2>1. Scope(caller) = EnrolledIn[caller]
    BY <1>3 DEF Scope
  <2> QED
    BY <2>1 DEF Courses
<1> QED
  BY <1>1, <1>2, <1>3

\* A step of a stream changes nothing but the stream.
LEMMA StreamStepOK ==
    ASSUME ApiInv, NEW r \in Requests, pc[r] \in StreamSteps,
           NEW next \in StreamSteps \cup {"ended"}, pc' = [pc EXCEPT ![r] = next],
           UNCHANGED <<db, op, answer, seen>>, faults' \in Nat,
           hand' = hand \/ hand' = [hand EXCEPT ![r] = {}],
           pool' \subseteq pool \cup {r} /\ (next = "ended" => pool' = pool \ {r})
    PROVE  StepOK(r)
<1>0. Serving(r)
  BY StepsAre DEF Serving
<1>1. /\ HttpTypeOK /\ op[r] \in Operations /\ db \in seen[r] /\ answer[r] = 200
      /\ op[r].kind \in {"ask", "generate"} /\ IsAdmitted(r)
  BY <1>0, Served, StepsAre
<1>2. next \in PCs
  BY PCsAre, StepsAre
<1>3. /\ HttpTypeOK' /\ Alone(r) /\ op'[r] = op[r] /\ answer'[r] = 200 /\ pc'[r] = next
  BY <1>1, <1>2 DEF HttpTypeOK, Alone
<1>4. Fits(r)
  BY <1>3, NothingNew
<1>5. InPhase(r)'
  BY <1>1, <1>3, StepsAre DEF InPhase
<1>6. IsAdmitted(r)'
  BY <1>0, <1>1, <1>3, StepsAre DEF IsAdmitted
<1>7. InScope(r)' /\ HasLoaded(r)' /\ AnswerIsTrue(r)' /\ ~ HasInsertedUser(r)'
  BY <1>1, <1>3 DEF InScope, HasLoaded, AnswerIsTrue, HasInsertedUser, Asks, IsPublic
<1> QED
  BY <1>3, <1>4, <1>5, <1>6, <1>7 DEF StepOK, RequestOK

\* Search and the assistant, and a client that goes away.
LEMMA AssistantOK ==
    ASSUME ApiInv, NEW r \in Requests, AssistantStep(r) \/ Disconnect(r)
    PROVE  StepOK(r)
<1>1. HttpTypeOK
  BY DEF ApiInv, TypeOK, HttpTypeOK, PCs, Codes, Loadable
<1>2. {} \in SUBSET Loadable
  OBVIOUS
<1>3. CASE ReadScope(r)
  <2>0. Serving(r)
    BY <1>3 DEF ReadScope, Asks
  <2> DEFINE scope == Scope(op[r].caller)
  <2>1. op[r].kind = "search" /\ pc[r] = "handle" /\ Query(r, "search", scope)
    BY <1>3 DEF ReadScope, Asks
  <2>2. /\ op[r].caller \in Accounts /\ IsAdmitted(r) /\ ~ IsPublic(op[r])
        /\ RoleOf[op[r].caller] \in {"student", "instructor", "admin"}
    BY <2>0, <2>1, Served DEF IsAdmitted, IsPublic, Allowed
  <2>3. scope \in SUBSET Loadable
    BY <2>2, ScopeIs DEF Loadable
  <2>4. "search" \in PCs \ {"new", "ended"} /\ "search" \in StepsOf[op[r].kind]
        /\ pc[r] \notin StreamSteps /\ "search" \notin StreamSteps
    BY <2>1, PCsAre, StepsAre
  <2>5. PICK h : h = scope
    OBVIOUS
  <2> HIDE DEF scope
  <2>6. /\ HttpTypeOK' /\ Fits(r) /\ InPhase(r)' /\ AnswerIsTrue(r)' /\ db' = db /\ seen' = seen
        /\ op'[r] = op[r] /\ pc'[r] = "search" /\ Serving(r)' /\ db' \in seen'[r]
        /\ hand'[r] = h
    BY <2>0, <2>1, <2>3, <2>4, <2>5, QueryFits
  <2>7. InScope(r)'
    BY <2>1, <2>5, <2>6 DEF InScope, scope
  <2>8. IsAdmitted(r)'
    BY <2>0, <2>1, <2>2, <2>6 DEF IsAdmitted
  <2> QED
    BY <2>1, <2>6, <2>7, <2>8 DEF StepOK, RequestOK, HasLoaded, HasInsertedUser, Asks
<1>4. CASE Search(r)
  <2>0. Serving(r)
    BY <1>4 DEF Search, Asks
  <2>1. PICK hits \in SUBSET Searchable(hand[r]) : Commit(r, db, 200, "ended", hits)
    BY <1>4 DEF Search
  <2>2. /\ op[r].kind = "search" /\ pc[r] = "search" /\ hand[r] = Scope(op[r].caller)
        /\ RoleOf[op[r].caller] \in {"student", "instructor", "admin"}
        /\ ~ IsPublic(op[r]) /\ op[r] \in Operations
    BY <1>4, <2>0, Served DEF Search, Asks, InScope, IsAdmitted, IsPublic, Allowed
  <2>3. hits \subseteq hand[r] /\ hits \in SUBSET Loadable
    BY <1>1 DEF Searchable, HttpTypeOK
  <2>4. "ended" \in PCs /\ 200 \in Codes /\ db \in Db
    BY <1>1 DEF PCs, Codes, HttpTypeOK
  <2>5. Commits(db) => Grows /\ TakesOwnKey(r)
    BY DEF Commits, Grows, TakesOwnKey
  <2>6. /\ HttpTypeOK' /\ Fits(r) /\ op'[r] = op[r] /\ r \notin pool'
        /\ \/ answer'[r] = 200 /\ pc'[r] = "ended" /\ hand'[r] = hits
           \/ RequestOK(r)' /\ ~ HasInsertedUser(r)'
    BY <2>0, <2>1, <2>3, <2>4, <2>5, CommitFits
  <2>7. ASSUME answer'[r] = 200, pc'[r] = "ended", hand'[r] = hits
        PROVE  RequestOK(r)' /\ ~ HasInsertedUser(r)'
    <3>1. InScope(r)'
      BY <2>2, <2>3, <2>6, <2>7 DEF InScope
    <3>2. AnswerIsTrue(r)' /\ InPhase(r)' /\ ~ Serving(r)'
      BY <2>2, <2>6, <2>7 DEF AnswerIsTrue, InPhase, Serving, IsPublic
    <3> QED
      BY <3>1, <3>2 DEF RequestOK, IsAdmitted, HasLoaded, HasInsertedUser, Asks
  <2> QED
    BY <2>6, <2>7 DEF StepOK
<1>5. ASSUME Serving(r), Respond(r), op[r].kind \in {"ask", "generate"}, pc[r] = "handle"
      PROVE  StepOK(r)
  <2>1. "retrieve" \in PCs /\ 200 \in Codes /\ db \in Db
    BY <1>1, PCsAre DEF Codes, HttpTypeOK
  <2>2. Commits(db) => Grows /\ TakesOwnKey(r)
    BY DEF Commits, Grows, TakesOwnKey
  <2>3. /\ HttpTypeOK' /\ Fits(r) /\ op'[r] = op[r] /\ db' \in seen'[r]
        /\ \/ db' = db /\ answer'[r] = 200 /\ pc'[r] = "retrieve"
           \/ RequestOK(r)' /\ ~ HasInsertedUser(r)'
    BY <1>2, <1>5, <2>1, <2>2, CommitFits DEF Respond
  <2>4. ASSUME db' = db, answer'[r] = 200, pc'[r] = "retrieve"
        PROVE  RequestOK(r)' /\ ~ HasInsertedUser(r)'
    <3>1. op[r] \in Operations /\ IsAdmitted(r)
      BY <1>5, Served
    <3>2. InPhase(r)'
      BY <1>5, <2>3, <2>4, <3>1, StepsAre DEF InPhase
    <3>3. IsAdmitted(r)'
      BY <1>5, <2>3, <2>4, <3>1 DEF IsAdmitted, Serving
    <3> QED
      BY <1>5, <2>3, <2>4, <3>2, <3>3
         DEF RequestOK, InScope, HasLoaded, AnswerIsTrue, HasInsertedUser, Asks
  <2> QED
    BY <2>3, <2>4 DEF StepOK
<1>6. CASE Ask(r)
  BY <1>5, <1>6 DEF Ask, Asks
<1>7. CASE Generate(r)
  <2>1. Serving(r) /\ op[r].kind = "generate" /\ pc[r] = "handle"
        /\ (Reject(r, 404) \/ Reject(r, 403) \/ Respond(r))
    BY <1>7 DEF Generate, Asks
  <2>2. CASE Reject(r, 404)
    <3>1. op'[r] = op[r] /\ pc'[r] = "ended"
      BY <1>1, <2>2, RejectDoes DEF Codes
    <3>2. AnswerIsTrue(r)'
      BY <2>1, <3>1 DEF AnswerIsTrue, IsPublic
    <3> QED
      BY <2>1, <2>2, <3>2, RejectOK DEF Codes
  <2>3. CASE Reject(r, 403)
    BY <2>1, <2>3, RejectOK DEF Codes
  <2> QED
    BY <1>5, <2>1, <2>2, <2>3
<1>8. ASSUME pc[r] \in StreamSteps,
             \/ \E next \in StreamSteps : Proceed(r, next) \/ Query(r, next, {})
             \/ RetrieveFails(r) \/ Collect(r)
      PROVE  StepOK(r)
  <2>1. faults \in Nat
    BY <1>1 DEF HttpTypeOK
  <2>2. CASE \E next \in StreamSteps : Proceed(r, next)
    BY <1>8, <2>1, <2>2, StreamStepOK, StepsAre DEF Proceed
  <2>3. CASE \E next \in StreamSteps : Query(r, next, {})
    BY <1>8, <2>1, <2>3, StreamStepOK, StepsAre DEF Query
  <2>4. CASE RetrieveFails(r)
    <3>1. "error" \in StreamSteps
      BY StepsAre
    <3>2. /\ pc' = [pc EXCEPT ![r] = "error"] /\ hand' = hand
          /\ pool' \subseteq pool \cup {r} /\ "error" # "ended"
          /\ UNCHANGED <<db, op, answer, seen>>
      BY <2>4 DEF RetrieveFails
    <3>3. faults' \in Nat
      BY <2>1, <2>4 DEF RetrieveFails
    <3> QED
      BY <1>8, <3>1, <3>2, <3>3, StreamStepOK
  <2>5. CASE Collect(r)
    BY <1>8, <2>1, <2>5, StreamStepOK DEF Collect
  <2> QED
    BY <1>8, <2>2, <2>3, <2>4, <2>5
<1>9. CASE \/ Retrieve(r) \/ RetrieveFails(r) \/ SendCanned(r)
           \/ ReadToken(r) \/ ForwardToken(r) \/ ReadDone(r) \/ ModelCut(r) \/ ModelFails(r)
           \/ SendError(r) \/ Close(r) \/ Collect(r) \/ Disconnect(r)
  BY <1>8, <1>9, StepsAre DEF Retrieve, RetrieveFails, SendCanned, ReadToken, ForwardToken,
     ReadDone, ModelCut, ModelFails, SendError, Close, Collect, Disconnect
<1> QED
  BY <1>3, <1>4, <1>6, <1>7, <1>9 DEF AssistantStep

\* A request arrives.
LEMMA ArriveOK ==
    ASSUME ApiInv, NEW r \in Requests, Start(r)
    PROVE  StepOK(r)
<1>1. HttpTypeOK
  BY DEF ApiInv, TypeOK, HttpTypeOK, PCs, Codes, Loadable
<1>2. PICK o \in Operations :
          /\ op' = [op EXCEPT ![r] = o]
          /\ pc' = [pc EXCEPT ![r] = IF IsPublic(o) THEN "handle" ELSE "caller"]
  BY DEF Start
<1>3. /\ "handle" \in StepsOf[o.kind] /\ (~ IsPublic(o) => "caller" \in StepsOf[o.kind])
      /\ "new" \notin StepsOf[o.kind]
      /\ o.kind \in {"register", "login", "updateMe", "add", "list", "search", "ask", "generate"}
  <2>1. o.kind \in {"register", "login", "updateMe", "add", "list", "search", "ask", "generate"}
    BY OperationsAssumption DEF StepsOf
  <2> QED
    BY <2>1, StepsAre DEF IsPublic
<1>4. /\ db' = db /\ hand' = hand /\ answer' = answer /\ pool' = pool /\ faults' = faults
      /\ seen' = [seen EXCEPT ![r] = {db}]
  BY DEF Start
<1>5. op'[r] = o /\ pc'[r] = (IF IsPublic(o) THEN "handle" ELSE "caller") /\ seen'[r] = {db}
  BY <1>1, <1>2, <1>4 DEF HttpTypeOK
<1>6. "handle" \in PCs /\ "caller" \in PCs
  BY PCsAre
<1>7. HttpTypeOK' /\ Alone(r) /\ (\A u \in Requests \ {r} : seen'[u] = seen[u])
  BY <1>1, <1>2, <1>4, <1>6 DEF HttpTypeOK, Alone
<1>8. Fits(r)
  BY <1>4, <1>7, NothingNew
<1>9. answer[r] = 0
  <2>1. pc[r] = "new" /\ InPhase(r)
    BY DEF Start, ApiInv, RequestOK
  <2>2. \A q \in Operations : "new" \notin StepsOf[q.kind]
    <3> TAKE q \in Operations
    <3>1. q.kind \in {"register", "login", "updateMe", "add", "list", "search", "ask", "generate"}
      BY OperationsAssumption DEF StepsOf
    <3> QED
      BY <3>1, StepsAre
  <2> QED
    BY <2>1, <2>2 DEF InPhase
<1>10. InPhase(r)'
  BY <1>3, <1>4, <1>5, <1>9, StepsAre DEF InPhase
<1>11. IsAdmitted(r)' /\ InScope(r)'
  BY <1>5 DEF IsAdmitted, InScope
<1>12. HasLoaded(r)'
  BY <1>4, <1>5 DEF HasLoaded, Asks, IsPublic
<1>13. AnswerIsTrue(r)' /\ ~ HasInsertedUser(r)'
  BY <1>5 DEF AnswerIsTrue, HasInsertedUser
<1> QED
  BY <1>7, <1>8, <1>10, <1>11, <1>12, <1>13 DEF StepOK, RequestOK

\* Whatever the other requests do with the pool, these are as they were.
LEMMA UnmovedOK ==
    ASSUME ApiInv, UNCHANGED <<db, op, pc, hand, answer, seen>>,
           NEW r \in Requests, r \in pool' => r \in pool
    PROVE  RequestOK(r)' /\ KeyFree(r)'
<1>0. RequestOK(r) /\ KeyFree(r)
  BY DEF ApiInv
<1>1. InPhase(r)' /\ IsAdmitted(r)'
  BY <1>0 DEF RequestOK, InPhase, IsAdmitted, Serving
<1>2. InScope(r)'
  BY <1>0 DEF RequestOK, InScope
<1>3. HasLoaded(r)'
  BY <1>0 DEF RequestOK, HasLoaded, Serving, Asks, RowsOf
<1>4. AnswerIsTrue(r)'
  <2>1. PICK e : e = db'
    OBVIOUS
  <2>2. CourseError(r)' = CourseError(r)
    BY DEF CourseError, CanModify, Role
  <2>3. \A d : (UserAnswerIn(r, d)' <=> UserAnswerIn(r, d))
               /\ \A c : UpdatedIn(r, c, d)' <=> UpdatedIn(r, c, d)
    BY DEF UserAnswerIn, UpdatedIn
  <2>4. \A d : CurriculumAnswerIn(r, d)' <=> CurriculumAnswerIn(r, d)
    BY <2>2 DEF CurriculumAnswerIn, RowsOf, Taken, IsModuleOf
  <2>5. (UserAnswerIn(r, db)' <=> UserAnswerIn(r, e))
        /\ (CurriculumAnswerIn(r, db)' <=> CurriculumAnswerIn(r, e))
    BY <2>1, <2>2 DEF UserAnswerIn, CurriculumAnswerIn, RowsOf, Taken, IsModuleOf
  <2> QED
    BY <1>0, <2>1, <2>3, <2>4, <2>5 DEF RequestOK, AnswerIsTrue
<1>5. KeyFree(r)'
  BY <1>0 DEF KeyFree, HasInsertedUser, Asks, Serving
<1> QED
  BY <1>1, <1>2, <1>3, <1>4, <1>5 DEF RequestOK

\* A step of r keeps all the requests as they should be.
LEMMA AllKept ==
    ASSUME ApiInv, NEW r \in Requests, StepOK(r)
    PROVE  HttpTypeOK' /\ \A u \in Requests : RequestOK(u)' /\ KeyFree(u)'
<1>1. \A u \in Requests \ {r} : /\ RequestOK(u)'
                                /\ HasInsertedUser(u)' => db'.accounts[op'[u].email] = NoUser
  BY OthersKept DEF StepOK
<1>2. \A u \in Requests \ {r} : op'[u] = op[u] /\ (HasInsertedUser(u)' <=> HasInsertedUser(u))
  BY DEF StepOK, Fits, Alone, HasInsertedUser, Asks, Serving
<1>3. \A u \in Requests : KeyFree(u)'
  <2> SUFFICES ASSUME NEW u \in Requests, HasInsertedUser(u)'
               PROVE  /\ db'.accounts[op'[u].email] = NoUser
                      /\ \A v \in Requests \ {u} : HasInsertedUser(v)' => op'[v].email # op'[u].email
    BY DEF KeyFree
  <2>1. CASE u = r
    BY <1>2, <2>1 DEF StepOK
  <2>2. CASE u # r
    <3>1. KeyFree(u) /\ HasInsertedUser(u)
      BY <1>2, <2>2 DEF ApiInv
    <3>2. ASSUME NEW v \in Requests \ {u}, HasInsertedUser(v)' PROVE op'[v].email # op'[u].email
      BY <1>2, <2>2, <3>1, <3>2 DEF StepOK, KeyFree
    <3> QED
      BY <1>1, <2>2, <3>2
  <2> QED
    BY <2>1, <2>2
<1> QED
  BY <1>1, <1>3 DEF StepOK

-----------------------------------------------------------------------------
(* The bodies of the responses                                               *)

Frames == {"token", "canned", "error", "DONE"}

\* One more frame.
LEMMA Appended ==
    ASSUME NEW f \in Seq(Frames), NEW x \in Frames
    PROVE  /\ Append(f, x) \in Seq(Frames) /\ Len(Append(f, x)) = Len(f) + 1
           /\ DOMAIN Append(f, x) = DOMAIN f \cup {Len(f) + 1} /\ Len(f) + 1 \notin DOMAIN f
           /\ \A i \in DOMAIN f : Append(f, x)[i] = f[i]
           /\ Append(f, x)[Len(f) + 1] = x /\ Len(f) \in Nat
           /\ Closed(Append(f, x)) <=> x = "DONE"
           /\ TokensIn(f) \in Nat
           /\ TokensIn(Append(f, x)) = IF x = "token" THEN TokensIn(f) + 1 ELSE TokensIn(f)
<1> DEFINE g == Append(f, x)
           in == {i \in DOMAIN f : f[i] = "token"}
<1>1. /\ g \in Seq(Frames) /\ Len(g) = Len(f) + 1
      /\ DOMAIN g = 1 .. Len(f) + 1 /\ DOMAIN f = 1 .. Len(f) /\ Len(f) \in Nat
      /\ g[Len(f) + 1] = x /\ \A i \in 1 .. Len(f) : g[i] = f[i]
  OBVIOUS
<1>2. Closed(g) <=> x = "DONE"
  <2>1. g # <<>>
    BY <1>1
  <2> QED
    BY <1>1, <2>1 DEF Closed, Last
<1>3. DOMAIN g = DOMAIN f \cup {Len(f) + 1} /\ Len(f) + 1 \notin DOMAIN f
  BY <1>1
<1>4. IsFiniteSet(in) /\ Cardinality(in) \in Nat
  <2>1. IsFiniteSet(1 .. Len(f))
    BY <1>1, FS_Interval
  <2>2. in \subseteq 1 .. Len(f)
    BY <1>1
  <2> QED
    BY <2>1, <2>2, FS_Subset, FS_CardinalityType
<1> HIDE DEF g
<1>5. CASE x = "token"
  <2>1. {i \in DOMAIN g : g[i] = "token"} = in \cup {Len(f) + 1}
    BY <1>1, <1>3, <1>5
  <2>2. Cardinality(in \cup {Len(f) + 1}) = Cardinality(in) + 1
    BY <1>3, <1>4, FS_AddElement
  <2> QED
    BY <1>1, <1>2, <1>3, <1>4, <1>5, <2>1, <2>2 DEF TokensIn, g
<1>6. CASE x # "token"
  <2>1. {i \in DOMAIN g : g[i] = "token"} = in
    BY <1>1, <1>3, <1>6
  <2> QED
    BY <1>1, <1>2, <1>3, <1>4, <1>6, <2>1 DEF TokensIn, g
<1> QED
  BY <1>5, <1>6

\* A body stays one.
LEMMA BodyTyped ==
    ASSUME NEW s \in Streams
    PROVE  /\ \A x \in Frames : [s EXCEPT !.frames = Append(@, x)] \in Streams
           /\ [s EXCEPT !.model = "asked"] \in Streams
           /\ [s EXCEPT !.tokens = @ + 1] \in Streams
           /\ \A m \in {"done", "cut", "failed", "left"}, c \in {"success", "error", "cancelled"} :
                 [s EXCEPT !.model = m, !.recorded = Append(@, c)] \in Streams
<1>1. \A x \in Frames : [s EXCEPT !.frames = Append(@, x)] \in Streams
  <2> TAKE x \in Frames
  <2>1. Append(s.frames, x) \in Seq({"token", "canned", "error", "DONE"})
    BY DEF Streams, Frames
  <2> QED
    BY <2>1 DEF Streams
<1>2. [s EXCEPT !.model = "asked"] \in Streams /\ [s EXCEPT !.tokens = @ + 1] \in Streams
  BY DEF Streams
<1>3. ASSUME NEW m \in {"done", "cut", "failed", "left"}, NEW c \in {"success", "error", "cancelled"}
      PROVE  [s EXCEPT !.model = m, !.recorded = Append(@, c)] \in Streams
  <2>1. Append(s.recorded, c) \in Seq({"success", "error", "cancelled"})
    BY DEF Streams
  <2> QED
    BY <2>1 DEF Streams
<1> QED
  BY <1>1, <1>2, <1>3

\* The empty body.
LEMMA NoBody ==
    /\ NoStream \in Streams /\ ~ Closed(NoStream.frames) /\ DOMAIN NoStream.frames = {}
    /\ TokensIn(NoStream.frames) = 0
    /\ NoStream.model = "none" /\ NoStream.tokens = 0 /\ NoStream.recorded = <<>>
<1>1. NoStream.frames = <<>> /\ NoStream.model = "none" /\ NoStream.tokens = 0
      /\ NoStream.recorded = <<>>
  BY DEF NoStream
<1>2. {i \in DOMAIN <<>> : <<>>[i] = "token"} = {}
  OBVIOUS
<1>3. TokensIn(<<>>) = 0
  BY <1>2, FS_EmptySet DEF TokensIn
<1>4. NoStream \in Streams
  BY DEF NoStream, Streams
<1> QED
  BY <1>1, <1>3, <1>4 DEF Closed

\* Statements that leave the body as it is.
LEMMA BodyStays ==
    ASSUME NEW s \in Streams, NEW p, NEW q, BodyAt(p, s),
           \/ p \notin StreamSteps \cup {"ended"} /\ q \notin {"model", "forward", "forwardLast"}
           \/ p = "retrieve" /\ q \in {"canned", "error"}
           \/ /\ p \in {"retrieve", "canned", "forward", "forwardLast", "error", "close"}
              /\ q = "collect"
           \/ p = "collect" /\ q = "ended" /\ s.model # "asked"
    PROVE  BodyAt(q, s)
<1>1. CASE p \notin StreamSteps \cup {"ended"} /\ q \notin {"model", "forward", "forwardLast"}
  <2>1. s = NoStream
    BY <1>1 DEF BodyAt
  <2>2. RecordOf["none"] = <<>>
    BY DEF RecordOf
  <2> QED
    BY <1>1, <2>1, <2>2, NoBody DEF BodyAt
<1>2. CASE p = "retrieve" /\ q \in {"canned", "error"}
  BY <1>2, StepsAre DEF BodyAt
<1>3. CASE /\ p \in {"retrieve", "canned", "forward", "forwardLast", "error", "close"}
           /\ q = "collect"
  BY <1>3, StepsAre DEF BodyAt
<1>4. CASE p = "collect" /\ q = "ended" /\ s.model # "asked"
  BY <1>4, StepsAre DEF BodyAt
<1> QED
  BY <1>1, <1>2, <1>3, <1>4

\* A frame is sent.
LEMMA BodySends ==
    ASSUME NEW s \in Streams, NEW p, NEW x, NEW q, BodyAt(p, s),
           \/ p = "canned" /\ x = "canned" /\ q = "close"
           \/ p = "error" /\ x = "error" /\ q = "close"
           \/ p = "close" /\ x = "DONE" /\ q = "collect"
           \/ p \in {"forward", "forwardLast"} /\ x = "token" /\ q = "model"
    PROVE  BodyAt(q, [s EXCEPT !.frames = Append(@, x)])
<1> DEFINE f == s.frames
           g == Append(f, x)
           t == [s EXCEPT !.frames = Append(@, x)]
<1>1. x \in Frames /\ f \in Seq(Frames) /\ s.tokens \in Nat
  BY DEF Frames, Streams
<1>2. /\ t.frames = g /\ t.model = s.model /\ t.recorded = s.recorded /\ t.tokens = s.tokens
  BY DEF Streams
<1>3. /\ Len(g) = Len(f) + 1 /\ Len(f) \in Nat
      /\ DOMAIN g = DOMAIN f \cup {Len(f) + 1} /\ Len(f) + 1 \notin DOMAIN f
      /\ \A i \in DOMAIN f : g[i] = f[i]
      /\ g[Len(f) + 1] = x
      /\ Closed(g) <=> x = "DONE"
      /\ TokensIn(f) \in Nat
      /\ TokensIn(g) = IF x = "token" THEN TokensIn(f) + 1 ELSE TokensIn(f)
  BY <1>1, Appended
<1>4. \A i \in DOMAIN f : f[i] # "DONE"
  BY StepsAre DEF BodyAt
<1>5. ~ Closed(f)
  <2>1. f # <<>> => Len(f) \in DOMAIN f
    BY <1>1
  <2> QED
    BY <1>4, <2>1 DEF Closed, Last
<1> SUFFICES BodyAt(q, t)
  OBVIOUS
<1> HIDE DEF f, g, t
<1>6. /\ \A i \in DOMAIN g :
             /\ g[i] = "DONE" => i = Len(g) /\ q \in {"collect", "ended"}
             /\ g[i] = "error" => i = IF Closed(g) THEN Len(g) - 1 ELSE Len(g)
      /\ (\E i \in DOMAIN g : g[i] = "error") <=>
             (\E i \in DOMAIN f : f[i] = "error") \/ x = "error"
  <2>1. (\E i \in DOMAIN g : g[i] = "error") <=>
             (\E i \in DOMAIN f : f[i] = "error") \/ x = "error"
    BY <1>3
  <2>2. \A i \in DOMAIN f : f[i] = "error" => p = "close" /\ i = Len(f)
    BY <1>5 DEF BodyAt, f
  <2>3. \A i \in DOMAIN g : g[i] = "DONE" => i = Len(g) /\ q \in {"collect", "ended"}
    BY <1>3, <1>4
  <2>4. \A i \in DOMAIN g : g[i] = "error" => i = IF Closed(g) THEN Len(g) - 1 ELSE Len(g)
    BY <1>3, <2>2
  <2> QED
    BY <2>1, <2>3, <2>4
<1>7. /\ s.recorded = RecordOf[s.model]
      /\ (\E i \in DOMAIN f : f[i] = "error") => p = "close" /\ s.model \in {"none", "failed"}
      /\ p = "canned" => s.model = "none"
      /\ p \in {"forward", "forwardLast"} => s.model = "asked"
      /\ p = "error" => s.model \in {"none", "failed"}
      /\ p = "close" => s.model # "asked" /\
                           (s.model = "failed" => \E i \in DOMAIN f : f[i] = "error")
      /\ p \in {"canned", "error", "close"} => TokensIn(f) = s.tokens
      /\ p \in {"forward", "forwardLast"} => TokensIn(f) + 1 = s.tokens
  BY DEF BodyAt, f
<1>8. Closed(g) => q = "collect" /\ p = "close"
  BY <1>3
<1>9. (\E i \in DOMAIN t.frames : t.frames[i] = "error") <=> p = "error" \/
          (p = "close" /\ \E i \in DOMAIN f : f[i] = "error")
  BY <1>2, <1>6, <1>7
<1>10. q \in {"close", "collect", "model"} /\ q \in StreamSteps
  BY StepsAre
<1>11. /\ (\E i \in DOMAIN t.frames : t.frames[i] = "error") =>
              q \in {"close", "collect", "ended"} /\ t.model \in {"none", "failed"}
       /\ q = "model" => t.model = "asked"
       /\ q = "close" \/ Closed(t.frames) =>
             t.model # "asked" /\
             (t.model = "failed" => \E i \in DOMAIN t.frames : t.frames[i] = "error")
  BY <1>2, <1>3, <1>7, <1>9
<1>12. /\ t.recorded = RecordOf[t.model]
       /\ q \in {"model", "close"} \/ Closed(t.frames) => TokensIn(t.frames) = t.tokens
  BY <1>1, <1>2, <1>3, <1>7
<1> QED
  BY <1>2, <1>6, <1>10, <1>11, <1>12 DEF BodyAt

\* The model is asked, and gives a token.
LEMMA BodyAsks ==
    ASSUME NEW s \in Streams
    PROVE  /\ BodyAt("retrieve", s) => BodyAt("model", [s EXCEPT !.model = "asked"])
           /\ BodyAt("model", s) => /\ BodyAt("forward", [s EXCEPT !.tokens = @ + 1])
                                    /\ BodyAt("forwardLast", [s EXCEPT !.tokens = @ + 1])
<1>0. RecordOf["none"] = <<>> /\ RecordOf["asked"] = <<>> /\ s.tokens \in Nat
  BY DEF RecordOf, Streams
<1>1. ASSUME BodyAt("retrieve", s) PROVE BodyAt("model", [s EXCEPT !.model = "asked"])
  <2> DEFINE t == [s EXCEPT !.model = "asked"]
  <2>1. t.frames = s.frames /\ t.model = "asked" /\ t.recorded = s.recorded /\ t.tokens = s.tokens
    BY DEF Streams
  <2>2. ~ Closed(s.frames)
    <3>1. s.frames # <<>> => Len(s.frames) \in DOMAIN s.frames
      BY DEF Streams
    <3> QED
      BY <1>1, <3>1 DEF BodyAt, Closed, Last
  <2> HIDE DEF t
  <2> QED
    BY <1>0, <1>1, <2>1, <2>2, StepsAre DEF BodyAt, t
<1>2. ASSUME BodyAt("model", s), NEW q \in {"forward", "forwardLast"}
      PROVE BodyAt(q, [s EXCEPT !.tokens = @ + 1])
  <2> DEFINE t == [s EXCEPT !.tokens = @ + 1]
  <2>1. /\ t.frames = s.frames /\ t.model = s.model /\ t.recorded = s.recorded
        /\ t.tokens = s.tokens + 1
    BY DEF Streams
  <2>2. ~ Closed(s.frames)
    <3>1. s.frames # <<>> => Len(s.frames) \in DOMAIN s.frames
      BY DEF Streams
    <3> QED
      BY <1>2, <3>1 DEF BodyAt, Closed, Last
  <2> HIDE DEF t
  <2> QED
    BY <1>0, <1>2, <2>1, <2>2, StepsAre DEF BodyAt, t
<1> QED
  BY <1>1, <1>2

\* The call of the model ends and is recorded.
LEMMA BodyRecords ==
    ASSUME NEW s \in Streams, NEW p, NEW m, NEW c, NEW q, BodyAt(p, s), s.model = "asked",
           \/ p = "model" /\ m = "done" /\ c = "success" /\ q = "close"
           \/ p = "model" /\ m = "cut" /\ c = "cancelled" /\ q = "close"
           \/ p = "model" /\ m = "failed" /\ c = "error" /\ q = "error"
           \/ p = "model" /\ m = "left" /\ c = "cancelled" /\ q = "collect"
           \/ p = "collect" /\ m = "left" /\ c = "cancelled" /\ q = "ended"
    PROVE  BodyAt(q, [s EXCEPT !.model = m, !.recorded = Append(@, c)])
<1> DEFINE t == [s EXCEPT !.model = m, !.recorded = Append(@, c)]
<1>1. /\ t.frames = s.frames /\ t.model = m /\ t.recorded = Append(s.recorded, c)
      /\ t.tokens = s.tokens
  BY DEF Streams
<1>2. s.recorded = <<>>
  BY DEF BodyAt, RecordOf
<1>3. RecordOf[m] = <<c>> /\ Append(<<>>, c) = <<c>>
  BY DEF RecordOf
<1>4. ~ (\E i \in DOMAIN s.frames : s.frames[i] = "error") /\ ~ Closed(s.frames)
  BY DEF BodyAt
<1>5. p \in {"model", "collect"} /\ (p = "model" => TokensIn(s.frames) = s.tokens)
      /\ \A i \in DOMAIN s.frames : s.frames[i] # "DONE"
  <2>1. ASSUME NEW i \in DOMAIN s.frames, s.frames[i] = "DONE" PROVE FALSE
    <3>1. i = Len(s.frames) /\ p = "collect"
      BY <2>1 DEF BodyAt
    <3> QED
      BY <1>4, <2>1, <3>1 DEF Closed, Last
  <2> QED
    BY <2>1 DEF BodyAt
<1> SUFFICES BodyAt(q, t)
  OBVIOUS
<1> HIDE DEF t
<1> QED
  BY <1>1, <1>2, <1>3, <1>4, <1>5, StepsAre DEF BodyAt

\* So the body of r is as it should be after each step of r.
LEMMA BodyKept ==
    ASSUME ApiInv, NEW r \in Requests, BodyAt(pc[r], stream[r]),
           AssistantStep(r) \/ Disconnect(r)
    PROVE  \E s \in Streams : stream' = [stream EXCEPT ![r] = s] /\ BodyAt(pc'[r], s)
<1> DEFINE Kept(q, t) == stream' = [stream EXCEPT ![r] = t] /\ pc'[r] = q
                            /\ t \in Streams /\ BodyAt(q, t)
<1>1. /\ stream \in [Requests -> Streams] /\ stream[r] \in Streams
      /\ pc \in [Requests -> PCs] /\ HttpTypeOK
  BY DEF ApiInv, TypeOK, HttpTypeOK, PCs, Codes, Loadable
<1>2. SUFFICES \E q, t : Kept(q, t)
  OBVIOUS
<1>3. PICK s \in Streams, p \in PCs : s = stream[r] /\ p = pc[r]
  BY <1>1
<1>4. stream' = stream => stream' = [stream EXCEPT ![r] = s]
  BY <1>1, <1>3
<1>5. \A q : Proceed(r, q) \/ Query(r, q, {}) => pc'[r] = q
  BY <1>1 DEF Proceed, Query
<1>6. BodyAt(p, s)
  BY <1>3
<1>7. CASE ReadScope(r) \/ Search(r) \/ Ask(r) \/ Generate(r)
  <2>1. stream' = stream
    BY <1>7 DEF ReadScope, Search, Ask, Generate
  <2>2. p \in {"handle", "search"}
    BY <1>3, <1>7 DEF ReadScope, Search, Ask, Generate
  <2>3. pc'[r] \in {"search", "ended", "retrieve"}
    BY <1>1, <1>7 DEF ReadScope, Search, Ask, Generate, Respond, Reject, Commit, Leave, Query
  <2>4. BodyAt(pc'[r], s)
    BY <1>6, <2>2, <2>3, BodyStays, StepsAre
  <2> QED
    BY <1>4, <2>1, <2>4
<1>8. CASE Retrieve(r) \/ RetrieveFails(r)
  <2>1. p = "retrieve"
    BY <1>3, <1>8 DEF Retrieve, RetrieveFails
  <2>2. CASE stream' = stream /\ pc'[r] \in {"canned", "error"}
    BY <1>4, <1>6, <2>1, <2>2, BodyStays
  <2>3. CASE stream' = [stream EXCEPT ![r].model = "asked"] /\ pc'[r] = "model"
    <3>1. stream' = [stream EXCEPT ![r] = [s EXCEPT !.model = "asked"]]
      BY <1>3, <2>3
    <3> QED
      BY <1>6, <2>1, <2>3, <3>1, BodyAsks, BodyTyped
  <2>4. RetrieveFails(r) => stream' = stream /\ pc'[r] = "error"
    BY <1>1 DEF RetrieveFails
  <2> QED
    BY <1>5, <1>8, <2>2, <2>3, <2>4 DEF Retrieve
<1>9. ASSUME NEW x \in Frames, NEW q, Sends(r, x), Proceed(r, q),
             \/ p = "canned" /\ x = "canned" /\ q = "close"
             \/ p = "error" /\ x = "error" /\ q = "close"
             \/ p = "close" /\ x = "DONE" /\ q = "collect"
      PROVE  \E t : Kept(q, t)
  <2>1. stream' = [stream EXCEPT ![r] = [s EXCEPT !.frames = Append(@, x)]]
    BY <1>3, <1>9 DEF Sends
  <2> QED
    BY <1>5, <1>6, <1>9, <2>1, BodySends, BodyTyped
<1>10. CASE SendCanned(r) \/ SendError(r) \/ Close(r)
  BY <1>3, <1>9, <1>10 DEF SendCanned, SendError, Close, Frames
<1>11. CASE ReadToken(r)
  <2>1. stream' = [stream EXCEPT ![r] = [s EXCEPT !.tokens = @ + 1]] /\ p = "model"
    BY <1>3, <1>11 DEF ReadToken
  <2>2. PICK q \in {"forward", "forwardLast"} : pc'[r] = q
    BY <1>5, <1>11 DEF ReadToken
  <2> QED
    BY <1>6, <2>1, <2>2, BodyAsks, BodyTyped
<1>12. ASSUME NEW m \in {"done", "cut", "failed", "left"},
              NEW c \in {"success", "error", "cancelled"}, NEW q,
              stream' = Recorded(r, m, c, stream), pc'[r] = q, s.model = "asked",
              \/ p = "model" /\ m = "done" /\ c = "success" /\ q = "close"
              \/ p = "model" /\ m = "cut" /\ c = "cancelled" /\ q = "close"
              \/ p = "model" /\ m = "failed" /\ c = "error" /\ q = "error"
              \/ p = "model" /\ m = "left" /\ c = "cancelled" /\ q = "collect"
              \/ p = "collect" /\ m = "left" /\ c = "cancelled" /\ q = "ended"
       PROVE  \E t : Kept(q, t)
  <2>1. stream' = [stream EXCEPT ![r] = [s EXCEPT !.model = m, !.recorded = Append(@, c)]]
    BY <1>1, <1>3, <1>12 DEF Recorded
  <2>2. BodyAt(q, [s EXCEPT !.model = m, !.recorded = Append(@, c)])
    BY <1>6, <1>12, BodyRecords
  <2>3. [s EXCEPT !.model = m, !.recorded = Append(@, c)] \in Streams
    BY BodyTyped
  <2> QED
    BY <1>12, <2>1, <2>2, <2>3
<1>13. p = "model" => s.model = "asked"
  BY <1>6 DEF BodyAt
<1>14. CASE ReadDone(r) \/ ModelCut(r) \/ ModelFails(r)
  BY <1>3, <1>5, <1>12, <1>13, <1>14 DEF ReadDone, ModelCut, ModelFails
<1>15. CASE Disconnect(r)
  <2>1. CASE p = "model"
    BY <1>3, <1>5, <1>12, <1>13, <1>15, <2>1 DEF Disconnect
  <2>2. CASE p # "model"
    <3>1. /\ p \in {"retrieve", "canned", "forward", "forwardLast", "error", "close"}
          /\ stream' = stream /\ pc'[r] = "collect"
      BY <1>3, <1>5, <1>15, <2>2 DEF Disconnect
    <3> QED
      BY <1>4, <1>6, <3>1, BodyStays
  <2> QED
    BY <2>1, <2>2
<1>16. CASE Collect(r)
  <2>1. p = "collect" /\ pc'[r] = "ended"
    BY <1>1, <1>3, <1>16 DEF Collect
  <2>2. CASE s.model = "asked"
    BY <1>3, <1>12, <1>16, <2>1, <2>2 DEF Collect
  <2>3. CASE s.model # "asked"
    <3>1. stream' = stream
      BY <1>3, <1>16, <2>3 DEF Collect
    <3> QED
      BY <1>4, <1>6, <2>1, <2>3, <3>1, BodyStays
  <2> QED
    BY <2>2, <2>3
<1>17. CASE ForwardToken(r)
  <2> DEFINE u == [s EXCEPT !.frames = Append(@, "token")]
             sent == [stream EXCEPT ![r].frames = Append(@, "token")]
  <2>1. p \in {"forward", "forwardLast"}
    BY <1>3, <1>17 DEF ForwardToken
  <2>2. u \in Streams /\ BodyAt("model", u) /\ u.model = "asked"
    <3>1. u \in Streams /\ BodyAt("model", u)
      BY <1>6, <2>1, BodySends, BodyTyped DEF Frames
    <3> QED
      BY <3>1 DEF BodyAt
  <2>3. sent = [stream EXCEPT ![r] = u]
    BY <1>3
  <2>4. CASE p = "forward"
    BY <1>3, <1>5, <1>17, <2>2, <2>3, <2>4 DEF ForwardToken
  <2>5. CASE p = "forwardLast"
    <3> DEFINE t == [u EXCEPT !.model = "done", !.recorded = Append(@, "success")]
    <3>1. stream' = Recorded(r, "done", "success", sent) /\ pc'[r] = "close"
      BY <1>3, <1>5, <1>17, <2>5 DEF ForwardToken
    <3>2. sent[r] = u /\ sent \in [Requests -> Streams]
      BY <1>1, <2>2, <2>3
    <3> HIDE DEF u
    <3>3. stream' = [stream EXCEPT ![r] = t]
      <4> HIDE DEF sent
      <4>1. stream' = [sent EXCEPT ![r] = t]
        BY <3>1, <3>2 DEF Recorded
      <4> QED
        BY <1>1, <2>3, <4>1
    <3>4. t \in Streams /\ BodyAt("close", t)
      BY <2>2, BodyRecords, BodyTyped
    <3> QED
      BY <3>1, <3>3, <3>4
  <2> QED
    BY <2>1, <2>4, <2>5
<1> QED
  BY <1>7, <1>8, <1>10, <1>11, <1>14, <1>15, <1>16, <1>17 DEF AssistantStep

-----------------------------------------------------------------------------
(* All invariants together                                                   *)

Inv == ApiInv /\ BodiesOK

\* The first state.
LEMMA Begins == ApiInit => Inv
<1> SUFFICES ASSUME ApiInit PROVE Inv
  OBVIOUS
<1>1. /\ db = InitialDb /\ op = [r \in Requests |-> Nothing]
      /\ pc = [r \in Requests |-> "new"] /\ hand = [r \in Requests |-> {}]
      /\ answer = [r \in Requests |-> 0] /\ pool = {} /\ seen = [r \in Requests |-> {}]
      /\ faults = 0 /\ stream = [r \in Requests |-> NoStream]
  BY DEF ApiInit, HttpInit, AssistantInit
<1>2. TypeOK
  BY <1>1, DatabaseAssumption, NoBody DEF TypeOK
<1>3. \A r \in Requests : RequestOK(r) /\ KeyFree(r)
  BY <1>1 DEF RequestOK, InPhase, IsAdmitted, InScope, HasLoaded, AnswerIsTrue, KeyFree,
     HasInsertedUser, Asks, Serving
<1>4. \A r \in Requests : BodyAt(pc[r], stream[r])
  <2>1. RecordOf["none"] = <<>>
    BY DEF RecordOf
  <2> QED
    BY <1>1, <2>1, NoBody, StepsAre DEF BodyAt
<1> QED
  BY <1>2, <1>3, <1>4 DEF Inv, ApiInv, BodiesOK

\* Every step.
LEMMA Goes == Inv /\ [ApiNext]_assistantVars => Inv'
<1> SUFFICES ASSUME Inv, [ApiNext]_assistantVars PROVE Inv'
  OBVIOUS
<1>0. /\ ApiInv /\ BodiesOK /\ stream \in [Requests -> Streams] /\ HttpTypeOK
      /\ pc \in [Requests -> PCs]
  BY DEF Inv, ApiInv, TypeOK, HttpTypeOK, PCs, Codes, Loadable
<1>1. HttpTypeOK' /\ stream' \in [Requests -> Streams] => TypeOK'
  BY DEF HttpTypeOK, TypeOK, PCs, Codes, Loadable
<1>2. ASSUME NEW r \in Requests, StepOK(r), NEW s \in Streams,
             stream' = [stream EXCEPT ![r] = s], BodyAt(pc'[r], s)
      PROVE  Inv'
  <2>1. HttpTypeOK' /\ \A u \in Requests : RequestOK(u)' /\ KeyFree(u)'
    BY <1>0, <1>2, AllKept
  <2>2. stream' \in [Requests -> Streams]
    BY <1>0, <1>2
  <2>3. \A u \in Requests \ {r} : pc'[u] = pc[u] /\ stream'[u] = stream[u]
    BY <1>0, <1>2 DEF StepOK, Fits, Alone
  <2>4. stream'[r] = s
    BY <1>0, <1>2
  <2>5. \A u \in Requests : BodyAt(pc'[u], stream'[u])
    BY <1>0, <1>2, <2>3, <2>4 DEF BodiesOK
  <2>6. BodiesOK'
    BY <2>5 DEF BodiesOK
  <2> QED
    BY <1>1, <2>1, <2>2, <2>6 DEF Inv, ApiInv
<1>3. ASSUME NEW r \in Requests, StepOK(r), UNCHANGED stream,
             pc[r] \notin StreamSteps \cup {"ended"}, pc'[r] \notin {"model", "forward", "forwardLast"}
      PROVE  Inv'
  <2>1. BodyAt(pc[r], stream[r]) /\ stream[r] \in Streams
    BY <1>0 DEF BodiesOK
  <2>2. BodyAt(pc'[r], stream[r])
    BY <1>3, <2>1, BodyStays
  <2>3. stream' = [stream EXCEPT ![r] = stream[r]]
    BY <1>0, <1>3
  <2> QED
    BY <1>2, <1>3, <2>1, <2>2, <2>3
<1>4. ASSUME NEW r \in Requests, AssistantStep(r) \/ Disconnect(r) PROVE Inv'
  <2>1. StepOK(r)
    BY <1>0, <1>4, AssistantOK
  <2>2. PICK s \in Streams : stream' = [stream EXCEPT ![r] = s] /\ BodyAt(pc'[r], s)
    BY <1>0, <1>4, BodyKept DEF BodiesOK
  <2> QED
    BY <1>2, <2>1, <2>2
<1>5. ASSUME NEW r \in Requests, Arrive(r) PROVE Inv'
  <2>1. StepOK(r) /\ UNCHANGED stream /\ pc[r] = "new"
    BY <1>0, <1>5, ArriveOK DEF Arrive, Start
  <2>2. pc'[r] \in {"handle", "caller"}
    BY <1>0, <1>5 DEF Arrive, Start
  <2> QED
    BY <1>3, <2>1, <2>2, StepsAre
<1>6. ASSUME NEW r \in Requests, Dispatch(r) \/ UserStep(r) \/ CurriculumStep(r), UNCHANGED stream
      PROVE  Inv'
  <2>1. StepOK(r)
    BY <1>0, <1>6, DispatchOK, UserOK, CurriculumOK
  <2>2. pc'[r] \notin {"model", "forward", "forwardLast"}
    <3>1. /\ \A n, h : Query(r, n, h) => pc'[r] = n
          /\ \A c, n, h : Leave(r, c, n, h) => pc'[r] = n
          /\ \A c : Reject(r, c) => pc'[r] = "ended"
      BY <1>0 DEF Query, Leave, Reject
    <3>2. \A new, c, h : Commit(r, new, c, "ended", h) => pc'[r] = "ended"
      BY <3>1 DEF Commit
    <3>3. CASE Dispatch(r)
      BY <3>1, <3>3 DEF Dispatch, RejectToken, LoadCaller, StatementFails, PoolTimeout
    <3>4. CASE UserStep(r)
      BY <3>1, <3>2, <3>4 DEF UserStep, CheckEmail, InsertUser, CommitUser, FindUser,
         VerifyPassword, UpdateMe, CommitUpdate
    <3>5. CASE CurriculumStep(r)
      BY <3>1, <3>2, <3>5 DEF CurriculumStep, CheckCourse, CheckModule, InsertRow, CommitRow,
         ListRows, AnswerList
    <3> QED
      BY <1>6, <3>3, <3>4, <3>5
  <2>3. pc[r] \notin StreamSteps \cup {"ended"}
    <3>1. Dispatch(r) => answer[r] = 0 \/ pc[r] = "caller"
      BY DEF Dispatch, RejectToken, LoadCaller, StatementFails, PoolTimeout
    <3>2. UserStep(r) \/ CurriculumStep(r) =>
              pc[r] \in {"handle", "hash", "inserted", "verify", "updated", "module", "rows",
                         "placed", "listed"}
      BY DEF UserStep, CheckEmail, InsertUser, CommitUser, FindUser, VerifyPassword, UpdateMe,
         CommitUpdate, CurriculumStep, CheckCourse, CheckModule, InsertRow, CommitRow, ListRows,
         AnswerList
    <3>3. pc[r] = "ended" => ~ Dispatch(r)
      <4>1. InPhase(r)
        BY <1>0 DEF ApiInv, RequestOK
      <4>2. \A q \in Operations : "ended" \notin StepsOf[q.kind]
        <5> TAKE q \in Operations
        <5>1. q.kind \in {"register", "login", "updateMe", "add", "list", "search", "ask",
                          "generate"}
          BY OperationsAssumption DEF StepsOf
        <5> QED
          BY <5>1, StepsAre
      <4>3. pc[r] = "ended" => r \notin pool
        BY <4>1, <4>2 DEF InPhase
      <4> QED
        BY <4>3 DEF Dispatch, RejectToken, LoadCaller, StatementFails, PoolTimeout, Serving
    <3>4. pc[r] \in StreamSteps => answer[r] = 200
      BY <1>0, Served, StepsAre DEF Serving
    <3> QED
      BY <1>6, <3>1, <3>2, <3>3, <3>4, StepsAre
  <2> QED
    BY <1>3, <1>6, <2>1, <2>2, <2>3
<1>7. CASE OthersConnect /\ UNCHANGED stream
  <2>1. UNCHANGED <<db, op, pc, hand, answer, seen, faults, stream>>
    BY <1>7 DEF OthersConnect
  <2>2. (\E o \in Others : pool' = pool \cup {o}) \/ (\E o \in Others : pool' = pool \ {o})
    BY <1>7 DEF OthersConnect
  <2>3. pool' \subseteq Requests \cup Others /\ \A r \in Requests : r \in pool' => r \in pool
    BY <1>0, <2>2, PoolAssumption DEF HttpTypeOK
  <2>4. \A r \in Requests : RequestOK(r)' /\ KeyFree(r)'
    BY <1>0, <2>1, <2>3, UnmovedOK
  <2>5. HttpTypeOK' /\ BodiesOK'
    BY <1>0, <2>1, <2>3 DEF HttpTypeOK, BodiesOK
  <2> QED
    BY <1>0, <1>1, <2>1, <2>4, <2>5 DEF Inv, ApiInv
<1>8. CASE UNCHANGED assistantVars
  <2>1. UNCHANGED <<db, op, pc, hand, answer, pool, seen, faults, stream>>
    BY <1>8 DEF assistantVars, httpVars
  <2>2. \A r \in Requests : RequestOK(r)' /\ KeyFree(r)'
    BY <1>0, <2>1, UnmovedOK
  <2>3. HttpTypeOK' /\ BodiesOK'
    BY <1>0, <2>1 DEF HttpTypeOK, BodiesOK
  <2> QED
    BY <1>0, <1>1, <2>1, <2>2, <2>3 DEF Inv, ApiInv
<1> QED
  BY <1>4, <1>5, <1>6, <1>7, <1>8 DEF ApiNext, Step

-----------------------------------------------------------------------------
(* Places                                                                   *)

\* A step that adds no row and inserts none.
NoRow == /\ db'.rows = db.rows
         /\ \A u \in Requests : pc'[u] = "placed" => pc[u] = "placed" /\ op'[u] = op[u]

\* Such a step leaves the places as they are.
LEMMA NoRowKeeps == PlacesKept /\ NoRow => PlacesKept'
BY DEF PlacesKept, NoRow, PlacesDistinct, PlaceFree, Taken, RowsOf, HasInsertedAt, Asks, Serving

\* All statements but the flush and the commit of a row are such steps.
LEMMA StepHasNoRow ==
    ASSUME HttpTypeOK, [ApiNext]_assistantVars,
           \A r \in Requests : ~InsertRow(r) /\ ~CommitRow(r)
    PROVE  NoRow
<1>1. ASSUME NEW r \in Requests
      PROVE  /\ \A n, h : Query(r, n, h) /\ n # "placed" => NoRow
             /\ \A n : Proceed(r, n) /\ n # "placed" => NoRow
             /\ \A c, n, h : Leave(r, c, n, h) /\ n # "placed" /\ db'.rows = db.rows => NoRow
  BY <1>1 DEF HttpTypeOK, Query, Proceed, Leave, NoRow
<1>2. ASSUME NEW r \in Requests
      PROVE  /\ \A c : Reject(r, c) => NoRow
             /\ \A new, c, n, h :
                   Commit(r, new, c, n, h) /\ n # "placed" /\ new.rows = db.rows => NoRow
  BY <1>1, <1>2 DEF Reject, Commit, Commits
<1>3. ASSUME NEW r \in Requests, Dispatch(r) PROVE NoRow
  BY <1>1, <1>2, <1>3 DEF Dispatch, RejectToken, LoadCaller, StatementFails, PoolTimeout
<1>4. ASSUME NEW r \in Requests, UserStep(r) PROVE NoRow
  <2>1. \A a, x : [db EXCEPT !.accounts[a] = x].rows = db.rows
    BY DEF HttpTypeOK, Db
  <2>2. CASE CheckEmail(r) \/ InsertUser(r) \/ FindUser(r) \/ VerifyPassword(r) \/ UpdateMe(r)
    BY <1>1, <1>2, <2>2 DEF CheckEmail, InsertUser, FindUser, VerifyPassword, UpdateMe
  <2>3. CASE CommitUser(r)
    BY <1>2, <2>1, <2>3 DEF CommitUser
  <2>4. CASE CommitUpdate(r)
    BY <1>2, <2>1, <2>4 DEF CommitUpdate
  <2> QED
    BY <1>4, <2>2, <2>3, <2>4 DEF UserStep
<1>5. ASSUME NEW r \in Requests, CurriculumStep(r) PROVE NoRow
  BY <1>1, <1>2, <1>5 DEF CurriculumStep, CheckCourse, CheckModule, ListRows, AnswerList
<1>6. ASSUME NEW r \in Requests, AssistantStep(r) \/ Disconnect(r) PROVE NoRow
  <2>1. CASE ReadScope(r) \/ Search(r) \/ Ask(r) \/ Generate(r) \/ Retrieve(r)
    BY <1>1, <1>2, <2>1 DEF ReadScope, Search, Ask, Generate, Retrieve, Respond
  <2>2. CASE RetrieveFails(r) \/ Collect(r)
    BY <2>2 DEF RetrieveFails, Collect, HttpTypeOK, NoRow
  <2>3. CASE SendCanned(r) \/ ReadToken(r) \/ ForwardToken(r) \/ ReadDone(r) \/ ModelCut(r)
             \/ ModelFails(r) \/ SendError(r) \/ Close(r) \/ Disconnect(r)
    BY <1>1, <2>3 DEF SendCanned, ReadToken, ForwardToken, ReadDone, ModelCut, ModelFails,
       SendError, Close, Disconnect
  <2> QED
    BY <1>6, <2>1, <2>2, <2>3 DEF AssistantStep
<1>7. CASE \E r \in Requests : Arrive(r)
  BY <1>7 DEF Arrive, Start, HttpTypeOK, NoRow
<1>8. CASE OthersConnect
  BY <1>8 DEF OthersConnect, NoRow
<1>9. CASE UNCHANGED assistantVars
  BY <1>9 DEF assistantVars, httpVars, NoRow
<1> QED
  BY <1>3, <1>4, <1>5, <1>6, <1>7, <1>8, <1>9 DEF ApiNext, Step

\* A row is flushed at a place that is free and that no open transaction has.
LEMMA InsertKeepsPlaces ==
    ASSUME HttpTypeOK, PlacesKept, NEW r \in Requests, InsertRow(r)
    PROVE  PlacesKept'
<1>1. CASE Taken(db, op[r])
  <2>1. NoRow
    BY <1>1 DEF InsertRow, Reject, Leave, HttpTypeOK, NoRow
  <2> QED
    BY <2>1, NoRowKeeps
<1>2. CASE ~Taken(db, op[r])
  <2>1. /\ db' = db /\ op' = op /\ pc' = [pc EXCEPT ![r] = "placed"]
        /\ \A u \in Requests \ {r} : ~HasInsertedAt(u, op[r])
    BY <1>2 DEF InsertRow, Query
  <2>2. /\ pc'[r] = "placed" /\ \A u \in Requests \ {r} : pc'[u] = pc[u]
    BY <2>1 DEF HttpTypeOK
  <2>3. PlaceFree(r)'
    BY <1>2, <2>1, <2>2 DEF PlaceFree, Taken, RowsOf, HasInsertedAt, Asks, Serving
  <2>4. ASSUME NEW u \in Requests \ {r} PROVE PlaceFree(u)'
    BY <2>1, <2>2 DEF PlacesKept, PlaceFree, Taken, RowsOf, HasInsertedAt, Asks, Serving
  <2> QED
    BY <2>1, <2>3, <2>4 DEF PlacesKept, PlacesDistinct
<1> QED
  BY <1>1, <1>2

\* The commit makes it visible, or is lost.
LEMMA CommitKeepsPlaces ==
    ASSUME HttpTypeOK, PlacesKept, NEW r \in Requests, CommitRow(r)
    PROVE  PlacesKept'
<1> DEFINE row == [parent |-> op[r].parent, position |-> op[r].position, id |-> r]
<1>1. /\ Asks(r, "add") /\ pc[r] = "placed" /\ op' = op
      /\ pc' = [pc EXCEPT ![r] = "ended"]
      /\ db'.rows = db.rows \/ db'.rows = db.rows \cup {row}
  BY DEF CommitRow, Commit, Commits, Leave, HttpTypeOK, Db
<1>2. /\ ~Taken(db, op[r]) /\ \A u \in Requests \ {r} : ~HasInsertedAt(u, op[r])
  BY <1>1 DEF PlacesKept, PlaceFree
<1>3. pc'[r] = "ended" /\ \A u \in Requests \ {r} : pc'[u] = pc[u]
  BY <1>1 DEF HttpTypeOK
<1>4. CASE db'.rows = db.rows
  BY <1>1, <1>3, <1>4, NoRowKeeps DEF NoRow
<1>5. CASE db'.rows = db.rows \cup {row}
  <2>1. \A q \in db.rows : ~(q.parent = row.parent /\ q.position = row.position)
    BY <1>2 DEF Taken, RowsOf
  <2>2. PlacesDistinct(db)'
    BY <1>5, <2>1 DEF PlacesKept, PlacesDistinct
  <2>3. ASSUME NEW u \in Requests, Asks(u, "add")', pc'[u] = "placed" PROVE PlaceFree(u)'
    <3>1. u # r /\ Asks(u, "add") /\ pc[u] = "placed"
      BY <1>1, <1>3, <2>3 DEF Asks, Serving
    <3>2. ~(row.parent = op[u].parent /\ row.position = op[u].position)
      BY <1>2, <3>1 DEF HasInsertedAt
    <3>3. ~Taken(db, op[u]) /\ \A v \in Requests \ {u} : ~HasInsertedAt(v, op[u])
      BY <3>1 DEF PlacesKept, PlaceFree
    <3>4. ~Taken(db, op[u])'
      BY <1>1, <1>5, <3>2, <3>3 DEF Taken, RowsOf
    <3>5. \A v \in Requests \ {u} : ~HasInsertedAt(v, op[u])'
      BY <1>1, <1>3, <3>3 DEF HasInsertedAt, Asks, Serving
    <3> QED
      BY <3>4, <3>5 DEF PlaceFree
  <2> QED
    BY <2>2, <2>3 DEF PlacesKept, PlaceFree
<1> QED
  BY <1>1, <1>4, <1>5

-----------------------------------------------------------------------------
(* The theorems                                                             *)

\* Any number of requests, interleaved at every statement, keep to the invariants
\* of Api: types and phases, what a session holds was in the database at a moment
\* of its request, an address being registered is free until the commit, a search
\* stays within its scope, and each body is as its generators left it.
THEOREM ApiInvariance == ApiSpec => []Inv
<1>1. ApiInit => Inv
  BY Begins
<1>2. Inv /\ [ApiNext]_assistantVars => Inv'
  BY Goes
<1> QED
  BY <1>1, <1>2, PTL DEF ApiSpec

\* Every answer but an error of the server is true of a moment of its request
\* (auth_service.py:28-60, module_service.py:41-59, lesson_service.py:67-103,
\* database.py:28-35).
THEOREM AnswersTrue == ApiSpec => []AnswersAreTrue
<1>1. Inv /\ PlacesKept => AnswersAreTrue
  BY DEF Inv, ApiInv, RequestOK, PlacesKept, AnswersAreTrue
<1>2. ApiInit => PlacesKept
  BY DatabaseAssumption DEF ApiInit, HttpInit, PlacesKept, PlaceFree, Asks, Serving
<1>3. Inv => HttpTypeOK
  BY DEF Inv, ApiInv, TypeOK, HttpTypeOK, PCs, Codes, Loadable
<1>4. Inv /\ PlacesKept /\ [ApiNext]_assistantVars => PlacesKept'
  BY <1>3, StepHasNoRow, NoRowKeeps, InsertKeepsPlaces, CommitKeepsPlaces
<1> QED
  BY <1>1, <1>2, <1>4, ApiInvariance, PTL DEF ApiSpec

\* A search never shows a student or an instructor a course that is not theirs
\* (search_service.py:40-63, search_repo.py:86-110).
THEOREM SearchesKeepScope == ApiSpec => []SearchInScope
<1>1. ASSUME Inv PROVE SearchInScope
  <2> SUFFICES ASSUME NEW r \in Requests, pc[r] = "ended", op[r].kind = "search",
                      answer[r] = 200, NEW c \in hand[r]
               PROVE  \/ RoleOf[op[r].caller] = "admin" \/ CourseOwner[c] = op[r].caller
                      \/ c \in EnrolledIn[op[r].caller]
    BY DEF SearchInScope
  <2>1. /\ c \in Scope(op[r].caller)
        /\ RoleOf[op[r].caller] \in {"student", "instructor", "admin"}
    BY <1>1 DEF Inv, ApiInv, RequestOK, InScope
  <2> QED
    BY <2>1 DEF Scope
<1> QED
  BY <1>1, ApiInvariance, PTL

\* Whatever the model and the client do, a stream is closed once, an error frame
\* comes right before its end, no token is lost unnoticed, and each call of the
\* model is recorded once, as what it was (assistant.py:31-41,
\* llm_service.py:132-174).
THEOREM StreamsAreHonest == ApiSpec => []StreamHonest
<1>1. ASSUME Inv, NEW r \in Requests
      PROVE  LET s == stream[r]
                 failed == \E i \in DOMAIN s.frames : s.frames[i] = "error"
             IN /\ \A i \in DOMAIN s.frames :
                      /\ s.frames[i] = "DONE" => i = Len(s.frames)
                      /\ s.frames[i] = "error" /\ Closed(s.frames) => i = Len(s.frames) - 1
                /\ Closed(s.frames) /\ ~failed => TokensIn(s.frames) = s.tokens
                /\ Closed(s.frames) /\ s.model = "done" => ~failed
                /\ Closed(s.frames) /\ s.model = "failed" => failed
                /\ Len(s.recorded) <= 1
                /\ pc[r] = "ended" /\ s.model # "none" => Len(s.recorded) = 1
                /\ Contains(s.recorded, "success") <=> s.model = "done"
                /\ Contains(s.recorded, "error") <=> s.model = "failed"
  <2>1. PICK s \in Streams, p \in PCs : s = stream[r] /\ p = pc[r] /\ BodyAt(p, s)
    BY <1>1 DEF Inv, ApiInv, TypeOK, BodiesOK, PCs
  <2>2. s.recorded = RecordOf[s.model] /\ (p = "ended" => s.model # "asked")
    BY <2>1 DEF BodyAt
  <2>3. /\ Len(s.recorded) <= 1
        /\ s.model \notin {"none", "asked"} => Len(s.recorded) = 1
        /\ Contains(s.recorded, "success") <=> s.model = "done"
        /\ Contains(s.recorded, "error") <=> s.model = "failed"
    <3>1. s.model \in {"none", "asked", "done", "cut", "failed", "left"}
      BY DEF Streams
    <3>2. \A m, x : Contains(<<m>>, x) <=> x = m
      BY DEF Contains
    <3>3. \A x : ~ Contains(<<>>, x)
      BY DEF Contains
    <3>4. /\ RecordOf["none"] = <<>> /\ RecordOf["asked"] = <<>>
          /\ RecordOf["done"] = <<"success">> /\ RecordOf["failed"] = <<"error">>
          /\ RecordOf["cut"] = <<"cancelled">> /\ RecordOf["left"] = <<"cancelled">>
      BY DEF RecordOf
    <3>5. CASE s.model \in {"none", "asked"}
      <4>1. s.recorded = <<>>
        BY <2>2, <3>4, <3>5
      <4> QED
        BY <3>3, <3>5, <4>1
    <3>6. CASE s.model = "done"
      <4>1. s.recorded = <<"success">>
        BY <2>2, <3>4, <3>6
      <4> QED
        BY <3>2, <3>6, <4>1
    <3>7. CASE s.model = "failed"
      <4>1. s.recorded = <<"error">>
        BY <2>2, <3>4, <3>7
      <4> QED
        BY <3>2, <3>7, <4>1
    <3>8. CASE s.model \in {"cut", "left"}
      <4>1. s.recorded = <<"cancelled">>
        BY <2>2, <3>4, <3>8
      <4> QED
        BY <3>2, <3>8, <4>1
    <3> QED
      BY <3>1, <3>5, <3>6, <3>7, <3>8
  <2>4. /\ \A i \in DOMAIN s.frames :
              /\ s.frames[i] = "DONE" => i = Len(s.frames)
              /\ s.frames[i] = "error" /\ Closed(s.frames) => i = Len(s.frames) - 1
        /\ Closed(s.frames) => TokensIn(s.frames) = s.tokens
        /\ (\E i \in DOMAIN s.frames : s.frames[i] = "error") => s.model \in {"none", "failed"}
        /\ Closed(s.frames) /\ s.model = "failed" =>
              \E i \in DOMAIN s.frames : s.frames[i] = "error"
    BY <2>1 DEF BodyAt
  <2> QED
    BY <2>1, <2>2, <2>3, <2>4
<1>2. Inv => StreamHonest
  BY <1>1 DEF StreamHonest
<1> QED
  BY <1>2, ApiInvariance, PTL
-----------------------------------------------------------------------------
(* The pool of connections.                                                  *)

\* A step gives connections back, or takes one where there is room for it.
Checkout ==
    \/ pool' \subseteq pool
    \/ Cardinality(pool) < PoolLimit /\ \E x \in Requests \cup Others : pool' = pool \cup {x}

\* Every statement of every request checks out one connection at most.
LEMMA StepChecksOut == [ApiNext]_assistantVars => Checkout
<1>1. ASSUME NEW r \in Requests
      PROVE  /\ \A n, h : Query(r, n, h) => Checkout
             /\ \A c, n, h : Leave(r, c, n, h) => Checkout
  BY <1>1 DEF Query, Connected, Leave, Checkout
<1>2. ASSUME NEW r \in Requests
      PROVE  /\ \A c : Reject(r, c) => Checkout
             /\ \A new, c, n, h : Commit(r, new, c, n, h) => Checkout
             /\ \A n : Proceed(r, n) => Checkout
  BY <1>1, <1>2 DEF Reject, Commit, Proceed, Checkout
<1>3. ASSUME NEW r \in Requests, Dispatch(r) PROVE Checkout
  BY <1>1, <1>2, <1>3 DEF Dispatch, RejectToken, LoadCaller, StatementFails, PoolTimeout
<1>4. ASSUME NEW r \in Requests, UserStep(r) PROVE Checkout
  BY <1>1, <1>2, <1>4 DEF UserStep, CheckEmail, InsertUser, CommitUser, FindUser,
     VerifyPassword, UpdateMe, CommitUpdate
<1>5. ASSUME NEW r \in Requests, CurriculumStep(r) PROVE Checkout
  BY <1>1, <1>2, <1>5 DEF CurriculumStep, CheckCourse, CheckModule, InsertRow, CommitRow,
     ListRows, AnswerList
<1>6. ASSUME NEW r \in Requests, AssistantStep(r) \/ Disconnect(r) PROVE Checkout
  <2>1. CASE ReadScope(r) \/ Search(r) \/ Ask(r) \/ Generate(r) \/ Retrieve(r)
    BY <1>1, <1>2, <2>1 DEF ReadScope, Search, Ask, Generate, Retrieve, Respond
  <2>2. CASE RetrieveFails(r) \/ Collect(r)
    BY <2>2 DEF RetrieveFails, Connected, Collect, Checkout
  <2>3. CASE SendCanned(r) \/ ReadToken(r) \/ ForwardToken(r) \/ ReadDone(r) \/ ModelCut(r)
             \/ ModelFails(r) \/ SendError(r) \/ Close(r) \/ Disconnect(r)
    BY <1>2, <2>3 DEF SendCanned, ReadToken, ForwardToken, ReadDone, ModelCut, ModelFails,
       SendError, Close, Disconnect
  <2> QED
    BY <1>6, <2>1, <2>2, <2>3 DEF AssistantStep
<1>7. CASE \E r \in Requests : Arrive(r)
  BY <1>7 DEF Arrive, Start, Checkout
<1>8. CASE OthersConnect
  BY <1>8 DEF OthersConnect, Checkout
<1>9. CASE UNCHANGED assistantVars
  BY <1>9 DEF assistantVars, httpVars, Checkout
<1> QED
  BY <1>3, <1>4, <1>5, <1>6, <1>7, <1>8, <1>9 DEF ApiNext, Step

\* The connections in use are finitely many and within the limit.
WithinPool == IsFiniteSet(pool) /\ Cardinality(pool) <= PoolLimit

LEMMA CheckoutFits == WithinPool /\ Checkout => WithinPool'
<1> SUFFICES ASSUME WithinPool, Checkout PROVE WithinPool'
  OBVIOUS
<1>1. Cardinality(pool) \in Nat /\ PoolLimit \in Nat
  BY FS_CardinalityType, PoolAssumption DEF WithinPool
<1>2. CASE pool' \subseteq pool
  <2>1. IsFiniteSet(pool') /\ Cardinality(pool') <= Cardinality(pool) /\ Cardinality(pool') \in Nat
    BY <1>2, FS_Subset, FS_CardinalityType DEF WithinPool
  <2> QED
    BY <1>1, <2>1 DEF WithinPool
<1>3. ASSUME Cardinality(pool) < PoolLimit, NEW x, pool' = pool \cup {x} PROVE WithinPool'
  <2>1. /\ IsFiniteSet(pool')
        /\ Cardinality(pool') = Cardinality(pool) \/ Cardinality(pool') = Cardinality(pool) + 1
    BY <1>3, FS_AddElement DEF WithinPool
  <2> QED
    BY <1>1, <1>3, <2>1 DEF WithinPool
<1> QED
  BY <1>2, <1>3 DEF Checkout

\* The pool is never overdrawn, and no request that has not begun or has ended
\* holds one of its connections, for any number of requests and any size of the
\* pool (database.py:7-35, assistant.py:31-41).
THEOREM ConnectionsComeBack == ApiSpec => []ConnectionsInUse
<1>1. ApiInit => WithinPool
  BY FS_EmptySet, PoolAssumption DEF ApiInit, HttpInit, WithinPool
<1>2. WithinPool /\ [ApiNext]_assistantVars => WithinPool'
  BY StepChecksOut, CheckoutFits
<1>3. ApiSpec => []WithinPool
  BY <1>1, <1>2, PTL DEF ApiSpec
<1>4. ASSUME Inv, NEW r \in pool \cap Requests PROVE Serving(r)
  <2>1. InPhase(r)
    BY <1>4 DEF Inv, ApiInv, RequestOK
  <2>2. \A q \in Operations : {"new", "ended"} \cap StepsOf[q.kind] = {}
    <3> TAKE q \in Operations
    <3>1. q.kind \in {"register", "login", "updateMe", "add", "list", "search", "ask",
                      "generate"}
      BY OperationsAssumption DEF StepsOf
    <3> QED
      BY <3>1, StepsAre
  <2> QED
    BY <1>4, <2>1, <2>2 DEF InPhase, Serving
<1>5. Inv /\ WithinPool => ConnectionsInUse
  BY <1>4 DEF ConnectionsInUse, WithinPool
<1> QED
  BY <1>3, <1>5, ApiInvariance, PTL
=============================================================================
