---------------------------- MODULE HttpRequest ----------------------------
(***************************************************************************)
(* What every request of the API goes through: the caller's token and account*)
(* (dependencies.py), a database session with a connection of the pool, and  *)
(* the commit or rollback in get_db (database.py), which FastAPI runs before *)
(* it sends the answer.  An exception nobody catches is answered 500         *)
(* (main.py).                                                               *)
(***************************************************************************)
EXTENDS Naturals, FiniteSets

CONSTANTS
    Requests,
    Operations,    \* what a request may ask: records with a kind and a caller
    Accounts,      \* users.email
    RoleOf,        \* users.role of an account
    Inactive,      \* accounts with is_active = false
    CourseOwner,   \* courses.instructor_id; its domain are the courses
    InitialDb,     \* users, modules and lessons at the start
    BadToken,      \* a caller whose token does not decode
    NoUser, Nothing,
    Others,        \* stand for requests that are not modelled here
    PoolLimit,     \* pool_size + max_overflow
    MaxFaults      \* bound: transactions that fail

ASSUME PoolAssumption == /\ PoolLimit \in Nat \ {0} /\ MaxFaults \in Nat
                         /\ Requests \cap Others = {}

VARIABLES
    db,        \* the committed rows: accounts, and modules and lessons
    op,        \* what a request asks
    pc,        \* its next statement; "new" and "ended" before and after it
    hand,      \* the rows or ids its session has loaded, the last its answer
    answer,    \* the status code, 0 before the answer
    pool,      \* who has a connection checked out
    seen,      \* history: the committed states during a request
    faults

httpVars == <<db, op, pc, hand, answer, pool, seen, faults>>

HttpInit ==
    /\ db = InitialDb
    /\ op = [r \in Requests |-> Nothing]
    /\ pc = [r \in Requests |-> "new"]
    /\ hand = [r \in Requests |-> {}]
    /\ answer = [r \in Requests |-> 0]
    /\ pool = {}
    /\ seen = [r \in Requests |-> {}]
    /\ faults = 0

Serving(r) == pc[r] \notin {"new", "ended"}
Asks(r, kind) == Serving(r) /\ op[r].kind = kind
IsPublic(o) == o.kind \in {"register", "login"}
Allowed(o) == IF o.kind = "generate" THEN {"instructor", "admin"}
              ELSE {"student", "instructor", "admin"}

-----------------------------------------------------------------------------
(* Sessions.                                                                 *)

\* A session takes a connection with its first statement and keeps it until it
\* commits or rolls back.
Connected(r) == r \in pool \/ Cardinality(pool) < PoolLimit

Query(r, next, loaded) ==
    /\ Connected(r)
    /\ pool' = pool \cup {r}
    /\ pc' = [pc EXCEPT ![r] = next]
    /\ hand' = [hand EXCEPT ![r] = loaded]
    /\ UNCHANGED <<db, op, answer, seen, faults>>

\* The request leaves its session: what follows is "ended" or a stream.
Leave(r, code, next, result) ==
    /\ answer' = [answer EXCEPT ![r] = code]
    /\ pc' = [pc EXCEPT ![r] = next]
    /\ hand' = [hand EXCEPT ![r] = result]
    /\ pool' = pool \ {r}
    /\ UNCHANGED op

Commits(new) ==
    /\ db' = new
    /\ seen' = [r \in Requests |-> IF Serving(r) THEN seen[r] \cup {new} ELSE seen[r]]

\* An exception: rolled back, and answered with its code.
Reject(r, code) ==
    /\ Connected(r)
    /\ Leave(r, code, "ended", {})
    /\ UNCHANGED <<db, seen, faults>>

\* Faulty variant: the answer is sent before the session commits, as FastAPI did
\* before version 0.106.
AnswerFirst(r, new, code, next, result) ==
    /\ Connected(r)
    /\ \/ Commits(new) /\ UNCHANGED faults
       \/ faults < MaxFaults /\ faults' = faults + 1 /\ UNCHANGED <<db, seen>>
    /\ Leave(r, code, next, result)

\* get_db commits, then the answer is sent.  A connection lost during the commit
\* leaves open whether it was done; the answer is 500.
Commit(r, new, code, next, result) ==
    /\ Connected(r)
    /\ \/ Commits(new) /\ UNCHANGED faults /\ Leave(r, code, next, result)
       \/ /\ faults < MaxFaults /\ faults' = faults + 1
          /\ \E outcome \in {db, new} : Commits(outcome)
          /\ Leave(r, 500, "ended", {})

-----------------------------------------------------------------------------
(* The start of a request.                                                   *)

\* Requests are only names: the next one is the one CHOOSE gives.
Start(r) ==
    /\ pc[r] = "new" /\ r = CHOOSE u \in Requests : pc[u] = "new"
    /\ \E o \in Operations :
          /\ op' = [op EXCEPT ![r] = o]
          /\ pc' = [pc EXCEPT ![r] = IF IsPublic(o) THEN "handle" ELSE "caller"]
    /\ seen' = [seen EXCEPT ![r] = {db}]
    /\ UNCHANGED <<db, hand, answer, pool, faults>>

\* get_current_user: the token needs no connection.
RejectToken(r) ==
    /\ pc[r] = "caller" /\ op[r].caller = BadToken
    /\ Leave(r, 401, "ended", {})
    /\ UNCHANGED <<db, seen, faults>>

\* get_current_user, get_current_active_user, require_role.
LoadCaller(r) ==
    /\ pc[r] = "caller" /\ op[r].caller # BadToken
    /\ LET user == db.accounts[op[r].caller]
       IN \/ user = NoUser /\ Reject(r, 401)
          \/ /\ user # NoUser
             /\ \/ op[r].caller \in Inactive
                \/ RoleOf[op[r].caller] \notin Allowed(op[r])
             /\ Reject(r, 403)
          \/ /\ user # NoUser
             /\ op[r].caller \notin Inactive
             /\ RoleOf[op[r].caller] \in Allowed(op[r])
             /\ Query(r, "handle", {user})

\* The connection breaks under a statement.
StatementFails(r) ==
    /\ r \in pool /\ answer[r] = 0
    /\ faults < MaxFaults /\ faults' = faults + 1
    /\ Leave(r, 500, "ended", {})
    /\ UNCHANGED <<db, seen>>

\* After pool_timeout without a connection SQLAlchemy raises.
PoolTimeout(r) ==
    /\ Serving(r) /\ answer[r] = 0
    /\ ~Connected(r)
    /\ Leave(r, 500, "ended", {})
    /\ UNCHANGED <<db, seen, faults>>

\* Requests of other kinds come and go.
OthersConnect ==
    /\ \/ Cardinality(pool) < PoolLimit /\ \E o \in Others : pool' = pool \cup {o}
       \/ \E o \in Others : pool' = pool \ {o}
    /\ UNCHANGED <<db, op, pc, hand, answer, seen, faults>>

Dispatch(r) == RejectToken(r) \/ LoadCaller(r) \/ StatementFails(r) \/ PoolTimeout(r)
=============================================================================
