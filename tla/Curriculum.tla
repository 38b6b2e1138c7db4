----------------------------- MODULE Curriculum -----------------------------
(***************************************************************************)
(* Adding and listing the modules of a course and the lessons of a module:   *)
(* module_service.py, lesson_service.py and their repositories.  A row is its*)
(* parent (a course or a module), its order_index and the request that       *)
(* inserted it, which also stands for its id.                                *)
(***************************************************************************)
EXTENDS HttpRequest

CONSTANT Drafts  \* courses that are not published

Role(r) == RoleOf[op[r].caller]

CanModify(r, c) == Role(r) = "admin" \/ CourseOwner[c] = op[r].caller

\* get_for_modify and get_for_view, in module_service with the lookup of the
\* module: the code they are answered with, 0 for none.
CourseError(r) ==
    LET c == op[r].course
        writes == op[r].kind = "add"
    IN IF c \notin DOMAIN CourseOwner THEN 404
       ELSE IF CanModify(r, c) THEN 0
       ELSE IF writes THEN 403
       ELSE IF c \in Drafts THEN 404 ELSE 0

\* The rows there may be.
Rows == InitialDb.rows \cup
        {[parent |-> o.parent, position |-> o.position, id |-> r] :
            o \in {p \in Operations : p.kind = "add"}, r \in Requests}

RowsOf(d, parent) == {row \in d.rows : row.parent = parent}

IsModuleOf(d, m, c) == \E row \in RowsOf(d, c) : row.id = m

OfModule(r) == op[r].parent # op[r].course

CheckCourse(r) ==
    /\ Asks(r, "add") \/ Asks(r, "list")
    /\ pc[r] = "handle"
    /\ IF CourseError(r) # 0 THEN Reject(r, CourseError(r))
       ELSE Query(r, IF OfModule(r) THEN "module" ELSE "rows", {})

CheckModule(r) ==
    /\ pc[r] = "module"
    /\ IF IsModuleOf(db, op[r].parent, op[r].course) THEN Query(r, "rows", {})
       ELSE Reject(r, 404)

-----------------------------------------------------------------------------
(* create.                                                                   *)

Taken(d, o) == \E row \in RowsOf(d, o.parent) : row.position = o.position

HasInsertedAt(r, o) ==
    /\ Asks(r, "add") /\ pc[r] = "placed"
    /\ op[r].parent = o.parent /\ op[r].position = o.position

\* Faulty variant: a SELECT for the order_index, without a unique key.
ChecksPlace(r) ==
    /\ Asks(r, "add") /\ pc[r] = "rows"
    /\ IF Taken(db, op[r]) THEN Reject(r, 409) ELSE Query(r, "placed", {})

\* flush: the unique key on parent and order_index waits for an open insert; on
\* a conflict the service rolls back and the answer is 409.
InsertRow(r) ==
    /\ Asks(r, "add") /\ pc[r] = "rows"
    /\ \A u \in Requests \ {r} : ~HasInsertedAt(u, op[r])
    /\ IF Taken(db, op[r]) THEN Reject(r, 409) ELSE Query(r, "placed", {})

CommitRow(r) ==
    /\ Asks(r, "add") /\ pc[r] = "placed"
    /\ Commit(r, [db EXCEPT !.rows = @ \cup {[parent |-> op[r].parent,
                                             position |-> op[r].position, id |-> r]}],
              201, "ended", {})

-----------------------------------------------------------------------------
(* list_for_course, list_for_module.                                         *)

ListRows(r) ==
    /\ Asks(r, "list") /\ pc[r] = "rows"
    /\ Query(r, "listed", RowsOf(db, op[r].parent))

AnswerList(r) ==
    /\ Asks(r, "list") /\ pc[r] = "listed"
    /\ Commit(r, db, 200, "ended", hand[r])

CurriculumStep(r) ==
    \/ CheckCourse(r) \/ CheckModule(r)
    \/ InsertRow(r) \/ CommitRow(r)
    \/ ListRows(r) \/ AnswerList(r)

-----------------------------------------------------------------------------
\* What an answer says was so in state d.
CurriculumAnswerIn(r, d) ==
    /\ answer[r] = 201 => \E row \in RowsOf(d, op[r].parent) :
                             row.position = op[r].position /\ row.id = r
    /\ answer[r] = 409 => Taken(d, op[r])
    /\ answer[r] = 200 => hand[r] = RowsOf(d, op[r].parent)
    /\ answer[r] = 404 /\ CourseError(r) = 0 =>
           ~IsModuleOf(d, op[r].parent, op[r].course)

\* No two modules of a course, or lessons of a module, are at one order_index.
PlacesDistinct(d) ==
    \A p, q \in d.rows : p.parent = q.parent /\ p.position = q.position => p = q
=============================================================================
