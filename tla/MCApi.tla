-------------------------------- MODULE MCApi --------------------------------
(* A small instance of Api.                                                  *)
EXTENDS Api, TLC

CONSTANTS r1, r2, r3, owner, admin, student, gone, joining, c1, draft, m1, p1, p2, full_name, others

Roles == owner :> "instructor" @@ admin :> "admin" @@ student :> "student"
            @@ gone :> "student" @@ joining :> "student"

Owners      == c1 :> owner @@ draft :> admin
Enrollments == [a \in Accounts |-> IF a = student THEN {c1} ELSE {}]

Row(a) == [password |-> p1, name |-> Nothing, by |-> Nothing]

Start0 ==
    [accounts |-> [a \in Accounts |-> IF a = joining THEN NoUser ELSE Row(a)],
     rows |-> {[parent |-> c1, position |-> 1, id |-> m1]}]

Sets(password, name) == "password" :> password @@ "name" :> name

Register(p)    == [kind |-> "register", email |-> joining, password |-> p]
Login(p)       == [kind |-> "login", email |-> joining, password |-> p]
UpdateAs(s)    == [kind |-> "updateMe", caller |-> student, set |-> s]
Add(a, c, p, n)  == [kind |-> "add", caller |-> a, course |-> c, parent |-> p, position |-> n]
List(a, c, p)  == [kind |-> "list", caller |-> a, course |-> c, parent |-> p]
SearchAs(a)    == [kind |-> "search", caller |-> a]
AskAs(a)       == [kind |-> "ask", caller |-> a, course |-> c1]
GenerateAs(a, c) == [kind |-> "generate", caller |-> a, course |-> c]

AllOperations ==
    {Register(p1), Register(p2), Login(p1),
     UpdateAs(Sets(p2, Nothing)), UpdateAs(Sets(Nothing, full_name)), UpdateAs(Sets(p2, full_name)),
     [kind |-> "login", email |-> student, password |-> p1],
     Add(owner, c1, c1, 1), Add(owner, c1, c1, 2), Add(owner, c1, m1, 1),
     Add(admin, draft, m1, 1), Add(student, c1, c1, 2), Add(owner, Nothing, Nothing, 1),
     List(student, c1, c1), List(student, draft, draft), List(owner, c1, m1),
     SearchAs(student), SearchAs(joining), SearchAs(owner), SearchAs(admin),
     AskAs(student), AskAs(BadToken), AskAs(gone), AskAs(joining),
     GenerateAs(owner, c1), GenerateAs(student, c1), GenerateAs(owner, draft),
     GenerateAs(admin, Nothing)}
==============================================================================
