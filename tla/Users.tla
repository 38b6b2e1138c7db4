------------------------------- MODULE Users -------------------------------
(***************************************************************************)
(* Registration, login and the change of one's own account: auth_service.py, *)
(* user_service.py, user_repo.py.  An account is its e-mail address; a row   *)
(* has the password its hash is of, the full name and the request that      *)
(* inserted it.                                                             *)
(***************************************************************************)
EXTENDS HttpRequest

CONSTANTS Passwords, Names

UserRow == [password : Passwords, name : Names \cup {Nothing},
            by : Requests \cup {Nothing}]

ASSUME UsersAssumption == NoUser \notin UserRow

\* register: get_by_email.
CheckEmail(r) ==
    /\ Asks(r, "register") /\ pc[r] = "handle"
    /\ \/ db.accounts[op[r].email] # NoUser /\ Reject(r, 409)
       \/ db.accounts[op[r].email] = NoUser /\ Query(r, "hash", {})

\* Once the password is hashed the row is flushed.  The unique key waits for an
\* open insert of the same address; if that commits, the IntegrityError is not
\* caught.
InsertUser(r) ==
    /\ Asks(r, "register") /\ pc[r] = "hash"
    /\ \A u \in Requests \ {r} :
          ~(Asks(u, "register") /\ pc[u] = "inserted" /\ op[u].email = op[r].email)
    /\ \/ db.accounts[op[r].email] # NoUser /\ Reject(r, 500)
       \/ db.accounts[op[r].email] = NoUser /\ Query(r, "inserted", {})

CommitUser(r) ==
    /\ Asks(r, "register") /\ pc[r] = "inserted"
    /\ Commit(r, [db EXCEPT !.accounts[op[r].email] =
                    [password |-> op[r].password, name |-> Nothing, by |-> r]],
              201, "ended", {})

-----------------------------------------------------------------------------
\* login: the row is read, its hash is verified in a thread.
FindUser(r) ==
    /\ Asks(r, "login") /\ pc[r] = "handle"
    /\ Query(r, "verify", {db.accounts[op[r].email]} \ {NoUser})

VerifyPassword(r) ==
    /\ Asks(r, "login") /\ pc[r] = "verify"
    /\ LET valid == \E row \in hand[r] : row.password = op[r].password
       IN \/ valid  /\ Commit(r, db, 200, "ended", {})
          \/ ~valid /\ Reject(r, 401)

-----------------------------------------------------------------------------
\* The columns update_me changes, by what get_current_user loaded: a column set
\* to the value it has is not in the UPDATE, except that each hash is a new one.
Changed(r) ==
    {c \in {"password", "name"} :
        /\ op[r].set[c] # Nothing
        /\ c = "name" => \A row \in hand[r] : op[r].set[c] # row.name}

HasUpdated(r, a) == Asks(r, "updateMe") /\ pc[r] = "updated" /\ op[r].caller = a
                       /\ Changed(r) # {}

\* flush: the UPDATE waits for the row lock.
UpdateMe(r) ==
    /\ Asks(r, "updateMe") /\ pc[r] = "handle"
    /\ Changed(r) # {} =>
          \A u \in Requests \ {r} : ~HasUpdated(u, op[r].caller)
    /\ Query(r, "updated", hand[r])

CommitUpdate(r) ==
    /\ Asks(r, "updateMe") /\ pc[r] = "updated"
    /\ Commit(r, [db EXCEPT !.accounts[op[r].caller] =
                    [c \in DOMAIN @ |-> IF c \in Changed(r) THEN op[r].set[c] ELSE @[c]]],
              200, "ended", {})

UserStep(r) ==
    \/ CheckEmail(r) \/ InsertUser(r) \/ CommitUser(r)
    \/ FindUser(r) \/ VerifyPassword(r)
    \/ UpdateMe(r) \/ CommitUpdate(r)

-----------------------------------------------------------------------------
\* What an answer says was so in state d.
UserAnswerIn(r, d) ==
    LET row == d.accounts[op[r].email]
    IN CASE op[r].kind = "register" ->
              IF answer[r] = 201 THEN row # NoUser /\ row.by = r ELSE row # NoUser
         [] op[r].kind = "login" ->
              (answer[r] = 200) <=> (row # NoUser /\ row.password = op[r].password)

\* What the answer to an update says of column c was so in state d.
UpdatedIn(r, c, d) == op[r].set[c] \in {Nothing, d.accounts[op[r].caller][c]}
=============================================================================
