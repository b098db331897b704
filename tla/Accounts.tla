------------------------------ MODULE Accounts ------------------------------
(***************************************************************************)
(* The users table and the requests that work on it: registration, login,   *)
(* profile and password of the own account, administration.  A request      *)
(* makes its database calls one after the other, without a transaction.     *)
(***************************************************************************)
EXTENDS Integers

CONSTANTS
  Users,       \* user ids
  Names,       \* usernames
  Emails,
  Passwords,
  Strong,      \* those with a digit, both cases and a special character
  Reqs,        \* requests in progress at a time
  RootName, RootEmail, RootPassword,   \* columns of the row init/tenant.sql inserts
  NoUser

VARIABLES
  users,       \* id -> row, or NoUser
  tokens,      \* users with a token that has not expired
  req          \* req[r]: [op, by, user, row, raced], op "none" if free; raced is
               \* history: the password of user has changed since the check

accountVars == <<users, tokens, req>>

Roles  == {"admin", "register"}
NoReq  == [op |-> "none", by |-> NoUser, user |-> NoUser, row |-> NoUser, raced |-> FALSE]

\* bcrypt: salted and one way, so a hash is good for comparisons only.
hashPassword(p) == [hashOf |-> p]
CompareHashAndPassword(hash, p) == hash.hashOf = p
validatePassword(p) == p \in Strong

Stored == {u \in Users : users[u] # NoUser}

AccountInit ==
  /\ \E root \in Users :
       users = [u \in Users |->
         IF u = root THEN [name |-> RootName, email |-> RootEmail, role |-> "admin",
                           status |-> "active", hash |-> hashPassword(RootPassword)]
         ELSE NoUser]
  /\ tokens = {}
  /\ req = [r \in Reqs |-> NoReq]

-----------------------------------------------------------------------------
\* Login and tokens.

CheckUserInfo(name, p) ==
  {u \in Stored : /\ users[u].name = name /\ users[u].status = "active"
                  /\ CompareHashAndPassword(users[u].hash, p)}

\* The LoginHandler of the JWT middleware; the Authorizator lets everything pass.
Login(name, p) ==
  /\ tokens' = tokens \cup CheckUserInfo(name, p)
  /\ UNCHANGED <<users, req>>

\* Nothing but time ends a token.
TokenExpires(u) ==
  /\ u \in tokens
  /\ tokens' = tokens \ {u}
  /\ UNCHANGED <<users, req>>

-----------------------------------------------------------------------------
\* First calls: a request is checked and becomes a write to be made.

Begin(r, op, by, u, row) ==
  /\ req[r] = NoReq
  /\ req' = [req EXCEPT ![r] = [op |-> op, by |-> by, user |-> u, row |-> row,
                                raced |-> FALSE]]
  /\ UNCHANGED <<users, tokens>>

\* The role of the row is read once, before the handler; the status is not looked at.
RequireAdmin(u) == u \in tokens /\ users[u].role = "admin"

\* IsExistsUserNameEmail
Exists(name, email) == \E u \in Stored : users[u].name = name \/ users[u].email = email

NewRow(name, email, role, password) ==
  [name |-> name, email |-> email, role |-> role, status |-> "active",
   hash |-> hashPassword(password)]

Register(r, name, email, password) ==
  /\ validatePassword(password) /\ ~Exists(name, email)
  /\ Begin(r, "insert", NoUser, NoUser, NewRow(name, email, "register", password))

Create(r, by, name, email, role, password) ==
  /\ validatePassword(password) /\ ~Exists(name, email)
  /\ Begin(r, "insert", by, NoUser, NewRow(name, email, role, password))

UpdateUser(r, by, u, email, role) ==
  /\ u \in Stored
  /\ Begin(r, "update", by, u, [email |-> email, role |-> role])

\* Mistake: an administrator may disable the own account.
DisableAnybody(r, by, u) ==
  /\ u \in Stored
  /\ Begin(r, "disable", by, u, [status |-> "disabled"])

\* Disable: not the own account.
Disable(r, by, u) ==
  /\ u \in Stored /\ u # by
  /\ Begin(r, "disable", by, u, [status |-> "disabled"])

ResetPassword(r, by, u, password) ==
  /\ u \in Stored /\ validatePassword(password)
  /\ Begin(r, "reset", by, u, [hash |-> hashPassword(password)])

\* Mistake: the old password is not compared.
ChangeBlindly(r, u, old, new) ==
  /\ validatePassword(new)
  /\ Begin(r, "change", u, u, [hash |-> hashPassword(new), old |-> old])

\* ChangePassword: the hash is read and compared with the old password given.
ChangePassword(r, u, old, new) ==
  /\ CompareHashAndPassword(users[u].hash, old) /\ validatePassword(new)
  /\ Begin(r, "change", u, u, [hash |-> hashPassword(new), old |-> old])

-----------------------------------------------------------------------------
\* Last calls: the write, and the answer.

Answer(r, u, row) ==
  /\ users' = [users EXCEPT ![u] = row]
  /\ req' = [o \in Reqs |->
       IF o = r THEN NoReq
       ELSE IF req[o].user = u /\ row.hash # users[u].hash THEN [req[o] EXCEPT !.raced = TRUE]
       ELSE req[o]]
  /\ UNCHANGED tokens

Refuse(r) == req' = [req EXCEPT ![r] = NoReq] /\ UNCHANGED <<users, tokens>>

\* SaveUser: username and email are unique keys.
Insert(r) ==
  /\ req[r].op = "insert"
  /\ IF Exists(req[r].row.name, req[r].row.email) THEN Refuse(r)
     ELSE \E u \in Users \ Stored : Answer(r, u, req[r].row)

\* UpdateUser of the store: email and role, never status or password.
Update(r) ==
  /\ req[r].op = "update"
  /\ LET u == req[r].user IN
       IF \E v \in Stored \ {u} : users[v].email = req[r].row.email THEN Refuse(r)
       ELSE Answer(r, u, [users[u] EXCEPT !.email = req[r].row.email,
                                          !.role = req[r].row.role])

\* UpdateUserStatus
UpdateStatus(r) ==
  /\ req[r].op = "disable"
  /\ Answer(r, req[r].user, [users[req[r].user] EXCEPT !.status = req[r].row.status])

\* UpdateUserPassword; a password that was changed or reset ends no token.
UpdatePassword(r) ==
  /\ req[r].op \in {"reset", "change"}
  /\ Answer(r, req[r].user, [users[req[r].user] EXCEPT !.hash = req[r].row.hash])

\* A call of the database fails.
CallFails(r) == req[r] # NoReq /\ Refuse(r)

\* UpdateUserProfile: the email is a unique key.
UpdateProfile(u, email) ==
  /\ \A v \in Stored \ {u} : users[v].email # email
  /\ users' = [users EXCEPT ![u].email = email]
  /\ UNCHANGED <<tokens, req>>

-----------------------------------------------------------------------------
\* The routes: those of the own account need a token, the others an administrator.

RegisterHandler(r) == \E n \in Names, e \in Emails, p \in Passwords : Register(r, n, e, p)

UpdateProfileHandler(u)     == u \in tokens /\ \E e \in Emails : UpdateProfile(u, e)
ChangePasswordHandler(r, u) ==
  u \in tokens /\ \E old \in Passwords, new \in Passwords : ChangePassword(r, u, old, new)

CreateUserHandler(r, by) ==
  RequireAdmin(by) /\ \E n \in Names, e \in Emails, role \in Roles, p \in Passwords :
                         Create(r, by, n, e, role, p)
UpdateUserHandler(r, by, u) ==
  RequireAdmin(by) /\ \E e \in Emails, role \in Roles : UpdateUser(r, by, u, e, role)
DisableUserHandler(r, by, u) == RequireAdmin(by) /\ Disable(r, by, u)
ResetUserPasswordHandler(r, by, u) ==
  RequireAdmin(by) /\ \E p \in Passwords : ResetPassword(r, by, u, p)

RequestStep(r) ==
  \/ RegisterHandler(r)
  \/ Insert(r) \/ Update(r) \/ UpdateStatus(r) \/ UpdatePassword(r) \/ CallFails(r)
  \/ \E by \in Users : ChangePasswordHandler(r, by) \/ CreateUserHandler(r, by)
  \/ \E by, u \in Users :
       UpdateUserHandler(r, by, u) \/ DisableUserHandler(r, by, u) \/ ResetUserPasswordHandler(r, by, u)

Next ==
  \/ \E n \in Names, p \in Passwords : Login(n, p)
  \/ \E u \in Users : TokenExpires(u) \/ UpdateProfileHandler(u)
  \/ \E r \in Reqs : RequestStep(r)
=============================================================================
