------------------------------ MODULE Accounts -------------------------------
(***************************************************************************)
(* Register and the credential check of Login on table users, for          *)
(* concurrent handlers of all instances.  A step is one statement to       *)
(* PostgreSQL with the local code up to the next one.                      *)
(*                                                                         *)
(* Email holds addresses as they arrive, spaces trimmed; Canonical is      *)
(* strings.ToLower.  A password hash is abstracted to the password it      *)
(* verifies.                                                               *)
(***************************************************************************)
CONSTANTS
  Handler,     \* request goroutines, of all application instances
  Email,       \* addresses clients type
  Canonical,   \* address -> the address in lower case
  Password,
  UserId,      \* user UUIDs
  None         \* "no user"

ASSUME AccountsAssumption ==
  /\ Canonical \in [Email -> Email]
  /\ \A e \in Email : Canonical[Canonical[e]] = Canonical[e]
  /\ None \notin UserId

VARIABLES
  users,      \* rows of table users
  work,       \* handler -> the request it serves
  promised,   \* <<email, password>> of the registrations answered 201
  audit       \* rows of audit_logs

vars == <<users, work, promised, audit>>

UserRow == [id : UserId, email : Email, password : Password]

\* "entitled" is not in the code: a registration with these credentials had
\* been confirmed when the request came in.
Request == [pc : {"insert", "confirm", "conflict", "find", "accept", "refuse"},
            email : Email, password : Password, user : UserId \cup {None},
            entitled : BOOLEAN]

\* An idle handler has no request.
Nobody == [pc |-> "idle"]

Event == {"register_success", "register_failure", "login_failure"}

\* The types of rows and requests: every row has an id.
TypeOK ==
  /\ users \subseteq UserRow
  /\ work \in [Handler -> Request \cup {Nobody}]
  /\ promised \subseteq Email \X Password
  /\ audit \subseteq [event : Event, user : UserId \cup {None}]

Init ==
  /\ users = {}
  /\ work = [h \in Handler |-> Nobody]
  /\ promised = {}
  /\ audit = {}

-----------------------------------------------------------------------------
At(h, pc) == work[h].pc = pc

Become(h, r) == work' = [work EXCEPT ![h] = r]

Begin(h, pc, e, p) ==
  /\ work[h] = Nobody
  /\ Become(h, [pc |-> pc, email |-> e, password |-> p, user |-> None,
                entitled |-> <<e, p>> \in promised])
  /\ UNCHANGED <<users, promised, audit>>

\* Both fields are there: the handlers answer 400 otherwise.
BeginRegister(h, e, p) == Begin(h, "insert", e, p)

BeginLogin(h, e, p) == Begin(h, "find", e, p)

\* The row is written, or the failure is logged and swallowed.
Log(event, user) ==
  \/ UNCHANGED audit
  \/ audit' = audit \cup {[event |-> event, user |-> user]}

-----------------------------------------------------------------------------
\* A slip: the address is looked up as it was typed.
RowAsTyped(e) == {u \in users : u.email = e}

RowOf(e) == {u \in users : u.email = Canonical[e]}

\* A slip: an upsert in the place of the INSERT.
Upsert(h) ==
  /\ At(h, "insert")
  /\ \E id \in UserId :
       /\ users' = {u \in users : u.email # Canonical[work[h].email]} \cup
                     {[id |-> id, email |-> Canonical[work[h].email],
                       password |-> work[h].password]}
       /\ Become(h, [work[h] EXCEPT !.pc = "confirm", !.user = id])
  /\ UNCHANGED <<promised, audit>>

\* A slip: the row gets no id.
InsertUserNoId(h) ==
  /\ At(h, "insert")
  /\ RowOf(work[h].email) = {}
  /\ users' = users \cup {[id |-> None, email |-> Canonical[work[h].email],
                           password |-> work[h].password]}
  /\ Become(h, [work[h] EXCEPT !.pc = "confirm"])
  /\ UNCHANGED <<promised, audit>>

\* INSERT of a fresh id: no row has the address.
InsertUser(h) ==
  /\ At(h, "insert")
  /\ RowOf(work[h].email) = {}
  /\ \E id \in UserId :
       /\ \A u \in users : u.id # id
       /\ users' = users \cup {[id |-> id, email |-> Canonical[work[h].email],
                                password |-> work[h].password]}
       /\ Become(h, [work[h] EXCEPT !.pc = "confirm", !.user = id])
  /\ UNCHANGED <<promised, audit>>

\* The unique index refuses the row: ErrDuplicateEmail.
InsertConflict(h) ==
  /\ At(h, "insert")
  /\ RowOf(work[h].email) # {}
  /\ Become(h, [work[h] EXCEPT !.pc = "conflict"])
  /\ UNCHANGED <<users, promised, audit>>

\* Answer 201, which may get lost.
Confirm(h) ==
  /\ At(h, "confirm")
  /\ Log("register_success", work[h].user)
  /\ \/ promised' = promised \cup {<<work[h].email, work[h].password>>}
     \/ UNCHANGED promised
  /\ Become(h, Nobody)
  /\ UNCHANGED users

\* Answer 409.
Conflict(h) ==
  /\ At(h, "conflict")
  /\ Log("register_failure", None)
  /\ Become(h, Nobody)
  /\ UNCHANGED <<users, promised>>

\* FindByEmail and CompareHashAndPassword.
FindUser(h) ==
  /\ At(h, "find")
  /\ \/ /\ RowOf(work[h].email) = {}
        /\ Become(h, [work[h] EXCEPT !.pc = "refuse"])
     \/ \E u \in RowOf(work[h].email) :
          Become(h, [work[h] EXCEPT !.user = u.id,
                       !.pc = IF u.password = work[h].password THEN "accept"
                                                               ELSE "refuse"])
  /\ UNCHANGED <<users, promised, audit>>

\* Answer 401.
Refuse(h) ==
  /\ At(h, "refuse")
  /\ Log("login_failure", work[h].user)
  /\ Become(h, Nobody)
  /\ UNCHANGED <<users, promised>>

\* Login goes on to create a session: AuthService's BeginLogin.
Accept(h) ==
  /\ At(h, "accept")
  /\ Become(h, Nobody)
  /\ UNCHANGED <<users, promised, audit>>

\* The last call failed, executed or not, the context is over, or the instance
\* died.
Abort(h) ==
  /\ work[h] # Nobody
  /\ Become(h, Nobody)
  /\ UNCHANGED <<users, promised, audit>>

-----------------------------------------------------------------------------
Next ==
  \E h \in Handler :
    \/ \E e \in Email, p \in Password : BeginRegister(h, e, p) \/ BeginLogin(h, e, p)
    \/ InsertUser(h) \/ InsertConflict(h) \/ Confirm(h) \/ Conflict(h)
    \/ FindUser(h) \/ Accept(h) \/ Refuse(h)
    \/ Abort(h)

Spec == Init /\ [][Next]_vars

-----------------------------------------------------------------------------
\* Whoever was told 201 can log in with the credentials he registered, in the
\* spelling he used, whatever other registrations of that address came before,
\* beside or after his.
RegisteredCanLogin ==
  \A h \in Handler : At(h, "refuse") => ~work[h].entitled

\* One account per person: however an address is spelled, at most one
\* registration with it is confirmed, and at most one is on record.
OneConfirmationPerAddress ==
  \A a, b \in promised : Canonical[a[1]] = Canonical[b[1]] => a = b
=============================================================================
