--------------------------- MODULE AccountsProofs ----------------------------
(***************************************************************************)
(* Every safety property of Accounts, for any number of handlers,          *)
(* addresses, spellings and passwords.                                     *)
(*                                                                         *)
(* The argument: a row is never changed or deleted, so the request that    *)
(* inserted it is the only one that can ever be confirmed for its address; *)
(* and whoever was told 201 finds exactly that row.                        *)
(***************************************************************************)
EXTENDS Accounts, TLAPS

\* The unique index on users.email, which holds addresses in lower case.
UniqueIndex ==
  /\ \A u \in users : Canonical[u.email] = u.email
  /\ \A u, v \in users : u.email = v.email => u = v

OnRecord(e, p) == \E u \in RowOf(e) : u.password = p

\* What was confirmed, or is about to be, is on record.
Recorded ==
  /\ \A a \in promised : OnRecord(a[1], a[2])
  /\ \A h \in Handler :
       At(h, "confirm") => OnRecord(work[h].email, work[h].password)

\* Whoever is about to be confirmed is alone with his address.
SoleConfirmer ==
  \A h \in Handler : At(h, "confirm") =>
    /\ \A a \in promised : Canonical[a[1]] # Canonical[work[h].email]
    /\ \A g \in Handler :
         /\ At(g, "confirm")
         /\ Canonical[work[g].email] = Canonical[work[h].email]
         => g = h

\* What a request was entitled to when it came in, it still is.
StillPromised ==
  \A h \in Handler : work[h] # Nobody /\ work[h].entitled =>
    <<work[h].email, work[h].password>> \in promised

IInv ==
  /\ TypeOK
  /\ UniqueIndex
  /\ Recorded
  /\ SoleConfirmer
  /\ StillPromised
  /\ RegisteredCanLogin
  /\ OneConfirmationPerAddress

-----------------------------------------------------------------------------
\* A request that is not idle has the fields of a request, and only the idle
\* state is called so.
LEMMA Busy ==
  ASSUME TypeOK, NEW h \in Handler
  PROVE  /\ work[h] # Nobody <=> work[h] \in Request
         /\ At(h, "idle") <=> work[h] = Nobody
<1>1. work[h] \in Request \cup {Nobody}
  BY DEF TypeOK
<1>2. Nobody \notin Request
  BY DEF Nobody, Request
<1>3. \A q \in Request : q.pc # "idle"
  BY DEF Request
<1> QED
  BY <1>1, <1>2, <1>3 DEF At, Nobody

\* A handler moves on: the others stay where they are.
LEMMA OneMoves ==
  ASSUME TypeOK, NEW h \in Handler, NEW r \in Request \cup {Nobody}, Become(h, r)
  PROVE  /\ work' \in [Handler -> Request \cup {Nobody}]
         /\ work'[h] = r
         /\ \A g \in Handler : g # h => work'[g] = work[g]
  BY DEF TypeOK, Become

\* An entry of the audit trail that is written or lost has its type.
LEMMA LogTyped ==
  ASSUME TypeOK, NEW e \in Event, NEW u \in UserId \cup {None}, Log(e, u)
  PROVE  audit' \subseteq [event : Event, user : UserId \cup {None}]
  BY DEF TypeOK, Log

\* A step that writes no row and confirms nobody, and after which its handler
\* is about to confirm nobody, keeps the invariant if the handler refuses no one
\* who was promised to be let in.
LEMMA QuietStep ==
  ASSUME IInv, NEW h \in Handler, NEW r \in Request \cup {Nobody}, Become(h, r),
         UNCHANGED <<users, promised>>,
         audit' \subseteq [event : Event, user : UserId \cup {None}],
         r.pc # "confirm",
         r # Nobody /\ r.entitled => <<r.email, r.password>> \in promised,
         r.pc = "refuse" => ~r.entitled
  PROVE  IInv'
<1>1. TypeOK /\ TypeOK'
  BY OneMoves DEF IInv, TypeOK
<1>2. work'[h] = r /\ \A g \in Handler : g # h => work'[g] = work[g]
  BY <1>1, OneMoves
<1>3. UniqueIndex'
  BY DEF IInv, UniqueIndex
<1>4. \A g \in Handler : At(g, "confirm")' => At(g, "confirm") /\ work'[g] = work[g]
  BY <1>2 DEF At
<1>5. Recorded'
  BY <1>4 DEF IInv, Recorded, OnRecord, RowOf
<1>6. SoleConfirmer'
  BY <1>4 DEF IInv, SoleConfirmer
<1>7. StillPromised'
  BY <1>2 DEF IInv, StillPromised
<1>8. RegisteredCanLogin'
  BY <1>2 DEF IInv, RegisteredCanLogin, At
<1>9. OneConfirmationPerAddress'
  BY DEF IInv, OneConfirmationPerAddress
<1> QED
  BY <1>1, <1>3, <1>5, <1>6, <1>7, <1>8, <1>9 DEF IInv

\* The INSERT of a row keeps the invariant: the address had no row, so nobody is
\* confirmed, or about to be, for it in any spelling.
LEMMA InsertKeeps ==
  ASSUME IInv, NEW h \in Handler, InsertUser(h)
  PROVE  IInv'
<1> DEFINE e == work[h].email
           p == work[h].password
<1>1. TypeOK /\ At(h, "insert") /\ RowOf(e) = {}
  BY DEF IInv, InsertUser
<1>2. work[h] \in Request
  BY <1>1, Busy DEF At
<1>3. e \in Email /\ p \in Password /\ Canonical[e] \in Email
      /\ Canonical[Canonical[e]] = Canonical[e]
  BY <1>2, AccountsAssumption DEF Request
<1>4. PICK id \in UserId :
        /\ \A u \in users : u.id # id
        /\ users' = users \cup {[id |-> id, email |-> Canonical[e],
                                 password |-> p]}
        /\ Become(h, [work[h] EXCEPT !.pc = "confirm", !.user = id])
  BY DEF InsertUser
<1> DEFINE row == [id |-> id, email |-> Canonical[e], password |-> p]
           r == [work[h] EXCEPT !.pc = "confirm", !.user = id]
<1>5. /\ r \in Request /\ r.pc = "confirm"
      /\ r.email = e /\ r.password = p /\ r.entitled = work[h].entitled
  BY <1>2 DEF Request
<1>6. /\ work' \in [Handler -> Request \cup {Nobody}]
      /\ work'[h] = r
      /\ \A g \in Handler : g # h => work'[g] = work[g]
  BY <1>1, <1>4, <1>5, OneMoves
<1>7. UNCHANGED <<promised, audit>>
  BY DEF InsertUser
<1> HIDE DEF r
<1>8. TypeOK'
  BY <1>1, <1>3, <1>4, <1>6, <1>7 DEF TypeOK, UserRow
<1>9. \A u \in users : u.email # Canonical[e]
  BY <1>1 DEF RowOf
<1>10. UniqueIndex'
  BY <1>3, <1>4, <1>9 DEF IInv, UniqueIndex
<1>11. Recorded'
  <2>1. \A f \in Email, q \in Password : OnRecord(f, q) => OnRecord(f, q)'
    BY <1>4 DEF OnRecord, RowOf
  <2>2. \E u \in users' : u.email = Canonical[e] /\ u.password = p
    <3>1. row \in users' /\ row.email = Canonical[e] /\ row.password = p
      BY <1>4
    <3> QED
      BY <3>1
  <2>3. \A a \in promised : a[1] \in Email /\ a[2] \in Password
    BY <1>1 DEF TypeOK
  <2>4. ASSUME NEW g \in Handler, At(g, "confirm")'
        PROVE  OnRecord(work[g].email, work[g].password)'
    <3>1. CASE g = h
      BY <3>1, <1>5, <1>6, <2>2 DEF OnRecord, RowOf
    <3>2. CASE g # h
      <4>1. At(g, "confirm") /\ work'[g] = work[g]
        BY <2>4, <3>2, <1>6 DEF At
      <4>2. work[g].email \in Email /\ work[g].password \in Password
        BY <4>1, <1>1, Busy DEF At, Request, Nobody
      <4> QED
        BY <4>1, <4>2, <2>1 DEF IInv, Recorded, OnRecord, RowOf
    <3> QED
      BY <3>1, <3>2
  <2> QED
    BY <1>7, <2>1, <2>3, <2>4 DEF IInv, Recorded
<1>12. \A a \in promised : Canonical[a[1]] # Canonical[e]
  BY <1>9 DEF IInv, Recorded, OnRecord, RowOf
<1>13. \A g \in Handler : At(g, "confirm") => Canonical[work[g].email] # Canonical[e]
  BY <1>9 DEF IInv, Recorded, OnRecord, RowOf
<1>14. SoleConfirmer'
  BY <1>5, <1>6, <1>7, <1>12, <1>13 DEF IInv, SoleConfirmer, At
<1>15. StillPromised'
  <2>1. work[h] # Nobody
    BY <1>1 DEF At, Nobody
  <2> QED
    BY <1>5, <1>6, <1>7, <2>1 DEF IInv, StillPromised
<1>16. RegisteredCanLogin'
  BY <1>5, <1>6 DEF IInv, RegisteredCanLogin, At
<1>17. OneConfirmationPerAddress'
  BY <1>7 DEF IInv, OneConfirmationPerAddress
<1> QED
  BY <1>8, <1>10, <1>11, <1>14, <1>15, <1>16, <1>17 DEF IInv

\* The answer 201 keeps the invariant: its handler was alone with the address.
LEMMA ConfirmKeeps ==
  ASSUME IInv, NEW h \in Handler, Confirm(h)
  PROVE  IInv'
<1> DEFINE e == work[h].email
           p == work[h].password
<1>1. TypeOK /\ At(h, "confirm") /\ UNCHANGED users
  BY DEF IInv, Confirm
<1>2. work[h] \in Request
  BY <1>1, Busy DEF At
<1>3. e \in Email /\ p \in Password /\ work[h].user \in UserId \cup {None}
  BY <1>2 DEF Request
<1>4. promised' = promised \cup {<<e, p>>} \/ promised' = promised
  BY DEF Confirm
<1>5. /\ work' \in [Handler -> Request \cup {Nobody}]
      /\ work'[h] = Nobody
      /\ \A g \in Handler : g # h => work'[g] = work[g]
  BY <1>1, OneMoves DEF Confirm
<1>6. audit' \subseteq [event : Event, user : UserId \cup {None}]
  BY <1>1, <1>3, LogTyped DEF Confirm, Event
<1>7. TypeOK'
  BY <1>1, <1>3, <1>4, <1>5, <1>6 DEF TypeOK
<1>8. UniqueIndex'
  BY <1>1 DEF IInv, UniqueIndex
<1>9. \A g \in Handler : At(g, "confirm")' =>
        At(g, "confirm") /\ work'[g] = work[g] /\ g # h
  BY <1>5 DEF At, Nobody
<1>10. Recorded'
  <2>1. OnRecord(e, p)
    BY <1>1 DEF IInv, Recorded
  <2>2. \A a \in promised' : OnRecord(a[1], a[2])
    BY <1>4, <2>1 DEF IInv, Recorded
  <2> QED
    BY <1>1, <1>9, <2>2 DEF IInv, Recorded, OnRecord, RowOf
<1>11. \A a \in promised : Canonical[a[1]] # Canonical[e]
  BY <1>1 DEF IInv, SoleConfirmer
<1>12. SoleConfirmer'
  BY <1>1, <1>4, <1>9 DEF IInv, SoleConfirmer
<1>13. StillPromised'
  BY <1>4, <1>5 DEF IInv, StillPromised
<1>14. RegisteredCanLogin'
  BY <1>5 DEF IInv, RegisteredCanLogin, At, Nobody
<1>15. OneConfirmationPerAddress'
  BY <1>4, <1>11 DEF IInv, OneConfirmationPerAddress
<1> QED
  BY <1>7, <1>8, <1>10, <1>12, <1>13, <1>14, <1>15 DEF IInv

\* A look at the table refuses no one who was promised to be let in: his address
\* has one row, and it has his password.
LEMMA FindKeeps ==
  ASSUME IInv, NEW h \in Handler, FindUser(h)
  PROVE  IInv'
<1> DEFINE e == work[h].email
           p == work[h].password
<1>1. TypeOK /\ At(h, "find") /\ UNCHANGED <<users, promised, audit>>
  BY DEF IInv, FindUser
<1>2. work[h] \in Request /\ work[h] # Nobody
  BY <1>1, Busy DEF At
<1>3. work[h].entitled => \E u \in RowOf(e) : u.password = p
  BY <1>2 DEF IInv, StillPromised, Recorded, OnRecord
<1>4. \A u, v \in RowOf(e) : u = v
  BY DEF IInv, UniqueIndex, RowOf
<1>5. audit' \subseteq [event : Event, user : UserId \cup {None}]
  BY <1>1 DEF TypeOK
<1>6. work[h].entitled => <<e, p>> \in promised
  BY <1>2 DEF IInv, StillPromised
<1>7. CASE RowOf(e) = {} /\ Become(h, [work[h] EXCEPT !.pc = "refuse"])
  <2> DEFINE r == [work[h] EXCEPT !.pc = "refuse"]
  <2>1. /\ r \in Request /\ r.pc = "refuse"
        /\ r.email = e /\ r.password = p /\ r.entitled = work[h].entitled
    BY <1>2 DEF Request
  <2> HIDE DEF r
  <2>2. ~r.entitled
    BY <1>3, <1>7, <2>1
  <2>3. Become(h, r)
    BY <1>7 DEF r
  <2> QED
    BY <1>1, <1>5, <2>1, <2>2, <2>3, QuietStep
<1>8. CASE \E u \in RowOf(e) :
             Become(h, [work[h] EXCEPT !.user = u.id,
                          !.pc = IF u.password = p THEN "accept" ELSE "refuse"])
  <2>1. PICK u \in RowOf(e) :
          Become(h, [work[h] EXCEPT !.user = u.id,
                       !.pc = IF u.password = p THEN "accept" ELSE "refuse"])
    BY <1>8
  <2> DEFINE r == [work[h] EXCEPT !.user = u.id,
                     !.pc = IF u.password = p THEN "accept" ELSE "refuse"]
  <2>2. u.id \in UserId
    BY <1>1 DEF RowOf, TypeOK, UserRow
  <2>3. /\ r \in Request /\ r.pc # "confirm"
        /\ r.email = e /\ r.password = p /\ r.entitled = work[h].entitled
        /\ r.pc = "refuse" => u.password # p
    BY <1>2, <2>2 DEF Request
  <2>4. Become(h, r)
    BY <2>1
  <2> HIDE DEF r
  <2>5. r.pc = "refuse" => ~r.entitled
    BY <1>3, <1>4, <2>3
  <2>6. r.entitled => <<r.email, r.password>> \in promised
    BY <1>6, <2>3
  <2> QED
    BY <1>1, <1>5, <2>3, <2>4, <2>5, <2>6, QuietStep
<1> QED
  BY <1>7, <1>8 DEF FindUser

\* The other steps write no row and confirm nobody.
LEMMA OthersKeep ==
  ASSUME IInv, NEW h \in Handler,
         \/ \E e \in Email, p \in Password : BeginRegister(h, e, p) \/ BeginLogin(h, e, p)
         \/ InsertConflict(h) \/ Conflict(h) \/ Refuse(h) \/ Accept(h) \/ Abort(h)
  PROVE  IInv'
<1> DEFINE Logged == audit' \subseteq [event : Event, user : UserId \cup {None}]
<1>1. TypeOK
  BY DEF IInv
<1>2. UNCHANGED audit => Logged
  BY <1>1 DEF TypeOK
<1>3. ASSUME UNCHANGED <<users, promised>>, Logged, Become(h, Nobody)
      PROVE  IInv'
  BY <1>3, QuietStep DEF Nobody
<1>4. ASSUME NEW e \in Email, NEW p \in Password, NEW pc \in {"insert", "find"},
             Begin(h, pc, e, p)
      PROVE  IInv'
  <2> DEFINE r == [pc |-> pc, email |-> e, password |-> p, user |-> None,
                   entitled |-> <<e, p>> \in promised]
  <2>1. (<<e, p>> \in promised) \in BOOLEAN
    OBVIOUS
  <2>2. r \in Request /\ r.pc # "confirm" /\ r.pc # "refuse"
    BY <2>1 DEF Request
  <2>3. r.entitled => <<r.email, r.password>> \in promised
    OBVIOUS
  <2>4. Become(h, r) /\ UNCHANGED <<users, promised>> /\ Logged
    BY <1>2, <1>4 DEF Begin
  <2> HIDE DEF r
  <2> QED
    BY <2>2, <2>3, <2>4, QuietStep
<1>5. CASE \E e \in Email, p \in Password : BeginRegister(h, e, p) \/ BeginLogin(h, e, p)
  BY <1>4, <1>5 DEF BeginRegister, BeginLogin
<1>6. CASE InsertConflict(h)
  <2> DEFINE r == [work[h] EXCEPT !.pc = "conflict"]
  <2>1. work[h] \in Request /\ work[h] # Nobody
    BY <1>1, <1>6, Busy DEF InsertConflict, At
  <2>2. /\ r \in Request /\ r.pc = "conflict" /\ r.email = work[h].email
        /\ r.password = work[h].password /\ r.entitled = work[h].entitled
    BY <2>1 DEF Request
  <2>3. Become(h, r) /\ UNCHANGED <<users, promised>> /\ Logged
    BY <1>2, <1>6 DEF InsertConflict
  <2> HIDE DEF r
  <2>4. r.entitled => <<r.email, r.password>> \in promised
    BY <2>1, <2>2 DEF IInv, StillPromised
  <2> QED
    BY <2>2, <2>3, <2>4, QuietStep
<1>7. CASE Conflict(h)
  BY <1>1, <1>3, <1>7, LogTyped DEF Conflict, Event
<1>8. CASE Refuse(h)
  <2>1. work[h].user \in UserId \cup {None}
    BY <1>1, <1>8, Busy DEF Refuse, At, Request
  <2> QED
    BY <1>1, <1>3, <1>8, <2>1, LogTyped DEF Refuse, Event
<1>9. CASE Accept(h)
  BY <1>2, <1>3, <1>9 DEF Accept
<1>10. CASE Abort(h)
  BY <1>2, <1>3, <1>10 DEF Abort
<1> QED
  BY <1>5, <1>6, <1>7, <1>8, <1>9, <1>10

\* No step of a registration, confirmation or login breaks the invariant.
LEMMA Inductive == IInv /\ [Next]_vars => IInv'
<1> SUFFICES ASSUME IInv, [Next]_vars PROVE IInv'
  OBVIOUS
<1>1. CASE Next
  BY <1>1, InsertKeeps, ConfirmKeeps, FindKeeps, OthersKeep DEF Next
<1>2. CASE UNCHANGED vars
  BY <1>2 DEF vars, IInv, TypeOK, UniqueIndex, Recorded, OnRecord, RowOf,
              SoleConfirmer, StillPromised, RegisteredCanLogin,
              OneConfirmationPerAddress, At
<1> QED
  BY <1>1, <1>2

\* It holds of the empty tables.
LEMMA Initial == Init => IInv
<1> SUFFICES ASSUME Init PROVE IInv
  OBVIOUS
<1>1. \A h \in Handler : work[h] = Nobody /\ work[h].pc = "idle"
  BY DEF Init, Nobody
<1>2. TypeOK
  BY DEF Init, TypeOK
<1> QED
  BY <1>1, <1>2 DEF Init, IInv, UniqueIndex, Recorded, SoleConfirmer,
     StillPromised, RegisteredCanLogin, OneConfirmationPerAddress, At

-----------------------------------------------------------------------------
\* Rows and requests have the types TypeOK gives them.
THEOREM TypeCorrect == Spec => []TypeOK
<1>1. IInv => TypeOK
  BY DEF IInv
<1> QED
  BY Initial, Inductive, <1>1, PTL DEF Spec

\* Login refuses no one who was told his registration succeeded, as long as he
\* types what he typed then.
THEOREM ConfirmedCanLogin == Spec => []RegisteredCanLogin
<1>1. IInv => RegisteredCanLogin
  BY DEF IInv
<1> QED
  BY Initial, Inductive, <1>1, PTL DEF Spec

\* Of all registrations of one address, in whatever spelling and however they
\* overlap, at most one is ever told it succeeded.
THEOREM OneConfirmed == Spec => []OneConfirmationPerAddress
<1>1. IInv => OneConfirmationPerAddress
  BY DEF IInv
<1> QED
  BY Initial, Inductive, <1>1, PTL DEF Spec
=============================================================================
