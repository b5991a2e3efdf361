------------------------- MODULE AuthServiceSafety --------------------------
(***************************************************************************)
(* Type correctness, the safety properties and the promise of AuthService, *)
(* proved for every value of the constants.                                *)
(*                                                                         *)
(* The stores only ever move one way: a session row stays and keeps its    *)
(* owner, an index only grows, a token that is out of use stays so         *)
(* (Monotone).  What a request has learnt from the stores therefore stays  *)
(* true while the others run (Knows), and that is what makes the next      *)
(* write of the request harmless.                                          *)
(***************************************************************************)
EXTENDS AuthService, TLAPS

-----------------------------------------------------------------------------
(* Type correctness.  A handler indexes the stores with the user, session  *)
(* and token of its request, so their types need to be known where they    *)
(* are used: Shape tells which calls an operation makes and what the       *)
(* request knows at each of them.                                          *)

Revoking == {"logoutAll", "reuse", "revokeSession"}

Loop == {"listTokens", "revokeNext", "updateGet", "updateSet", "finish"}

CallsOf(op) ==
  CASE op = "none"          -> {"idle"}
    [] op = "login"         -> {"insertSession", "createToken", "finish"}
    [] op = "refresh"       -> {"findToken", "updateGet", "updateSet",
                                "createToken", "touchSession", "finish"}
    [] op = "rejected"      -> {"finish"}
    [] op = "logout"        -> {"findToken", "updateGet", "updateSet",
                                "endSession", "finish"}
    [] op = "revokeSession" -> Loop \cup {"findSession"}
    [] OTHER                -> Loop

\* The request has read the record of the token it presents.
Found(r) == r.op = "refresh" /\ r.pc # "findToken"

Shape(r) ==
  /\ r.pc \in CallsOf(r.op)
  /\ r.op \in {"login"} \cup Revoking \/ Found(r) => r.user \in User
  /\ r.op = "revokeSession" \/ Found(r) \/ r.pc = "createToken" => r.session \in Session
  /\ r.op = "refresh" \/ r.pc = "findToken" => r.token \in Token
  /\ r.pc \in {"updateGet", "updateSet", "touchSession"} => r.cur \in Token
  /\ r.pc = "updateSet" => r.rec \in TokenRecord
  /\ r.op \in {"login", "refresh"} /\ r.pc = "finish" => r.cur \in Token

TypeInv == TypeOK /\ \A h \in Handler : Shape(req[h])

\* A request's record stays one when h replaces it.
LEMMA BecomeType ==
  ASSUME TypeInv, NEW h \in Handler, NEW r \in Request, Shape(r), Become(h, r)
  PROVE  req' \in [Handler -> Request] /\ \A g \in Handler : Shape(req'[g])
BY DEF TypeInv, TypeOK, Become

\* A step that leaves the stores alone only has to replace the request.
LEMMA ProceedType ==
  ASSUME TypeInv, NEW h \in Handler, NEW r \in Request, Shape(r), Proceed(h, r)
  PROVE  TypeInv'
<1>1. req' \in [Handler -> Request] /\ \A g \in Handler : Shape(req'[g])
  BY BecomeType DEF Proceed
<1> QED
  BY <1>1 DEF TypeInv, TypeOK, StoreTypeOK, SessionsTypeOK, Proceed, storeVars, Shape

\* A handler that serves nothing holds a well-formed request record.
LEMMA IdleType == Idle \in Request /\ Shape(Idle)
BY BoundsAssumption DEF Idle, Request, Call, Operation, Shape, CallsOf, Found, Revoking

\* The empty stores and idle handlers the server starts with are well typed.
LEMMA InitType == Init => TypeInv
<1> SUFFICES ASSUME Init PROVE TypeInv
  OBVIOUS
<1>1. StoreTypeOK
  BY BoundsAssumption DEF Init, StoreInit, StoreTypeOK, Token
<1>2. SessionsTypeOK
  BY DEF Init, SessionsInit, SessionsTypeOK
<1> QED
  BY <1>1, <1>2, IdleType DEF Init, TypeInv, TypeOK

\* The requests that arrive.
LEMMA ArriveType ==
  ASSUME TypeInv, NEW h \in Handler, Arrive(h)
  PROVE  TypeInv'
<1>1. ASSUME NEW u \in User, BeginLogin(h, u)
      PROVE  TypeInv'
  <2> DEFINE r == [Idle EXCEPT !.pc = "insertSession", !.op = "login", !.user = u]
  <2>1. r \in Request
    BY IdleType DEF Request, Call, Operation
  <2>2. r.pc = "insertSession" /\ r.op = "login" /\ r.user = u
    BY IdleType DEF Request
  <2>3. Proceed(h, r)
    BY <1>1 DEF BeginLogin, Begin
  <2> HIDE DEF r
  <2>4. Shape(r)
    BY <2>2 DEF Shape, CallsOf, Found, Revoking, Loop
  <2> QED
    BY <2>1, <2>3, <2>4, ProceedType
<1>2. ASSUME NEW u \in User, BeginLogoutAll(h, u)
      PROVE  TypeInv'
  <2> DEFINE r == [Idle EXCEPT !.pc = "listTokens", !.op = "logoutAll", !.user = u]
  <2>1. r \in Request
    BY IdleType DEF Request, Call, Operation
  <2>2. r.pc = "listTokens" /\ r.op = "logoutAll" /\ r.user = u
    BY IdleType DEF Request
  <2>3. Proceed(h, r)
    BY <1>2 DEF BeginLogoutAll, Begin
  <2> HIDE DEF r
  <2>4. Shape(r)
    BY <2>2 DEF Shape, CallsOf, Found, Revoking, Loop
  <2> QED
    BY <2>1, <2>3, <2>4, ProceedType
<1>3. ASSUME NEW t \in Token, BeginRefresh(h, t)
      PROVE  TypeInv'
  <2> DEFINE r == [Idle EXCEPT !.pc = "findToken", !.op = "refresh", !.token = t]
  <2>1. r \in Request
    BY IdleType DEF Request, Call, Operation
  <2>2. r.pc = "findToken" /\ r.op = "refresh" /\ r.token = t
    BY IdleType DEF Request
  <2>3. Proceed(h, r)
    BY <1>3 DEF BeginRefresh, Begin
  <2> HIDE DEF r
  <2>4. Shape(r)
    BY <2>2 DEF Shape, CallsOf, Found, Revoking, Loop
  <2> QED
    BY <2>1, <2>3, <2>4, ProceedType
<1>4. ASSUME NEW t \in Token, BeginLogout(h, t)
      PROVE  TypeInv'
  <2> DEFINE r == [Idle EXCEPT !.pc = "findToken", !.op = "logout", !.token = t]
  <2>1. r \in Request
    BY IdleType DEF Request, Call, Operation
  <2>2. r.pc = "findToken" /\ r.op = "logout" /\ r.token = t
    BY IdleType DEF Request
  <2>3. Proceed(h, r)
    BY <1>4 DEF BeginLogout, Begin
  <2> HIDE DEF r
  <2>4. Shape(r)
    BY <2>2 DEF Shape, CallsOf, Found, Revoking, Loop
  <2> QED
    BY <2>1, <2>3, <2>4, ProceedType
<1>5. ASSUME NEW u \in User, NEW s \in Session, BeginRevokeSession(h, u, s)
      PROVE  TypeInv'
  <2> DEFINE r == [Idle EXCEPT !.pc = "findSession", !.op = "revokeSession",
                               !.user = u, !.session = s]
  <2>1. r \in Request
    BY IdleType DEF Request, Call, Operation
  <2>2. /\ r.pc = "findSession" /\ r.op = "revokeSession"
        /\ r.user = u /\ r.session = s
    BY IdleType DEF Request
  <2>3. Proceed(h, r)
    BY <1>5 DEF BeginRevokeSession, Begin
  <2> HIDE DEF r
  <2>4. Shape(r)
    BY <2>2 DEF Shape, CallsOf, Found, Revoking, Loop
  <2> QED
    BY <2>1, <2>3, <2>4, ProceedType
<1>6. CASE BeginLogoutNoCookie(h)
  <2> DEFINE r == [Idle EXCEPT !.pc = "finish", !.op = "logout"]
  <2>1. r \in Request
    BY IdleType DEF Request, Call, Operation
  <2>2. r.pc = "finish" /\ r.op = "logout"
    BY IdleType DEF Request
  <2>3. Proceed(h, r)
    BY <1>6 DEF BeginLogoutNoCookie, Begin
  <2> HIDE DEF r
  <2>4. Shape(r)
    BY <2>2 DEF Shape, CallsOf, Found, Revoking, Loop
  <2> QED
    BY <2>1, <2>3, <2>4, ProceedType
<1> QED
  BY <1>1, <1>2, <1>3, <1>4, <1>5, <1>6 DEF Arrive

\* The request that has read the record of its token.
LEMMA IdentifiedType ==
  ASSUME TypeInv, NEW h \in Handler, At(h, "findToken"), Presented(h) # None
  PROVE  /\ Identified(h) \in Request
         /\ Identified(h).op = req[h].op
         /\ Identified(h).token = req[h].token
         /\ Identified(h).user \in User
         /\ Identified(h).session \in Session
         /\ req[h].token \in Token
<1>1. req[h] \in Request /\ req[h].token \in Token
  BY DEF TypeInv, TypeOK, Shape, At
<1>2. Presented(h) \in TokenRecord
  BY <1>1 DEF TypeInv, TypeOK, StoreTypeOK, Presented
<1>3. Presented(h).user \in User /\ Presented(h).session \in Session
  BY <1>2 DEF TokenRecord
<1> QED
  BY <1>1, <1>3 DEF Identified, Request

\* The steps of a handler that only read the stores.
LEMMA ReadType ==
  ASSUME TypeInv, NEW h \in Handler,
         \/ RefreshUnknown(h) \/ RefreshReused(h) \/ RefreshRefused(h)
         \/ RefreshAccepted(h) \/ LogoutFind(h) \/ UpdateGet(h)
         \/ UpdateMissing(h) \/ TouchSession(h) \/ FindSession(h)
         \/ ListTokens(h) \/ RevokeNext(h) \/ Abort(h)
  PROVE  TypeInv'
<1> USE DEF At, LookingUp
<1>0. req[h] \in Request /\ Shape(req[h])
  BY DEF TypeInv, TypeOK
<1>1. CASE RefreshUnknown(h)
  <2> DEFINE r == [req[h] EXCEPT !.op = "rejected", !.pc = "finish"]
  <2>1. r \in Request /\ r.op = "rejected" /\ r.pc = "finish"
    BY <1>0 DEF Request, Call, Operation
  <2>2. Proceed(h, r)
    BY <1>1 DEF RefreshUnknown
  <2> HIDE DEF r
  <2>3. Shape(r)
    BY <2>1 DEF Shape, CallsOf, Found, Revoking
  <2> QED
    BY <2>1, <2>2, <2>3, ProceedType
<1>2. CASE RefreshReused(h)
  <2> DEFINE r == [Identified(h) EXCEPT !.op = "reuse", !.pc = "listTokens",
                                        !.token = None]
  <2>0. At(h, "findToken") /\ Presented(h) # None
    BY <1>2 DEF RefreshReused
  <2>1. /\ r \in Request /\ r.op = "reuse" /\ r.pc = "listTokens"
        /\ r.user \in User
    BY <2>0, IdentifiedType DEF Request, Call, Operation
  <2>2. Proceed(h, r)
    BY <1>2 DEF RefreshReused
  <2> HIDE DEF r
  <2>3. Shape(r)
    BY <2>1 DEF Shape, CallsOf, Found, Revoking, Loop
  <2> QED
    BY <2>1, <2>2, <2>3, ProceedType
<1>3. CASE RefreshRefused(h)
  <2> DEFINE r == [Identified(h) EXCEPT !.op = "rejected", !.pc = "finish"]
  <2>0. At(h, "findToken") /\ Presented(h) # None
    BY <1>3 DEF RefreshRefused
  <2>1. r \in Request /\ r.op = "rejected" /\ r.pc = "finish"
    BY <2>0, IdentifiedType DEF Request, Call, Operation
  <2>2. Proceed(h, r)
    BY <1>3 DEF RefreshRefused
  <2> HIDE DEF r
  <2>3. Shape(r)
    BY <2>1 DEF Shape, CallsOf, Found, Revoking
  <2> QED
    BY <2>1, <2>2, <2>3, ProceedType
<1>4. CASE RefreshAccepted(h)
  <2> DEFINE r == [Identified(h) EXCEPT !.pc = "updateGet", !.cur = req[h].token]
  <2>0. At(h, "findToken") /\ Presented(h) # None /\ req[h].op = "refresh"
    BY <1>4 DEF RefreshAccepted, Usable, Live, Presented
  <2>1. /\ r \in Request /\ r.op = "refresh" /\ r.pc = "updateGet"
        /\ r.user \in User /\ r.session \in Session
        /\ r.token \in Token /\ r.cur \in Token
    BY <2>0, IdentifiedType DEF Request, Call
  <2>2. Proceed(h, r)
    BY <1>4 DEF RefreshAccepted
  <2> HIDE DEF r
  <2>3. Shape(r)
    BY <2>1 DEF Shape, CallsOf, Found, Revoking
  <2> QED
    BY <2>1, <2>2, <2>3, ProceedType
<1>5. CASE LogoutFind(h)
  <2> DEFINE i == IF Presented(h) = None THEN req[h] ELSE Identified(h)
             r == [i EXCEPT !.pc = "updateGet", !.cur = req[h].token]
  <2>0. At(h, "findToken") /\ req[h].op = "logout"
    BY <1>5 DEF LogoutFind
  <2>1. i \in Request /\ i.op = "logout" /\ req[h].token \in Token
    BY <1>0, <2>0, IdentifiedType DEF Shape
  <2>2. Proceed(h, r)
    BY <1>5 DEF LogoutFind
  <2> HIDE DEF i
  <2>3. r \in Request /\ r.op = "logout" /\ r.pc = "updateGet" /\ r.cur \in Token
    BY <2>1 DEF Request, Call
  <2> HIDE DEF r
  <2>4. Shape(r)
    BY <2>3 DEF Shape, CallsOf, Found, Revoking
  <2> QED
    BY <2>2, <2>3, <2>4, ProceedType
<1>6. CASE UpdateGet(h)
  <2> DEFINE c == req[h].cur
             s == [tokens[c] EXCEPT !.status = NewStatus(req[h])]
             r == [req[h] EXCEPT !.pc = "updateSet", !.rec = s]
  <2>0. req[h].pc = "updateGet" /\ tokens[c] # None
    BY <1>6 DEF UpdateGet
  <2>1. c \in Token
    BY <1>0, <2>0 DEF Shape
  <2>2. tokens[c] \in TokenRecord
    BY <2>0, <2>1 DEF TypeInv, TypeOK, StoreTypeOK
  <2>3. s \in TokenRecord
    BY <2>2 DEF TokenRecord, NewStatus
  <2>4. Proceed(h, r)
    BY <1>6 DEF UpdateGet
  <2> HIDE DEF s
  <2>5. r \in Request /\ r.pc = "updateSet" /\ r.rec \in TokenRecord
    BY <1>0, <2>3 DEF Request, Call
  <2>6. /\ r.op = req[h].op /\ r.user = req[h].user /\ r.cur = c
        /\ r.session = req[h].session /\ r.token = req[h].token
    BY <1>0 DEF Request
  <2> HIDE DEF r
  <2>7. Shape(r)
    BY <1>0, <2>0, <2>5, <2>6 DEF Shape, CallsOf, Found, Revoking, Loop
  <2> QED
    BY <2>4, <2>5, <2>7, ProceedType
<1>7. CASE UpdateMissing(h) /\ req[h].op = "refresh"
  BY <1>7, IdleType, ProceedType DEF UpdateMissing
<1>8. CASE UpdateMissing(h) /\ req[h].op # "refresh"
  <2> DEFINE r == [req[h] EXCEPT !.pc = AfterUpdate(req[h]), !.cur = None]
  <2>0. req[h].pc = "updateGet"
    BY <1>8 DEF UpdateMissing
  <2>1. /\ r \in Request /\ r.pc = AfterUpdate(req[h])
        /\ r.op = req[h].op /\ r.user = req[h].user
        /\ r.session = req[h].session /\ r.token = req[h].token
    BY <1>0 DEF Request, Call, AfterUpdate
  <2>2. Proceed(h, r)
    BY <1>8 DEF UpdateMissing
  <2> HIDE DEF r
  <2>3. Shape(r)
    BY <1>0, <1>8, <2>0, <2>1
    DEF Shape, CallsOf, Found, Revoking, Loop, AfterUpdate, Request, Operation
  <2> QED
    BY <2>1, <2>2, <2>3, ProceedType
<1>9. CASE TouchSession(h)
  <2> DEFINE r == [req[h] EXCEPT !.pc = "finish"]
  <2>1. /\ r \in Request /\ r.pc = "finish" /\ req[h].pc = "touchSession"
        /\ r.op = req[h].op /\ r.user = req[h].user /\ r.cur = req[h].cur
        /\ r.session = req[h].session /\ r.token = req[h].token
    BY <1>0, <1>9 DEF Request, Call, TouchSession
  <2>2. Proceed(h, r)
    BY <1>9 DEF TouchSession
  <2> HIDE DEF r
  <2>3. Shape(r)
    BY <1>0, <2>1 DEF Shape, CallsOf, Found, Revoking, Loop, Request, Operation
  <2> QED
    BY <2>1, <2>2, <2>3, ProceedType
<1>10. CASE FindSession(h)
  <2> DEFINE r == [req[h] EXCEPT !.pc = "listTokens"]
  <2>1. /\ r \in Request /\ r.pc = "listTokens" /\ req[h].pc = "findSession"
        /\ r.op = req[h].op /\ r.user = req[h].user
        /\ r.session = req[h].session /\ r.token = req[h].token
    BY <1>0, <1>10 DEF Request, Call, FindSession
  <2>2. Proceed(h, r) \/ Proceed(h, Idle)
    BY <1>10 DEF FindSession
  <2> HIDE DEF r
  <2>3. Shape(r)
    BY <1>0, <2>1 DEF Shape, CallsOf, Found, Revoking, Loop, Request, Operation
  <2> QED
    BY <2>1, <2>2, <2>3, ProceedType, IdleType
<1>11. CASE ListTokens(h)
  <2> DEFINE l == IF req[h].op = "revokeSession" THEN sessionTokens[req[h].session]
                                                ELSE userTokens[req[h].user]
             r == [req[h] EXCEPT !.pc = "revokeNext", !.since = issued, !.todo = l]
  <2>1. req[h].pc = "listTokens" /\ req[h].op \in Revoking
    BY <1>0, <1>11
    DEF ListTokens, Shape, CallsOf, Revoking, Loop, Request, Operation
  <2>2. l \in SUBSET Token /\ issued \in 0..MaxTokens
    BY <1>0, <2>1, BoundsAssumption
    DEF TypeInv, TypeOK, StoreTypeOK, Shape, Revoking
  <2>3. Proceed(h, r)
    BY <1>11 DEF ListTokens
  <2> HIDE DEF l
  <2>4. /\ r \in Request /\ r.pc = "revokeNext"
        /\ r.op = req[h].op /\ r.user = req[h].user
        /\ r.session = req[h].session /\ r.token = req[h].token
    BY <1>0, <2>2 DEF Request, Call
  <2> HIDE DEF r
  <2>5. Shape(r)
    BY <1>0, <2>1, <2>4 DEF Shape, CallsOf, Found, Revoking, Loop
  <2> QED
    BY <2>3, <2>4, <2>5, ProceedType
<1>12. CASE RevokeNext(h)
  <2>1. req[h].pc = "revokeNext"
    BY <1>12 DEF RevokeNext
  <2>2. PICK t \in req[h].todo :
          LET rest == [req[h] EXCEPT !.todo = @ \ {t}]
              hit  == tokens[t] # None /\ tokens[t].status \in {"ACTIVE", "USED"}
          IN  Become(h, IF hit THEN [rest EXCEPT !.pc = "updateGet", !.cur = t]
                               ELSE rest)
    BY <1>12 DEF RevokeNext
  <2> DEFINE rest == [req[h] EXCEPT !.todo = @ \ {t}]
             next == [rest EXCEPT !.pc = "updateGet", !.cur = t]
  <2>3. t \in Token
    BY <1>0 DEF Request
  <2>4. /\ rest \in Request /\ rest.pc = "revokeNext"
        /\ rest.op = req[h].op /\ rest.user = req[h].user
        /\ rest.session = req[h].session /\ rest.token = req[h].token
    BY <1>0, <2>1 DEF Request
  <2>5. Proceed(h, rest) \/ Proceed(h, next)
    BY <1>12, <2>2 DEF RevokeNext, Proceed
  <2> HIDE DEF rest
  <2>6. /\ next \in Request /\ next.pc = "updateGet" /\ next.cur = t
        /\ next.op = req[h].op /\ next.user = req[h].user
        /\ next.session = req[h].session /\ next.token = req[h].token
    BY <2>3, <2>4 DEF Request, Call
  <2> HIDE DEF next
  <2>7. Shape(rest) /\ Shape(next)
    BY <1>0, <2>1, <2>3, <2>4, <2>6
    DEF Shape, CallsOf, Found, Revoking, Loop, Request, Operation
  <2> QED
    BY <2>4, <2>5, <2>6, <2>7, ProceedType
<1>13. CASE Abort(h)
  BY <1>13, IdleType, ProceedType DEF Abort
<1> QED
  BY <1>1, <1>2, <1>3, <1>4, <1>5, <1>6, <1>7, <1>8, <1>9, <1>10, <1>11, <1>12,
     <1>13

\* What a write leaves to prove: the variable it changes, and the request.
LEMMA WriteType ==
  ASSUME TypeInv, StoreTypeOK', SessionsTypeOK',
         audit' \subseteq AuditRow, delivered' \subseteq Token,
         NEW h \in Handler, NEW r \in Request, Shape(r), Become(h, r)
  PROVE  TypeInv'
<1>1. req' \in [Handler -> Request] /\ \A g \in Handler : Shape(req'[g])
  BY BecomeType
<1> QED
  BY <1>1 DEF TypeInv, TypeOK, Shape

\* The UPDATE that revokes session rows leaves every row a row.
LEMMA SessionsRevoked ==
  ASSUME SessionsTypeOK, NEW S, Revoke(S)
  PROVE  SessionsTypeOK'
BY DEF SessionsTypeOK, Revoke, SessionRow

\* RefreshTokenRepository.Create stores a record and indexes a generated token.
LEMMA CreateKeepsType ==
  ASSUME StoreTypeOK, NEW u \in User, NEW s \in Session, Create(u, s)
  PROVE  StoreTypeOK' /\ issued + 1 \in Token
<1>1. issued + 1 \in Token /\ issued' \in 0..MaxTokens /\ lapsed' \in 0..issued'
  BY BoundsAssumption DEF StoreTypeOK, Create, Token
<1>2. [user |-> u, session |-> s, status |-> "ACTIVE"] \in TokenRecord
  BY DEF TokenRecord
<1> QED
  BY <1>1, <1>2 DEF StoreTypeOK, Create

\* The SET of Update leaves every key a token record.
LEMMA SetKeepsType ==
  ASSUME StoreTypeOK, NEW t \in Token, NEW record \in TokenRecord, Set(t, record)
  PROVE  StoreTypeOK'
BY DEF StoreTypeOK, Set

\* The steps of a handler that write.
LEMMA StoreType ==
  ASSUME TypeInv, NEW h \in Handler,
         \/ InsertSession(h) \/ CreateToken(h) \/ UpdateSet(h)
         \/ UpdateResent(h) \/ EndSession(h) \/ RevokeSessions(h) \/ Finish(h)
  PROVE  TypeInv'
<1>0. req[h] \in Request /\ Shape(req[h]) /\ TypeOK
  BY DEF TypeInv, TypeOK
<1> USE DEF At
<1>1. CASE InsertSession(h)
  <2>1. req[h].pc = "insertSession" /\ req[h].op = "login" /\ req[h].user \in User
    BY <1>0, <1>1
    DEF InsertSession, Shape, CallsOf, Loop, Request, Operation
  <2>2. PICK s \in Session :
          /\ Insert(s, req[h].user)
          /\ Become(h, [req[h] EXCEPT !.pc = "createToken", !.session = s])
    BY <1>1 DEF InsertSession
  <2> DEFINE r == [req[h] EXCEPT !.pc = "createToken", !.session = s]
  <2>3. /\ r \in Request /\ r.pc = "createToken" /\ r.session = s
        /\ r.op = req[h].op /\ r.user = req[h].user
    BY <1>0 DEF Request, Call
  <2> HIDE DEF r
  <2>4. Shape(r)
    BY <2>1, <2>3 DEF Shape, CallsOf, Found, Revoking
  <2>5. SessionsTypeOK'
    BY <1>0, <2>1, <2>2 DEF TypeOK, SessionsTypeOK, Insert, SessionRow
  <2>6. StoreTypeOK' /\ audit' \subseteq AuditRow /\ delivered' \subseteq Token
    BY <1>0, <1>1 DEF InsertSession, TypeOK, StoreTypeOK, storeVars
  <2> QED
    BY <2>2, <2>3, <2>4, <2>5, <2>6, WriteType DEF r
<1>2. CASE CreateToken(h)
  <2> DEFINE c == IF req[h].op = "login" THEN "finish" ELSE "touchSession"
             r == [req[h] EXCEPT !.pc = c, !.cur = issued + 1]
  <2>1. /\ req[h].pc = "createToken" /\ req[h].op \in {"login", "refresh"}
        /\ req[h].user \in User /\ req[h].session \in Session
    BY <1>0, <1>2
    DEF CreateToken, Shape, CallsOf, Found, Loop, Request, Operation
  <2>2. StoreTypeOK' /\ issued + 1 \in Token
    BY <1>0, <1>2, <2>1, CreateKeepsType DEF CreateToken, TypeOK
  <2>3. Become(h, r)
    BY <1>2 DEF CreateToken
  <2>7. c \in Call /\ issued + 1 \in Token \cup {None}
    BY <2>2 DEF Call
  <2>4. /\ r \in Request /\ r.pc = c /\ r.cur = issued + 1
        /\ r.op = req[h].op /\ r.user = req[h].user
        /\ r.session = req[h].session /\ r.token = req[h].token
    <3> HIDE DEF c
    <3> QED
      BY <1>0, <2>7 DEF Request
  <2> HIDE DEF r
  <2>5. Shape(r)
    BY <1>0, <2>1, <2>2, <2>4 DEF Shape, CallsOf, Found, Revoking
  <2>6. SessionsTypeOK' /\ audit' \subseteq AuditRow /\ delivered' \subseteq Token
    BY <1>0, <1>2 DEF CreateToken, TypeOK, SessionsTypeOK
  <2> QED
    BY <2>2, <2>3, <2>4, <2>5, <2>6, WriteType
<1>3. CASE UpdateSet(h) \/ UpdateResent(h)
  <2> DEFINE r == [req[h] EXCEPT !.pc = AfterUpdate(req[h]), !.cur = None,
                                 !.rec = None]
  <2>1. /\ req[h].pc = "updateSet" /\ req[h].cur \in Token
        /\ req[h].rec \in TokenRecord
    BY <1>0, <1>3 DEF UpdateSet, UpdateResent, Shape
  <2>2. Set(req[h].cur, req[h].rec)
    BY <1>3 DEF UpdateSet, UpdateResent
  <2>3. StoreTypeOK'
    BY <1>0, <2>1, <2>2, SetKeepsType DEF TypeOK
  <2>4. /\ r \in Request /\ r.pc = AfterUpdate(req[h])
        /\ r.op = req[h].op /\ r.user = req[h].user
        /\ r.session = req[h].session /\ r.token = req[h].token
    BY <1>0 DEF Request, Call, AfterUpdate
  <2>5. Become(h, r) \/ Become(h, req[h])
    BY <1>0, <1>3 DEF UpdateSet, UpdateResent, Become, TypeOK
  <2> HIDE DEF r
  <2>6. Shape(r)
    BY <1>0, <2>1, <2>4
    DEF Shape, CallsOf, Found, Revoking, Loop, AfterUpdate, Request, Operation
  <2>7. SessionsTypeOK' /\ audit' \subseteq AuditRow /\ delivered' \subseteq Token
    BY <1>0, <1>3 DEF UpdateSet, UpdateResent, TypeOK, SessionsTypeOK
  <2> QED
    BY <1>0, <2>3, <2>4, <2>5, <2>6, <2>7, WriteType
<1>4. CASE EndSession(h) \/ RevokeSessions(h)
  <2> DEFINE r == [req[h] EXCEPT !.pc = "finish"]
  <2>1. /\ r \in Request /\ r.pc = "finish"
        /\ r.op = req[h].op /\ r.user = req[h].user
        /\ r.session = req[h].session /\ r.token = req[h].token
    BY <1>0 DEF Request, Call
  <2>2. req[h].pc \in {"endSession", "revokeNext"}
    BY <1>4 DEF EndSession, RevokeSessions
  <2>3. Become(h, r)
    BY <1>4 DEF EndSession, RevokeSessions
  <2> HIDE DEF r
  <2>4. Shape(r)
    BY <1>0, <2>1, <2>2
    DEF Shape, CallsOf, Found, Revoking, Loop, Request, Operation
  <2>5. \E S : Revoke(S)
    BY <1>4 DEF EndSession, RevokeSessions, RevokeById, RevokeByUser
  <2>6. SessionsTypeOK'
    BY <1>0, <2>5, SessionsRevoked DEF TypeOK
  <2>7. StoreTypeOK' /\ audit' \subseteq AuditRow /\ delivered' \subseteq Token
    BY <1>0, <1>4 DEF EndSession, RevokeSessions, TypeOK, StoreTypeOK, storeVars
  <2> QED
    BY <2>1, <2>3, <2>4, <2>6, <2>7, WriteType
<1>5. CASE Finish(h)
  <2>1. Row(req[h]).event \in AuditEvents => Row(req[h]) \in AuditRow
    BY <1>0 DEF Row, AuditRow, Request
  <2>2. audit' \subseteq AuditRow
    BY <1>0, <1>5, <2>1 DEF Finish, LogAuthEvent, TypeOK, Row
  <2>3. req[h].op \in {"login", "refresh"} => req[h].cur \in Token
    BY <1>0, <1>5 DEF Finish, Shape
  <2>4. delivered' \subseteq Token
    BY <1>0, <1>5, <2>3 DEF Finish, Respond, TypeOK
  <2>5. StoreTypeOK' /\ SessionsTypeOK' /\ Become(h, Idle)
    BY <1>0, <1>5 DEF Finish, TypeOK, StoreTypeOK, SessionsTypeOK, storeVars
  <2> QED
    BY <2>2, <2>4, <2>5, IdleType, WriteType
<1> QED
  BY <1>1, <1>2, <1>3, <1>4, <1>5

\* The passing of time changes no type.
LEMMA TickType ==
  ASSUME TypeInv, Tick
  PROVE  TypeInv'
<1>1. StoreTypeOK'
  BY BoundsAssumption DEF TypeInv, TypeOK, StoreTypeOK, Tick, Lapse, Expire
<1> QED
  BY <1>1 DEF TypeInv, TypeOK, SessionsTypeOK, Tick, Shape

\* Every step of a handler or of time keeps the types.
LEMMA NextType == TypeInv /\ [Next]_vars => TypeInv'
<1> SUFFICES ASSUME TypeInv, [Next]_vars PROVE TypeInv'
  OBVIOUS
<1>1. CASE UNCHANGED vars
  BY <1>1 DEF vars, TypeInv, TypeOK, StoreTypeOK, SessionsTypeOK, Shape
<1>2. CASE Tick
  BY <1>2, TickType
<1>3. ASSUME NEW h \in Handler, Arrive(h) \/ Serve(h) \/ UpdateResent(h) \/ Abort(h)
      PROVE  TypeInv'
  BY <1>3, ArriveType, ReadType, StoreType DEF Serve
<1> QED
  BY <1>1, <1>2, <1>3 DEF Next

\* Every variable stays within its type: no request looks up a user, session
\* or token it does not know yet.
THEOREM TypeCorrect == Spec => []TypeOK
<1>1. TypeInv => TypeOK
  BY DEF TypeInv
<1> QED
  BY <1>1, InitType, NextType, PTL DEF Spec

-----------------------------------------------------------------------------
(* The invariant of the stores.                                            *)

\* What ties the two stores together.
StoresAgree ==
  /\ TokensIndexed
  /\ TokenOwned
  /\ \A s \in Session : sessionTokens[s] \subseteq 1..issued
  /\ \A u \in User : userTokens[u] \subseteq 1..issued
  /\ \A s \in Session : sessions[s] = None => sessionTokens[s] = {}

\* Session s exists and is u's, and t is in both indexes.
Owns(u, s) == sessions[s] # None /\ sessions[s].user = u

Listed(u, s, t) == t \in userTokens[u] /\ t \in sessionTokens[s]

\* What the request of h has learnt.
Knows(h) ==
  LET r == req[h]
  IN  /\ Found(r) => Owns(r.user, r.session) /\ Listed(r.user, r.session, r.token)
      /\ r.pc = "createToken" => Owns(r.user, r.session)
      /\ r.pc = "updateSet" => /\ r.rec.status # "ACTIVE"
                               /\ Owns(r.rec.user, r.rec.session)
                               /\ Listed(r.rec.user, r.rec.session, r.cur)
      /\ r.op = "refresh" /\ r.pc \in {"updateGet", "updateSet"} => r.cur = r.token
      /\ r.op = "refresh" /\ r.pc \in {"createToken", "touchSession", "finish"} =>
           ~Live(r.token)

\* A login between its two writes has its session to itself.
FreshLogin(h) == req[h].op = "login" /\ At(h, "createToken")

SessionsFresh ==
  /\ \A h \in Handler : FreshLogin(h) => sessionTokens[req[h].session] = {}
  /\ \A g, h \in Handler :
       FreshLogin(g) /\ FreshLogin(h) /\ req[g].session = req[h].session => g = h

SafeInv ==
  /\ TypeInv
  /\ StoresAgree
  /\ \A h \in Handler : Knows(h)
  /\ SessionsFresh

\* No step takes any of this back.
Monotone ==
  /\ \A s \in Session :
       sessions[s] # None => /\ sessions'[s] # None
                             /\ sessions'[s].user = sessions[s].user
                             /\ sessions[s].status = "REVOKED" =>
                                  sessions'[s].status = "REVOKED"
  /\ \A s \in Session : sessionTokens[s] \subseteq sessionTokens'[s]
  /\ \A u \in User : userTokens[u] \subseteq userTokens'[u]
  /\ \A t \in 1..issued : Live(t)' => Live(t) /\ tokens'[t] = tokens[t]
  /\ issued <= issued'
  /\ lapsed <= lapsed'

-----------------------------------------------------------------------------
\* A step that writes to neither store takes nothing back.
LEMMA UnchangedMonotone ==
  ASSUME SafeInv, UNCHANGED <<storeVars, sessions>>
  PROVE  Monotone /\ StoresAgree'
<1>1. Monotone
  BY DEF Monotone, storeVars, Live, SafeInv, TypeInv, TypeOK, StoreTypeOK
<1> QED
  BY <1>1 DEF SafeInv, StoresAgree, storeVars, TokensIndexed, TokenOwned

\* INSERT INTO sessions adds a row and disturbs no other.
LEMMA InsertMonotone ==
  ASSUME SafeInv, NEW s \in Session, NEW u \in User, Insert(s, u),
         UNCHANGED storeVars
  PROVE  Monotone /\ StoresAgree' /\ Owns(u, s)'
<1> USE DEF SafeInv, TypeInv, TypeOK, StoreTypeOK, SessionsTypeOK
<1>1. Monotone
  BY DEF Monotone, Insert, storeVars, Live
<1>2. sessions' = [sessions EXCEPT ![s] = [user |-> u, status |-> "ACTIVE"]]
  BY DEF Insert
<1>3. Owns(u, s)'
  BY <1>2, NoneAssumption DEF Owns, SessionRow
<1>4. TokenOwned'
  BY <1>1 DEF Monotone, StoresAgree, TokenOwned, storeVars, TokenRecord
<1>5. TokensIndexed'
  BY DEF StoresAgree, TokensIndexed, storeVars
<1> QED
  BY <1>1, <1>3, <1>4, <1>5 DEF Monotone, StoresAgree, storeVars

\* The UPDATE that revokes sessions moves statuses one way, owners stay.
LEMMA RevokeMonotone ==
  ASSUME SafeInv, NEW S, Revoke(S), UNCHANGED storeVars
  PROVE  Monotone /\ StoresAgree'
<1> USE DEF SafeInv, TypeInv, TypeOK, StoreTypeOK, SessionsTypeOK
<1>1. \A s \in Session :
        sessions[s] # None => [sessions[s] EXCEPT !.status = "REVOKED"] \in SessionRow
  BY DEF SessionRow
<1>2. Monotone
  BY <1>1, NoneAssumption DEF Monotone, Revoke, storeVars, Live, SessionRow
<1>3. TokenOwned'
  BY <1>2 DEF Monotone, StoresAgree, TokenOwned, storeVars, TokenRecord
<1>4. \A s \in Session : sessions'[s] = None => sessions[s] = None
  BY <1>2 DEF Monotone
<1> QED
  BY <1>2, <1>3, <1>4 DEF StoresAgree, TokensIndexed, storeVars

\* Create brings one new token into use and no old one back.
LEMMA CreateMonotone ==
  ASSUME SafeInv, NEW u \in User, NEW s \in Session, Create(u, s), Owns(u, s),
         UNCHANGED sessions
  PROVE  Monotone /\ StoresAgree'
<1> USE DEF SafeInv, TypeInv, TypeOK, StoreTypeOK, SessionsTypeOK
<1> DEFINE t0 == issued + 1
           r0 == [user |-> u, session |-> s, status |-> "ACTIVE"]
<1>1. t0 \in Token /\ t0 \notin 1..issued /\ 1..issued \subseteq 1..issued'
  BY BoundsAssumption DEF Create, Token
<1>2. /\ tokens' = [tokens EXCEPT ![t0] = r0]
      /\ userTokens' = [userTokens EXCEPT ![u] = @ \cup {t0}]
      /\ sessionTokens' = [sessionTokens EXCEPT ![s] = @ \cup {t0}]
      /\ issued' = t0 /\ lapsed' = lapsed
  BY DEF Create
<1>3. r0 \in TokenRecord /\ r0 # None
  BY NoneAssumption DEF TokenRecord
<1>4. Monotone
  <2>1. 1..issued \subseteq Token
    BY BoundsAssumption DEF Token
  <2>2. \A t \in 1..issued : tokens'[t] = tokens[t]
    BY <1>1, <1>2, <2>1
  <2>3. \A t \in 1..issued : Live(t)' => Live(t) /\ tokens'[t] = tokens[t]
    BY <2>2 DEF Live
  <2> QED
    BY <1>2, <2>3 DEF Monotone
<1>5. TokensIndexed'
  <2> SUFFICES ASSUME NEW t \in Token, tokens'[t] # None
               PROVE  /\ t \in userTokens'[tokens'[t].user]
                      /\ t \in sessionTokens'[tokens'[t].session]
    BY DEF TokensIndexed
  <2>1. CASE t = t0
    BY <1>1, <1>2, <2>1
  <2>2. CASE t # t0
    <3>1. tokens'[t] = tokens[t] /\ tokens[t] \in TokenRecord
      BY <1>2, <2>2
    <3> QED
      BY <1>2, <3>1 DEF StoresAgree, TokensIndexed, TokenRecord
  <2> QED
    BY <2>1, <2>2
<1>6. TokenOwned'
  <2> SUFFICES ASSUME NEW t \in Token, tokens'[t] # None
               PROVE  Owns(tokens'[t].user, tokens'[t].session)
    BY DEF TokenOwned, Owns
  <2>1. CASE t = t0
    BY <1>1, <1>2, <2>1
  <2>2. CASE t # t0
    BY <1>2, <2>2 DEF StoresAgree, TokenOwned, Owns
  <2> QED
    BY <2>1, <2>2
<1>7. /\ \A q \in Session : sessionTokens'[q] \subseteq 1..issued'
      /\ \A v \in User : userTokens'[v] \subseteq 1..issued'
  BY <1>1, <1>2, BoundsAssumption DEF StoresAgree
<1>8. \A q \in Session : sessions'[q] = None => sessionTokens'[q] = {}
  BY <1>2 DEF StoresAgree, Owns
<1> QED
  BY <1>4, <1>5, <1>6, <1>7, <1>8 DEF StoresAgree

\* Writing a record that is not ACTIVE takes a token out of use for good.
LEMMA SetMonotone ==
  ASSUME SafeInv, NEW t \in Token, NEW record \in TokenRecord, Set(t, record),
         record.status # "ACTIVE", Owns(record.user, record.session),
         Listed(record.user, record.session, t), UNCHANGED sessions
  PROVE  Monotone /\ StoresAgree' /\ ~Live(t)'
<1> USE DEF SafeInv, TypeInv, TypeOK, StoreTypeOK, SessionsTypeOK
<1>1. /\ tokens' = [tokens EXCEPT ![t] = record]
      /\ UNCHANGED <<userTokens, sessionTokens, issued, lapsed>>
  BY DEF Set
<1>2. ~Live(t)'
  BY <1>1 DEF Live
<1>3. \A n \in Token : n # t => tokens'[n] = tokens[n]
  BY <1>1
<1>4. Monotone
  <2>1. \A n \in 1..issued : Live(n)' => Live(n) /\ tokens'[n] = tokens[n]
    BY <1>2, <1>3, BoundsAssumption DEF Token, Live
  <2> QED
    BY <1>1, <2>1 DEF Monotone
<1>5. TokensIndexed' /\ TokenOwned'
  BY <1>1, <1>3 DEF StoresAgree, TokensIndexed, TokenOwned, Owns, Listed
<1> QED
  BY <1>1, <1>2, <1>4, <1>5 DEF StoresAgree

\* Time only takes tokens out of use.
LEMMA TickMonotone ==
  ASSUME SafeInv, Tick
  PROVE  Monotone /\ StoresAgree'
<1> USE DEF SafeInv, TypeInv, TypeOK, StoreTypeOK, SessionsTypeOK
<1>1. CASE Lapse
  BY <1>1 DEF Tick, Lapse, Monotone, StoresAgree, TokensIndexed, TokenOwned, Live
<1>2. CASE \E t \in Token : Expire(t)
  <2>1. PICK t \in Token : Expire(t)
    BY <1>2
  <2>2. tokens' = [tokens EXCEPT ![t] = None]
    BY <2>1 DEF Expire
  <2>3. \A n \in Token : tokens'[n] # None => tokens'[n] = tokens[n]
    BY <2>2
  <2>4. \A n \in 1..issued : Live(n)' => Live(n) /\ tokens'[n] = tokens[n]
    BY <2>3, BoundsAssumption DEF Live, Token
  <2>5. UNCHANGED <<userTokens, sessionTokens, issued, lapsed, sessions>>
    BY <2>1 DEF Expire, Tick
  <2> QED
    BY <2>3, <2>4, <2>5 DEF Monotone, StoresAgree, TokensIndexed, TokenOwned
<1> QED
  BY <1>1, <1>2 DEF Tick

-----------------------------------------------------------------------------
(* The other requests keep what they know.                                 *)

\* What a handler has learnt survives the steps of the others.
LEMMA KnowsStays ==
  ASSUME SafeInv, Monotone, NEW h \in Handler, req'[h] = req[h]
  PROVE  Knows(h)'
<1> DEFINE r == req[h]
<1>1. r \in Request /\ Shape(r) /\ Knows(h)
  BY DEF SafeInv, TypeInv, TypeOK
<1>2. Found(r) => /\ sessions'[r.session] # None
                  /\ sessions'[r.session].user = r.user
                  /\ r.token \in userTokens'[r.user]
                  /\ r.token \in sessionTokens'[r.session]
  <2> SUFFICES ASSUME Found(r) PROVE Owns(r.user, r.session)' /\ Listed(r.user, r.session, r.token)'
    BY DEF Owns, Listed
  <2>1. r.user \in User /\ r.session \in Session
    BY <1>1 DEF Shape
  <2> QED
    BY <1>1, <2>1 DEF Knows, Monotone, Owns, Listed
<1>3. r.pc = "createToken" => /\ sessions'[r.session] # None
                              /\ sessions'[r.session].user = r.user
  BY <1>1 DEF Shape, Knows, Monotone, Owns
<1>4. r.pc = "updateSet" => /\ r.rec.status # "ACTIVE"
                            /\ sessions'[r.rec.session] # None
                            /\ sessions'[r.rec.session].user = r.rec.user
                            /\ r.cur \in userTokens'[r.rec.user]
                            /\ r.cur \in sessionTokens'[r.rec.session]
  BY <1>1 DEF Shape, Knows, Monotone, Owns, Listed, TokenRecord
<1>5. r.op = "refresh" /\ r.pc \in {"createToken", "touchSession", "finish"} =>
        ~Live(r.token)'
  <2> SUFFICES ASSUME r.op = "refresh",
                      r.pc \in {"createToken", "touchSession", "finish"}
               PROVE  ~Live(r.token)'
    OBVIOUS
  <2>1. /\ r.user \in User /\ r.session \in Session /\ r.token \in Token
        /\ Listed(r.user, r.session, r.token) /\ ~Live(r.token)
    BY <1>1 DEF Shape, Found, Knows
  <2>2. r.token \in 1..issued
    BY <2>1 DEF SafeInv, StoresAgree, Listed
  <2> QED
    BY <2>1, <2>2 DEF Monotone, Live
<1> QED
  BY <1>1, <1>2, <1>3, <1>4, <1>5 DEF Knows, Found, Owns, Listed, Live

-----------------------------------------------------------------------------
(* A step of h keeps the invariant when h itself knows what it should.     *)

OnlyActs(h) == \A g \in Handler : g # h => req'[g] = req[g]

\* A step of one handler leaves the requests of the others alone.
LEMMA BecomeActs ==
  ASSUME TypeInv, NEW h \in Handler, NEW r, Become(h, r)
  PROVE  req'[h] = r /\ OnlyActs(h)
BY DEF TypeInv, TypeOK, Become, OnlyActs

\* A step with no fresh login in it is safe if the handler's own knowledge is.
LEMMA StepSafe ==
  ASSUME SafeInv, TypeInv', Monotone, StoresAgree', NEW h \in Handler,
         OnlyActs(h), Knows(h)', ~FreshLogin(h)', UNCHANGED sessionTokens
  PROVE  SafeInv'
<1>1. \A g \in Handler : Knows(g)'
  <2> TAKE g \in Handler
  <2>1. CASE g # h
    BY <2>1, KnowsStays DEF OnlyActs
  <2> QED
    BY <2>1
<1>2. \A g \in Handler : FreshLogin(g)' => FreshLogin(g) /\ req'[g] = req[g]
  BY DEF OnlyActs, FreshLogin, At
<1>3. SessionsFresh'
  BY <1>2 DEF SafeInv, SessionsFresh
<1> QED
  BY <1>1, <1>3 DEF SafeInv

\* A request about which Knows says nothing.
Unaware(r) ==
  /\ r.pc \notin {"createToken", "updateSet"}
  /\ r.op = "refresh" => r.pc = "findToken"

\* A handler that serves nothing relies on nothing.
LEMMA IdleUnaware == Unaware(Idle)
BY DEF Unaware, Idle

\* Replacing the request of h by one that is unaware.
LEMMA UnawareBecome ==
  ASSUME TypeInv, NEW h \in Handler, NEW r, Become(h, r), Unaware(r)
  PROVE  Unaware(req'[h]) /\ OnlyActs(h)
BY BecomeActs

-----------------------------------------------------------------------------
(* The steps that leave the request unaware: they only read the stores or    *)
(* revoke sessions.                                                        *)

QuietStep(h) ==
  \/ Arrive(h)
  \/ RefreshUnknown(h) \/ RefreshReused(h) \/ RefreshRefused(h)
  \/ LogoutFind(h) \/ UpdateMissing(h) \/ FindSession(h)
  \/ ListTokens(h) \/ RevokeNext(h) \/ Abort(h)
  \/ EndSession(h) \/ RevokeSessions(h) \/ Finish(h)

\* A request that arrives has learnt nothing yet.
LEMMA ArriveQuiet ==
  ASSUME TypeInv, NEW h \in Handler, Arrive(h)
  PROVE  Unaware(req'[h]) /\ OnlyActs(h)
<1> DEFINE goal == Unaware(req'[h]) /\ OnlyActs(h)
<1> USE IdleType, UnawareBecome DEF Begin, Proceed, Request, Unaware
<1>1. ASSUME NEW u \in User, BeginLogin(h, u) PROVE goal
  BY <1>1 DEF BeginLogin
<1>2. ASSUME NEW u \in User, BeginLogoutAll(h, u) PROVE goal
  BY <1>2 DEF BeginLogoutAll
<1>3. ASSUME NEW t \in Token, BeginRefresh(h, t) PROVE goal
  BY <1>3 DEF BeginRefresh
<1>4. ASSUME NEW t \in Token, BeginLogout(h, t) PROVE goal
  BY <1>4 DEF BeginLogout
<1>5. ASSUME NEW u \in User, NEW s \in Session, BeginRevokeSession(h, u, s)
      PROVE  goal
  BY <1>5 DEF BeginRevokeSession
<1>6. ASSUME BeginLogoutNoCookie(h) PROVE goal
  BY <1>6 DEF BeginLogoutNoCookie
<1> HIDE DEF goal
<1>7. goal
  BY <1>1, <1>2, <1>3, <1>4, <1>5, <1>6 DEF Arrive
<1> QED
  BY <1>7 DEF goal

\* After a quiet step the request relies on nothing, and no other has moved.
LEMMA QuietAfter ==
  ASSUME TypeInv, NEW h \in Handler, QuietStep(h)
  PROVE  Unaware(req'[h]) /\ OnlyActs(h)
<1> DEFINE goal == Unaware(req'[h]) /\ OnlyActs(h)
<1> USE DEF At, LookingUp, Proceed
<1>0. req[h] \in Request /\ Shape(req[h])
  BY DEF TypeInv, TypeOK
<1>1. CASE RefreshUnknown(h)
  BY <1>0, <1>1, UnawareBecome DEF RefreshUnknown, Request, Unaware
<1>2. CASE RefreshReused(h)
  <2>1. Identified(h) \in Request
    BY <1>0, <1>2, IdentifiedType DEF RefreshReused
  <2> QED
    BY <1>2, <2>1, UnawareBecome DEF RefreshReused, Request, Unaware
<1>3. CASE RefreshRefused(h)
  <2>1. Identified(h) \in Request
    BY <1>0, <1>3, IdentifiedType DEF RefreshRefused
  <2> QED
    BY <1>3, <2>1, UnawareBecome DEF RefreshRefused, Request, Unaware
<1>4. CASE LogoutFind(h)
  <2> DEFINE i == IF Presented(h) = None THEN req[h] ELSE Identified(h)
  <2>1. i \in Request /\ i.op = "logout"
    BY <1>0, <1>4, IdentifiedType DEF LogoutFind
  <2>2. Become(h, [i EXCEPT !.pc = "updateGet", !.cur = req[h].token])
    BY <1>4 DEF LogoutFind
  <2> HIDE DEF i
  <2> QED
    BY <2>1, <2>2, UnawareBecome DEF Request, Unaware
<1>5. CASE UpdateMissing(h)
  <2>1. CASE req[h].op = "refresh"
    BY <1>5, <2>1, IdleUnaware, UnawareBecome DEF UpdateMissing
  <2>2. CASE req[h].op # "refresh"
    <3>1. AfterUpdate(req[h]) \notin {"createToken", "updateSet"}
      BY <2>2 DEF AfterUpdate
    <3>2. Become(h, [req[h] EXCEPT !.pc = AfterUpdate(req[h]), !.cur = None])
      BY <1>5, <2>2 DEF UpdateMissing
    <3> QED
      BY <1>0, <2>2, <3>1, <3>2, UnawareBecome DEF Request, Unaware
  <2> QED
    BY <2>1, <2>2
<1>6. CASE FindSession(h)
  <2>1. req[h].op # "refresh"
    BY <1>0, <1>6 DEF FindSession, Shape, CallsOf
  <2> QED
    BY <1>0, <1>6, <2>1, IdleUnaware, UnawareBecome DEF FindSession, Request, Unaware
<1>7. CASE ListTokens(h)
  <2>1. req[h].op # "refresh"
    BY <1>0, <1>7 DEF ListTokens, Shape, CallsOf
  <2> QED
    BY <1>0, <1>7, <2>1, UnawareBecome DEF ListTokens, Request, Unaware
<1>8. CASE RevokeNext(h)
  <2>1. req[h].op # "refresh" /\ req[h].pc = "revokeNext"
    BY <1>0, <1>8 DEF RevokeNext, Shape, CallsOf
  <2>2. PICK t \in req[h].todo :
          LET rest == [req[h] EXCEPT !.todo = @ \ {t}]
              hit  == tokens[t] # None /\ tokens[t].status \in {"ACTIVE", "USED"}
          IN  Become(h, IF hit THEN [rest EXCEPT !.pc = "updateGet", !.cur = t]
                               ELSE rest)
    BY <1>8 DEF RevokeNext
  <2> DEFINE rest == [req[h] EXCEPT !.todo = @ \ {t}]
             next == [rest EXCEPT !.pc = "updateGet", !.cur = t]
  <2>3. Become(h, rest) \/ Become(h, next)
    BY <2>2
  <2>4. rest \in Request /\ rest.op # "refresh" /\ rest.pc = "revokeNext"
    BY <1>0, <2>1 DEF Request
  <2> HIDE DEF rest
  <2>5. next.op # "refresh" /\ next.pc = "updateGet"
    BY <2>4 DEF Request
  <2> QED
    BY <2>3, <2>4, <2>5, UnawareBecome DEF Unaware
<1>9. CASE Abort(h)
  BY <1>9, IdleUnaware, UnawareBecome DEF Abort
<1>10. CASE EndSession(h) \/ RevokeSessions(h)
  <2>1. req[h].op # "refresh"
    BY <1>0, <1>10 DEF EndSession, RevokeSessions, Shape, CallsOf
  <2>2. Become(h, [req[h] EXCEPT !.pc = "finish"])
    BY <1>10 DEF EndSession, RevokeSessions
  <2> QED
    BY <1>0, <2>1, <2>2, UnawareBecome DEF Request, Unaware
<1>11. CASE Finish(h)
  BY <1>11, IdleUnaware, UnawareBecome DEF Finish
<1>12. CASE Arrive(h)
  BY <1>12, ArriveQuiet
<1> QED
  BY <1>1, <1>2, <1>3, <1>4, <1>5, <1>6, <1>7, <1>8, <1>9, <1>10, <1>11, <1>12
  DEF QuietStep

\* A request that arrives has made no call.
LEMMA ArriveReads ==
  ASSUME NEW h, Arrive(h)
  PROVE  UNCHANGED <<storeVars, sessions>>
BY DEF Arrive, BeginLogin, BeginLogoutAll, BeginRefresh, BeginLogout,
       BeginRevokeSession, BeginLogoutNoCookie, Begin, Proceed

\* A quiet step writes no key of Redis, and of PostgreSQL the status of
\* sessions at most.
LEMMA QuietWrites ==
  ASSUME NEW h, QuietStep(h)
  PROVE  UNCHANGED storeVars /\ (UNCHANGED sessions \/ \E S : Revoke(S))
<1>1. CASE EndSession(h) \/ RevokeSessions(h)
  BY <1>1 DEF EndSession, RevokeSessions, RevokeById, RevokeByUser
<1>2. CASE ~(EndSession(h) \/ RevokeSessions(h))
  BY <1>2, ArriveReads
     DEF QuietStep, RefreshUnknown, RefreshReused, RefreshRefused, LogoutFind,
         UpdateMissing, FindSession, ListTokens, RevokeNext, Abort, Finish, Proceed
<1> QED
  BY <1>1, <1>2

\* A quiet step is safe.
LEMMA QuietSafe ==
  ASSUME SafeInv, TypeInv', NEW h \in Handler, QuietStep(h)
  PROVE  SafeInv'
<1>1. Unaware(req'[h]) /\ OnlyActs(h)
  BY QuietAfter DEF SafeInv
<1>2. Knows(h)' /\ ~FreshLogin(h)'
  BY <1>1 DEF Unaware, Knows, Found, FreshLogin, At
<1>3. Monotone /\ StoresAgree'
  BY QuietWrites, UnchangedMonotone, RevokeMonotone
<1>4. UNCHANGED sessionTokens
  BY QuietWrites DEF storeVars
<1> QED
  BY <1>1, <1>2, <1>3, <1>4, StepSafe

-----------------------------------------------------------------------------
(* The steps that learn something, and the two writes to the tokens.       *)

\* Refresh goes on with the token, owner and session it found in the store.
LEMMA AcceptedSafe ==
  ASSUME SafeInv, TypeInv', NEW h \in Handler, RefreshAccepted(h)
  PROVE  SafeInv'
<1> DEFINE t == req[h].token
<1>1. /\ At(h, "findToken") /\ req[h].op = "refresh" /\ Presented(h) # None
      /\ Presented(h) = tokens[t]
  BY DEF RefreshAccepted, LookingUp, Usable, Live, Presented
<1>2. t \in Token /\ Identified(h) \in Request /\ Identified(h).op = "refresh"
      /\ Identified(h).token = t
  BY <1>1, IdentifiedType DEF SafeInv
<1>3. Identified(h).user = tokens[t].user /\ Identified(h).session = tokens[t].session
  BY <1>1 DEF SafeInv, TypeInv, TypeOK, Request, Identified
<1>4. /\ Owns(tokens[t].user, tokens[t].session)
      /\ Listed(tokens[t].user, tokens[t].session, t)
  BY <1>1, <1>2 DEF SafeInv, StoresAgree, TokensIndexed, TokenOwned, Owns, Listed
<1>5. /\ Become(h, [Identified(h) EXCEPT !.pc = "updateGet", !.cur = t])
      /\ UNCHANGED <<storeVars, sessions>>
  BY DEF RefreshAccepted, Proceed
<1>6. OnlyActs(h) /\ req'[h] = [Identified(h) EXCEPT !.pc = "updateGet", !.cur = t]
  BY <1>5, BecomeActs DEF SafeInv
<1>7. /\ req'[h].pc = "updateGet" /\ req'[h].op = "refresh"
      /\ req'[h].cur = t /\ req'[h].token = t
      /\ req'[h].user = tokens[t].user /\ req'[h].session = tokens[t].session
  BY <1>2, <1>3, <1>6 DEF Request
<1>8. Knows(h)' /\ ~FreshLogin(h)'
  BY <1>4, <1>5, <1>7 DEF Knows, FreshLogin, At, Owns, Listed, storeVars
<1>9. Monotone /\ StoresAgree' /\ UNCHANGED sessionTokens
  BY <1>5, UnchangedMonotone DEF storeVars
<1> QED
  BY <1>6, <1>8, <1>9, StepSafe

\* The GET of Update learns the owner and the indexes of the record it read.
LEMMA UpdateGetSafe ==
  ASSUME SafeInv, TypeInv', NEW h \in Handler, UpdateGet(h)
  PROVE  SafeInv'
<1> DEFINE c == req[h].cur
           s == [tokens[c] EXCEPT !.status = NewStatus(req[h])]
<1>1. /\ req[h] \in Request /\ Shape(req[h]) /\ Knows(h)
      /\ req[h].pc = "updateGet" /\ tokens[c] # None
  BY DEF UpdateGet, At, SafeInv, TypeInv, TypeOK
<1>2. c \in Token
  BY <1>1 DEF Shape
<1>3. tokens[c] \in TokenRecord
  BY <1>1, <1>2 DEF SafeInv, TypeInv, TypeOK, StoreTypeOK
<1>4. s.status # "ACTIVE" /\ s.user = tokens[c].user /\ s.session = tokens[c].session
  BY <1>3 DEF TokenRecord, NewStatus
<1>5. Owns(s.user, s.session) /\ Listed(s.user, s.session, c)
  BY <1>1, <1>2, <1>4
  DEF SafeInv, StoresAgree, TokensIndexed, TokenOwned, Owns, Listed
<1>6. /\ Become(h, [req[h] EXCEPT !.pc = "updateSet", !.rec = s])
      /\ UNCHANGED <<storeVars, sessions>>
  BY DEF UpdateGet, Proceed
<1> HIDE DEF s
<1>7. OnlyActs(h) /\ req'[h] = [req[h] EXCEPT !.pc = "updateSet", !.rec = s]
  BY <1>6, BecomeActs DEF SafeInv
<1>8. /\ req'[h].pc = "updateSet" /\ req'[h].op = req[h].op
      /\ req'[h].cur = c /\ req'[h].rec = s /\ req'[h].token = req[h].token
      /\ req'[h].user = req[h].user /\ req'[h].session = req[h].session
  BY <1>1, <1>7 DEF Request
<1>9. Knows(h)' /\ ~FreshLogin(h)'
  BY <1>1, <1>4, <1>5, <1>6, <1>8
  DEF Knows, Found, FreshLogin, At, Owns, Listed, storeVars
<1>10. Monotone /\ StoresAgree' /\ UNCHANGED sessionTokens
  BY <1>6, UnchangedMonotone DEF storeVars
<1> QED
  BY <1>7, <1>9, <1>10, StepSafe

\* The SET of Update may be stale, but never puts an ACTIVE record back.
LEMMA UpdateSetSafe ==
  ASSUME SafeInv, TypeInv', NEW h \in Handler, UpdateSet(h)
  PROVE  SafeInv'
<1>1. /\ req[h] \in Request /\ Shape(req[h]) /\ Knows(h) /\ req[h].pc = "updateSet"
      /\ Set(req[h].cur, req[h].rec) /\ UNCHANGED sessions
  BY DEF UpdateSet, At, SafeInv, TypeInv, TypeOK
<1>2. /\ req[h].cur \in Token /\ req[h].rec \in TokenRecord
      /\ req[h].rec.status # "ACTIVE"
      /\ Owns(req[h].rec.user, req[h].rec.session)
      /\ Listed(req[h].rec.user, req[h].rec.session, req[h].cur)
  BY <1>1 DEF Shape, Knows
<1>3. Monotone /\ StoresAgree' /\ \A c \in Token : c = req[h].cur => ~Live(c)'
  BY <1>1, <1>2, SetMonotone
<1>4. /\ OnlyActs(h)
      /\ req'[h] = [req[h] EXCEPT !.pc = AfterUpdate(req[h]), !.cur = None,
                                  !.rec = None]
  BY BecomeActs DEF UpdateSet, SafeInv
<1>5. /\ req'[h].pc = AfterUpdate(req[h]) /\ req'[h].op = req[h].op
      /\ req'[h].token = req[h].token
      /\ req'[h].user = req[h].user /\ req'[h].session = req[h].session
  BY <1>1, <1>4 DEF Request
<1>6. Knows(h)'
  <2>1. CASE req[h].op = "refresh"
    <3>1. req'[h].pc = "createToken" /\ req'[h].op = "refresh"
      BY <1>5, <2>1 DEF AfterUpdate
    <3>2. /\ req[h].token \in Token /\ req[h].cur = req[h].token
          /\ req[h].user \in User /\ req[h].session \in Session
          /\ Owns(req[h].user, req[h].session)
          /\ Listed(req[h].user, req[h].session, req[h].token)
      BY <1>1, <2>1 DEF Shape, Found, Knows
    <3>3. \A c \in Token : c = req'[h].token => ~Live(c)'
      BY <1>3, <1>5, <3>2
    <3>4. ~Live(req[h].token)'
      BY <1>5, <3>2, <3>3 DEF Live
    <3>5. Owns(req[h].user, req[h].session)' /\ Listed(req[h].user, req[h].session, req[h].token)'
      BY <1>3, <1>5, <3>2 DEF Monotone, Owns, Listed
    <3> QED
      BY <1>5, <3>1, <3>4, <3>5 DEF Knows, Found, Owns, Listed, Live
  <2>2. CASE req[h].op # "refresh"
    <3>1. AfterUpdate(req[h]) \notin {"createToken", "updateSet"}
      BY <2>2 DEF AfterUpdate
    <3> QED
      BY <1>5, <2>2, <3>1 DEF Knows, Found
  <2> QED
    BY <2>1, <2>2
<1>7. ~FreshLogin(h)'
  <2>1. req[h].op # "login"
    BY <1>1 DEF Shape, CallsOf
  <2> QED
    BY <1>5, <2>1 DEF FreshLogin, At
<1>8. UNCHANGED sessionTokens
  BY <1>1 DEF Set
<1> QED
  BY <1>3, <1>4, <1>6, <1>7, <1>8, StepSafe

\* The SET of Update sent a second time is as harmless as the first.
LEMMA UpdateResentSafe ==
  ASSUME SafeInv, TypeInv', NEW h \in Handler, UpdateResent(h)
  PROVE  SafeInv'
<1>1. /\ Shape(req[h]) /\ Knows(h) /\ req[h].pc = "updateSet"
      /\ Set(req[h].cur, req[h].rec) /\ UNCHANGED <<sessions, req>>
  BY DEF UpdateResent, At, SafeInv, TypeInv
<1>2. /\ req[h].cur \in Token /\ req[h].rec \in TokenRecord
      /\ req[h].rec.status # "ACTIVE"
      /\ Owns(req[h].rec.user, req[h].rec.session)
      /\ Listed(req[h].rec.user, req[h].rec.session, req[h].cur)
  BY <1>1 DEF Shape, Knows
<1>3. Monotone /\ StoresAgree'
  BY <1>1, <1>2, SetMonotone
<1>4. Knows(h)'
  BY <1>1, <1>3, KnowsStays
<1>5. OnlyActs(h) /\ ~FreshLogin(h)' /\ UNCHANGED sessionTokens
  BY <1>1 DEF OnlyActs, FreshLogin, At, Set
<1> QED
  BY <1>3, <1>4, <1>5, StepSafe

\* UpdateLastSeen changes nothing the other requests rely on.
LEMMA TouchSessionSafe ==
  ASSUME SafeInv, TypeInv', NEW h \in Handler, TouchSession(h)
  PROVE  SafeInv'
<1>1. /\ req[h] \in Request /\ Shape(req[h]) /\ Knows(h) /\ req[h].pc = "touchSession"
      /\ Become(h, [req[h] EXCEPT !.pc = "finish"])
      /\ UNCHANGED <<storeVars, sessions>>
  BY DEF TouchSession, Proceed, At, SafeInv, TypeInv, TypeOK
<1>2. OnlyActs(h) /\ req'[h] = [req[h] EXCEPT !.pc = "finish"]
  BY <1>1, BecomeActs DEF SafeInv
<1>3. /\ req'[h].pc = "finish" /\ req'[h].op = req[h].op
      /\ req'[h].token = req[h].token
      /\ req'[h].user = req[h].user /\ req'[h].session = req[h].session
  BY <1>1, <1>2 DEF Request
<1>4. Knows(h)' /\ ~FreshLogin(h)'
  BY <1>1, <1>3 DEF Knows, Found, FreshLogin, At, Owns, Listed, Live, storeVars
<1>5. Monotone /\ StoresAgree' /\ UNCHANGED sessionTokens
  BY <1>1, UnchangedMonotone DEF storeVars
<1> QED
  BY <1>2, <1>4, <1>5, StepSafe

\* A new row has no tokens yet, and no other login chose the same id.
LEMMA InsertSessionSafe ==
  ASSUME SafeInv, TypeInv', NEW h \in Handler, InsertSession(h)
  PROVE  SafeInv'
<1>1. /\ req[h] \in Request /\ Shape(req[h]) /\ req[h].pc = "insertSession"
      /\ UNCHANGED storeVars
  BY DEF InsertSession, At, SafeInv, TypeInv, TypeOK
<1>2. PICK s \in Session : /\ Insert(s, req[h].user)
                           /\ Become(h, [req[h] EXCEPT !.pc = "createToken", !.session = s])
  BY DEF InsertSession
<1>3. req[h].op = "login" /\ req[h].user \in User
  BY <1>1 DEF Shape, CallsOf, Loop, Revoking, Request, Operation
<1>4. Monotone /\ StoresAgree'
  BY <1>1, <1>2, <1>3, InsertMonotone
<1>5. OnlyActs(h) /\ req'[h] = [req[h] EXCEPT !.pc = "createToken", !.session = s]
  BY <1>2, BecomeActs DEF SafeInv
<1>6. /\ req'[h].pc = "createToken" /\ req'[h].op = "login"
      /\ req'[h].user = req[h].user /\ req'[h].session = s
  BY <1>1, <1>3, <1>5 DEF Request
<1>7. sessions'[s] # None /\ sessions'[s].user = req[h].user
  BY <1>2, <1>3, NoneAssumption DEF Insert, SessionRow, SafeInv, TypeInv, TypeOK, SessionsTypeOK
<1>8. \A g \in Handler : Knows(g)'
  <2> TAKE g \in Handler
  <2>1. CASE g # h
    BY <1>4, <1>5, <2>1, KnowsStays DEF OnlyActs
  <2>2. CASE g = h
    BY <1>6, <1>7, <2>2 DEF Knows, Found, Owns
  <2> QED
    BY <2>1, <2>2
<1>9. sessions[s] = None /\ UNCHANGED sessionTokens /\ sessionTokens[s] = {}
  BY <1>1, <1>2 DEF Insert, storeVars, SafeInv, StoresAgree
<1>10. \A g \in Handler : g # h /\ FreshLogin(g)' => FreshLogin(g) /\ req'[g] = req[g]
  BY <1>5 DEF OnlyActs, FreshLogin, At
<1>11. \A g \in Handler : FreshLogin(g) => req[g].session # s
  BY <1>9 DEF SafeInv, Knows, FreshLogin, At, Owns
<1>12. SessionsFresh'
  <2>1. \A g \in Handler : FreshLogin(g)' => sessionTokens'[req'[g].session] = {}
    BY <1>6, <1>9, <1>10 DEF SafeInv, SessionsFresh
  <2>2. \A g \in Handler : g # h /\ FreshLogin(g)' => req'[g].session # req'[h].session
    BY <1>6, <1>10, <1>11
  <2>3. \A f, g \in Handler :
          f # h /\ g # h /\ FreshLogin(f)' /\ FreshLogin(g)'
            /\ req'[f].session = req'[g].session => f = g
    BY <1>10 DEF SafeInv, SessionsFresh
  <2> QED
    BY <2>1, <2>2, <2>3 DEF SessionsFresh
<1> QED
  BY <1>4, <1>8, <1>12 DEF SafeInv

\* What a handler that is about to store a token knows: the session is the
\* user's, and it is new or one of its tokens is out of use.
LEMMA CreateTokenKnows ==
  ASSUME SafeInv, NEW h \in Handler, CreateToken(h)
  PROVE  LET u == req[h].user
             s == req[h].session
         IN  /\ u \in User /\ s \in Session /\ Owns(u, s) /\ Create(u, s)
             /\ \/ req[h].op = "login" /\ sessionTokens[s] = {}
                \/ /\ req[h].op = "refresh"
                   /\ req[h].token \in sessionTokens[s] /\ ~Live(req[h].token)
<1>1. /\ req[h] \in Request /\ Shape(req[h]) /\ Knows(h) /\ req[h].pc = "createToken"
  BY DEF CreateToken, At, SafeInv, TypeInv, TypeOK
<1>2. req[h].op \in {"login", "refresh"}
  BY <1>1 DEF Shape, CallsOf, Loop, Request, Operation
<1>3. req[h].user \in User /\ req[h].session \in Session
  BY <1>1, <1>2 DEF Shape, Found
<1>4. Owns(req[h].user, req[h].session)
  BY <1>1 DEF Knows
<1>5. req[h].op = "login" => sessionTokens[req[h].session] = {}
  BY <1>1 DEF SafeInv, SessionsFresh, FreshLogin, At
<1>6. req[h].op = "refresh" => /\ req[h].token \in sessionTokens[req[h].session]
                               /\ ~Live(req[h].token)
  BY <1>1 DEF Knows, Found, Listed
<1>7. Create(req[h].user, req[h].session)
  BY DEF CreateToken
<1> QED
  BY <1>2, <1>3, <1>4, <1>5, <1>6, <1>7

\* The new token of a login or refresh belongs to the session it is put in.
LEMMA CreateTokenSafe ==
  ASSUME SafeInv, TypeInv', NEW h \in Handler, CreateToken(h)
  PROVE  SafeInv'
<1> DEFINE u == req[h].user
           s == req[h].session
<1>1. /\ req[h] \in Request /\ Shape(req[h]) /\ Knows(h) /\ req[h].pc = "createToken"
      /\ UNCHANGED sessions
  BY DEF CreateToken, At, SafeInv, TypeInv, TypeOK
<1>2. /\ u \in User /\ s \in Session /\ Owns(u, s) /\ Create(u, s)
      /\ \/ req[h].op = "login" /\ sessionTokens[s] = {}
         \/ /\ req[h].op = "refresh"
            /\ req[h].token \in sessionTokens[s] /\ ~Live(req[h].token)
  BY CreateTokenKnows
<1>3. Monotone /\ StoresAgree'
  BY <1>1, <1>2, CreateMonotone
<1> DEFINE c == IF req[h].op = "login" THEN "finish" ELSE "touchSession"
<1>4. OnlyActs(h) /\ req'[h] = [req[h] EXCEPT !.pc = c, !.cur = issued + 1]
  BY BecomeActs DEF CreateToken, SafeInv
<1>5. /\ req'[h].pc = c /\ req'[h].op = req[h].op /\ req'[h].token = req[h].token
      /\ req'[h].user = u /\ req'[h].session = s
  BY <1>1, <1>4 DEF Request
<1>6. Knows(h)'
  <2>1. CASE req[h].op = "login"
    BY <1>5, <2>1 DEF Knows, Found
  <2>2. CASE req[h].op = "refresh"
    <3>1. /\ req[h].token \in Token /\ Listed(u, s, req[h].token)
          /\ ~Live(req[h].token)
      BY <1>1, <1>2, <2>2 DEF Shape, Knows, Found
    <3>2. req[h].token \in 1..issued
      BY <1>2, <3>1 DEF SafeInv, StoresAgree, Listed
    <3>3. Owns(u, s)' /\ Listed(u, s, req[h].token)' /\ ~Live(req[h].token)'
      BY <1>2, <1>3, <1>5, <3>1, <3>2 DEF Monotone, Owns, Listed, Live
    <3> QED
      BY <1>5, <2>2, <3>3 DEF Knows, Found, Owns, Listed, Live
  <2> QED
    BY <1>2, <2>1, <2>2
<1>7. \A g \in Handler : Knows(g)'
  <2> TAKE g \in Handler
  <2>1. CASE g # h
    BY <1>3, <1>4, <2>1, KnowsStays DEF OnlyActs
  <2> QED
    BY <1>6, <2>1
<1>8. ~FreshLogin(h)'
  BY <1>5 DEF FreshLogin, At
<1>9. \A g \in Handler : FreshLogin(g)' => g # h /\ FreshLogin(g) /\ req'[g] = req[g]
  BY <1>4, <1>8 DEF OnlyActs, FreshLogin, At
<1>10. \A g \in Handler : g # h /\ FreshLogin(g) => req[g].session # s
  BY <1>1, <1>2 DEF SafeInv, SessionsFresh, FreshLogin, At
<1>11. \A q \in Session : q # s => sessionTokens'[q] = sessionTokens[q]
  BY <1>2 DEF Create, SafeInv, TypeInv, TypeOK, StoreTypeOK
<1>12. SessionsFresh'
  <2>1. \A g \in Handler : FreshLogin(g) => req[g].session \in Session
    BY DEF SafeInv, TypeInv, Shape, FreshLogin, At
  <2>2. \A g \in Handler : FreshLogin(g)' => sessionTokens'[req'[g].session] = {}
    BY <1>9, <1>10, <1>11, <2>1 DEF SafeInv, SessionsFresh
  <2> QED
    BY <1>9, <2>2 DEF SafeInv, SessionsFresh
<1> QED
  BY <1>3, <1>7, <1>12 DEF SafeInv

\* Time disturbs nothing a request has learnt.
LEMMA TickSafe ==
  ASSUME SafeInv, TypeInv', Tick
  PROVE  SafeInv'
<1>1. Monotone /\ StoresAgree' /\ UNCHANGED <<req, sessionTokens>>
  BY TickMonotone DEF Tick, Lapse, Expire
<1>2. \A h \in Handler : Knows(h)'
  BY <1>1, KnowsStays
<1>3. SessionsFresh'
  BY <1>1 DEF SafeInv, SessionsFresh, FreshLogin, At
<1> QED
  BY <1>1, <1>2, <1>3 DEF SafeInv

-----------------------------------------------------------------------------
\* Two empty stores agree.
LEMMA InitSafe == Init => SafeInv
<1> SUFFICES ASSUME Init PROVE SafeInv
  OBVIOUS
<1>1. TypeInv
  BY InitType
<1>2. StoresAgree
  BY DEF Init, StoreInit, StoresAgree, TokensIndexed, TokenOwned
<1>3. \A h \in Handler : Knows(h) /\ ~FreshLogin(h)
  BY DEF Init, Idle, Knows, Found, FreshLogin, At
<1> QED
  BY <1>1, <1>2, <1>3 DEF SafeInv, SessionsFresh

\* Every step keeps the two stores and the requests in agreement.
LEMMA NextSafe == SafeInv /\ [Next]_vars => SafeInv'
<1> SUFFICES ASSUME SafeInv, [Next]_vars PROVE SafeInv'
  OBVIOUS
<1>1. TypeInv'
  BY NextType DEF SafeInv
<1>2. CASE UNCHANGED vars
  <2>1. Monotone /\ StoresAgree' /\ UNCHANGED <<req, sessionTokens>>
    BY <1>2, UnchangedMonotone DEF vars, storeVars
  <2> QED
    BY <1>1, <2>1, KnowsStays DEF SafeInv, SessionsFresh, FreshLogin, At
<1>3. CASE Tick
  BY <1>1, <1>3, TickSafe
<1>4. ASSUME NEW h \in Handler, Arrive(h) \/ Serve(h) \/ UpdateResent(h) \/ Abort(h)
      PROVE  SafeInv'
  BY <1>1, <1>4, QuietSafe, AcceptedSafe, UpdateGetSafe, UpdateSetSafe,
     UpdateResentSafe, TouchSessionSafe, InsertSessionSafe, CreateTokenSafe
  DEF Serve, QuietStep
<1> QED
  BY <1>2, <1>3, <1>4 DEF Next

\* The stores and the requests agree in every reachable state.
LEMMA SafeAlways == Spec => []SafeInv
BY InitSafe, NextSafe, PTL DEF Spec

-----------------------------------------------------------------------------
\* A stored token belongs to an existing session of the same user.
THEOREM TokensAreOwned == Spec => []TokenOwned
<1>1. SafeInv => TokenOwned
  BY DEF SafeInv, StoresAgree
<1> QED
  BY <1>1, SafeAlways, PTL

\* A stored token is in the two indexes the Revoke... loops walk, whatever an
\* UpdateStatus that overlaps with expiry writes back.
THEOREM TokensAreIndexed == Spec => []TokensIndexed
<1>1. SafeInv => TokensIndexed
  BY DEF SafeInv, StoresAgree
<1> QED
  BY <1>1, SafeAlways, PTL

\* RefreshAccessToken's old token is out of use before the successor exists,
\* and stays so.
THEOREM RotationIsOrdered == Spec => []RotationOrder
<1>1. SafeInv => RotationOrder
  BY DEF SafeInv, Knows, RotationOrder
<1> QED
  BY <1>1, SafeAlways, PTL

-----------------------------------------------------------------------------
(* AuthService implements TokenLifecycle.                                  *)

Chains == <<sessionTokens, {t \in Token : Usable(t)}>>

\* Create is the step of TokenLifecycle that grants a token.
LEMMA CreateGrants ==
  ASSUME SafeInv, NEW h \in Handler, CreateToken(h)
  PROVE  Lifecycle!Next
<1> USE DEF SafeInv, TypeInv, TypeOK, StoreTypeOK
<1> DEFINE U == {t \in Token : Usable(t)}
<1>1. PICK u \in User, s \in Session :
        /\ Create(u, s)
        /\ \/ sessionTokens[s] = {}
           \/ \E t \in sessionTokens[s] : ~Live(t)
  BY CreateTokenKnows
<1>2. PICK t0 \in Token : /\ t0 = issued + 1
                          /\ t0 \notin 1..issued /\ ~(t0 <= lapsed)
  BY <1>1, BoundsAssumption DEF Create, Token
<1>3. /\ tokens' = [tokens EXCEPT ![t0] = [user |-> u, session |-> s, status |-> "ACTIVE"]]
      /\ sessionTokens' = [sessionTokens EXCEPT ![s] = @ \cup {t0}]
      /\ lapsed' = lapsed
  BY <1>1, <1>2 DEF Create
<1>4. \A r \in Session : t0 \notin sessionTokens[r]
  BY <1>2 DEF StoresAgree
<1>5. sessionTokens[s] = {} \/ ~(sessionTokens[s] \subseteq U)
  BY <1>1 DEF Usable
<1>6. Usable(t0)' /\ \A t \in Token : t # t0 => (Usable(t)' <=> Usable(t))
  <2>1. tokens'[t0] = [user |-> u, session |-> s, status |-> "ACTIVE"]
    BY <1>2, <1>3
  <2>2. tokens'[t0] # None
    BY <2>1, NoneAssumption DEF TokenRecord
  <2>3. Usable(t0)'
    BY <1>2, <1>3, <2>1, <2>2 DEF Usable, Live, Expired
  <2>4. \A t \in Token : t # t0 => tokens'[t] = tokens[t]
    BY <1>3
  <2> QED
    BY <1>3, <2>3, <2>4 DEF Usable, Live, Expired
<1>7. {t \in Token : Usable(t)}' = U \cup {t0}
  BY <1>2, <1>6
<1>8. Lifecycle!Grant(s, t0)
  BY <1>3, <1>4, <1>5, <1>7 DEF Lifecycle!Grant
<1> QED
  BY <1>2, <1>8 DEF Lifecycle!Next

\* The SET of Update withdraws a token or changes nothing.
LEMMA SetWithdraws ==
  ASSUME SafeInv, NEW t \in Token, NEW record \in TokenRecord, Set(t, record),
         record.status # "ACTIVE"
  PROVE  [Lifecycle!Next]_Chains
<1> DEFINE U == {n \in Token : Usable(n)}
<1>1. /\ tokens' = [tokens EXCEPT ![t] = record]
      /\ UNCHANGED <<sessionTokens, lapsed>>
  BY DEF Set
<1>2. ~Usable(t)' /\ \A n \in Token : n # t => (Usable(n)' <=> Usable(n))
  BY <1>1 DEF Usable, Live, Expired, SafeInv, TypeInv, TypeOK, StoreTypeOK
<1>3. {n \in Token : Usable(n)}' = U \ {t}
  BY <1>2
<1>4. CASE t \in U
  BY <1>1, <1>3, <1>4 DEF Lifecycle!Next, Lifecycle!Withdraw
<1>5. CASE t \notin U
  BY <1>1, <1>3, <1>5 DEF Chains
<1> QED
  BY <1>4, <1>5

\* Time withdraws tokens or changes nothing.
LEMMA TickWithdraws ==
  ASSUME SafeInv, Tick
  PROVE  [Lifecycle!Next]_Chains
<1> USE DEF SafeInv, TypeInv, TypeOK, StoreTypeOK
<1> DEFINE U == {n \in Token : Usable(n)}
<1>1. CASE Lapse
  <2>1. UNCHANGED <<tokens, sessionTokens>> /\ lapsed' = lapsed + 1
    BY <1>1 DEF Lapse
  <2>2. lapsed + 1 \in Token
    BY <1>1, BoundsAssumption DEF Lapse, Token
  <2>3. {n \in Token : Usable(n)}' = U \ {lapsed + 1}
    BY <2>1, BoundsAssumption DEF Usable, Live, Expired, Token
  <2>4. CASE lapsed + 1 \in U
    BY <2>1, <2>2, <2>3, <2>4 DEF Lifecycle!Next, Lifecycle!Withdraw
  <2>5. CASE lapsed + 1 \notin U
    BY <2>1, <2>3, <2>5 DEF Chains
  <2> QED
    BY <2>4, <2>5
<1>2. CASE \E t \in Token : Expire(t)
  <2>1. PICK t \in Token : Expire(t)
    BY <1>2
  <2>2. /\ tokens' = [tokens EXCEPT ![t] = None] /\ t <= lapsed
        /\ UNCHANGED <<sessionTokens, lapsed>>
    BY <2>1 DEF Expire, Expired
  <2>3. {n \in Token : Usable(n)}' = U
    BY <2>2 DEF Usable, Live, Expired
  <2> QED
    BY <2>2, <2>3 DEF Chains
<1> QED
  BY <1>1, <1>2 DEF Tick

\* Every step of AuthService is a step of TokenLifecycle or a stutter.
LEMMA StepImplements ==
  ASSUME SafeInv, [Next]_vars
  PROVE  [Lifecycle!Next]_Chains
<1>1. CASE UNCHANGED storeVars
  BY <1>1 DEF Chains, storeVars, Usable, Live, Expired
<1>2. ASSUME NEW h \in Handler, CreateToken(h) PROVE [Lifecycle!Next]_Chains
  BY <1>2, CreateGrants
<1>3. ASSUME NEW h \in Handler, UpdateSet(h) \/ UpdateResent(h)
      PROVE  [Lifecycle!Next]_Chains
  <2>1. /\ req[h].pc = "updateSet" /\ Shape(req[h]) /\ Knows(h)
        /\ Set(req[h].cur, req[h].rec)
    BY <1>3 DEF UpdateSet, UpdateResent, At, SafeInv, TypeInv
  <2>2. /\ req[h].cur \in Token /\ req[h].rec \in TokenRecord
        /\ req[h].rec.status # "ACTIVE"
    BY <2>1 DEF Shape, Knows
  <2> QED
    BY <2>1, <2>2, SetWithdraws
<1>4. CASE Tick
  BY <1>4, TickWithdraws
<1>5. ASSUME NEW h \in Handler, Arrive(h) PROVE UNCHANGED storeVars
  BY <1>5
  DEF Arrive, BeginLogin, BeginLogoutAll, BeginRefresh, BeginLogout,
      BeginRevokeSession, BeginLogoutNoCookie, Begin, Proceed
<1>6. ASSUME NEW h \in Handler, Serve(h) \/ Abort(h)
      PROVE  CreateToken(h) \/ UpdateSet(h) \/ UNCHANGED storeVars
  BY <1>6
  DEF Serve, Abort, InsertSession, RefreshUnknown, RefreshReused, RefreshRefused,
      RefreshAccepted, LogoutFind, UpdateGet, UpdateMissing, TouchSession,
      EndSession, FindSession, ListTokens, RevokeNext, RevokeSessions, Finish,
      Proceed
<1> QED
  BY <1>1, <1>2, <1>3, <1>4, <1>5, <1>6 DEF Next, vars, storeVars

\* A session's tokens form a chain: each is usable from its creation until it
\* is withdrawn for good, and none is created while the whole chain is usable.
THEOREM LifecycleImplemented == Spec => ImplementsLifecycle
<1>1. Init => Lifecycle!Init
  BY DEF Init, StoreInit, Lifecycle!Init, Usable, Live
<1>2. SafeInv /\ [Next]_vars => [Lifecycle!Next]_Chains
  BY StepImplements
<1> QED
  BY <1>1, <1>2, SafeAlways, PTL
  DEF Spec, ImplementsLifecycle, Lifecycle!Spec, Chains
=============================================================================
