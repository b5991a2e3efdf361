----------------------- MODULE AuthServiceRevocation ------------------------
(***************************************************************************)
(* RevocationComplete, AuditTruthful and OwnRecordsOnly, proved for every  *)
(* value of the constants.                                                 *)
(*                                                                         *)
(* A revoking request reads an index once and walks it.  It is complete    *)
(* because, of the tokens that were stored when it read the index, those   *)
(* that are still usable are always in its hands (InHand): the others      *)
(* cannot bring a token back into use (Monotone), and the request drops    *)
(* one only when it is out of use.                                         *)
(*                                                                         *)
(* The second half is about whose records a request touches.  The users'   *)
(* indexes are disjoint (IndexesFit), so what a request takes from the     *)
(* index of its user is that user's (ActsOnOwn); and what a request that   *)
(* ends has done (Claims) is what its row in audit_logs says of it.        *)
(***************************************************************************)
EXTENDS AuthServiceSafety

\* The tokens a request refers to have been generated.
Stored(h) ==
  LET r == req[h]
  IN  /\ r.token # None => r.token \in 1..issued
      /\ r.op \in {"login", "refresh"} /\ r.pc \in {"touchSession", "finish"} =>
           r.cur \in 1..issued

\* How far a logout has come.
LogsOut(h) ==
  LET r == req[h]
  IN  r.op = "logout" =>
        /\ r.session # None => sessions[r.session] # None
        /\ r.pc \in {"updateGet", "updateSet"} => r.cur = r.token
        /\ r.pc \in {"endSession", "finish"} /\ r.token # None => ~Usable(r.token)
        /\ r.pc = "finish" /\ r.session # None =>
             sessions[r.session].status = "REVOKED"

\* The tokens a Revoke... loop still has to deal with.
InHand(r) ==
  r.todo \cup (IF r.pc \in {"updateGet", "updateSet"} THEN {r.cur} ELSE {})

Walking(r) == r.op \in Revoking /\ r.pc \in Loop \ {"listTokens"}

\* What the request is to revoke.
Concerns(r, t) ==
  IF r.op = "revokeSession" THEN tokens[t].session = r.session
                            ELSE tokens[t].user = r.user

Reached(r, s) ==
  IF r.op = "revokeSession" THEN s = r.session
                            ELSE /\ sessions[s].user = r.user
                                 /\ sessionTokens[s] \cap 1..r.since # {}

RevokesAll(h) ==
  LET r == req[h]
  IN  /\ r.op = "revokeSession" /\ r.pc # "findSession" => Owns(r.user, r.session)
      /\ Walking(r) =>
           /\ r.since <= issued
           /\ \A t \in 1..r.since : Usable(t) /\ Concerns(r, t) => t \in InHand(r)
      /\ Walking(r) /\ r.pc = "finish" =>
           /\ r.todo = {}
           /\ \A s \in Session : sessions[s] # None /\ Reached(r, s) =>
                                   sessions[s].status = "REVOKED"

RevocationInv ==
  /\ SafeInv
  /\ delivered \subseteq 1..issued
  /\ \A h \in Handler : Stored(h) /\ LogsOut(h) /\ RevokesAll(h)

-----------------------------------------------------------------------------
(* What a step does to the stores.                                         *)

\* The steps that write to a store.
LEMMA WhoWrites ==
  ASSUME [Next]_vars
  PROVE  \/ UNCHANGED <<storeVars, sessions>>
         \/ Tick
         \/ \E h \in Handler :
              \/ InsertSession(h) \/ CreateToken(h) \/ UpdateSet(h) \/ UpdateResent(h)
              \/ EndSession(h) \/ RevokeSessions(h)
<1>1. ASSUME NEW h \in Handler, Arrive(h) PROVE UNCHANGED <<storeVars, sessions>>
  BY <1>1
  DEF Arrive, BeginLogin, BeginLogoutAll, BeginRefresh, BeginLogout,
      BeginRevokeSession, BeginLogoutNoCookie, Begin, Proceed
<1>2. ASSUME NEW h \in Handler, Serve(h) \/ Abort(h)
      PROVE  \/ InsertSession(h) \/ CreateToken(h) \/ UpdateSet(h)
             \/ EndSession(h) \/ RevokeSessions(h)
             \/ UNCHANGED <<storeVars, sessions>>
  BY <1>2
  DEF Serve, Abort, RefreshUnknown, RefreshReused, RefreshRefused,
      RefreshAccepted, LogoutFind, UpdateGet, UpdateMissing, TouchSession,
      FindSession, ListTokens, RevokeNext, Finish, Proceed
<1>3. CASE UNCHANGED vars
  BY <1>3 DEF vars, storeVars
<1> QED
  BY <1>1, <1>2, <1>3 DEF Next

\* An index gains no token but the one being created.
IndexGrowth ==
  \A s \in Session : \A t \in sessionTokens'[s] :
    t \in sessionTokens[s] \/ t = issued + 1

\* No step of the system takes back what the stores say.
LEMMA NextMonotone ==
  ASSUME SafeInv, [Next]_vars
  PROVE  Monotone /\ IndexGrowth
<1>1. CASE UNCHANGED <<storeVars, sessions>>
  BY <1>1, UnchangedMonotone DEF IndexGrowth, storeVars
<1>2. ASSUME NEW h \in Handler, InsertSession(h) PROVE Monotone /\ IndexGrowth
  <2>1. req[h].user \in User
    BY <1>2
    DEF InsertSession, At, SafeInv, TypeInv, TypeOK, Shape, CallsOf, Loop, Request,
        Operation, Revoking
  <2>2. PICK s \in Session : Insert(s, req[h].user)
    BY <1>2 DEF InsertSession
  <2>3. UNCHANGED storeVars
    BY <1>2 DEF InsertSession
  <2> QED
    BY <2>1, <2>2, <2>3, InsertMonotone DEF IndexGrowth, storeVars
<1>3. ASSUME NEW h \in Handler, EndSession(h) \/ RevokeSessions(h)
      PROVE  Monotone /\ IndexGrowth
  <2>1. PICK S : Revoke(S)
    BY <1>3 DEF EndSession, RevokeSessions, RevokeById, RevokeByUser
  <2>2. UNCHANGED storeVars
    BY <1>3 DEF EndSession, RevokeSessions
  <2> QED
    BY <2>1, <2>2, RevokeMonotone DEF IndexGrowth, storeVars
<1>4. ASSUME NEW h \in Handler, CreateToken(h) PROVE Monotone /\ IndexGrowth
  <2>1. /\ req[h].user \in User /\ req[h].session \in Session
        /\ Owns(req[h].user, req[h].session) /\ Create(req[h].user, req[h].session)
        /\ UNCHANGED sessions
    BY <1>4, CreateTokenKnows DEF CreateToken
  <2>2. IndexGrowth
    BY <2>1 DEF IndexGrowth, Create, SafeInv, TypeInv, TypeOK, StoreTypeOK
  <2> QED
    BY <2>1, <2>2, CreateMonotone
<1>5. ASSUME NEW h \in Handler, UpdateSet(h) \/ UpdateResent(h)
      PROVE  Monotone /\ IndexGrowth
  <2>1. /\ Shape(req[h]) /\ Knows(h) /\ req[h].pc = "updateSet"
        /\ Set(req[h].cur, req[h].rec) /\ UNCHANGED sessions
    BY <1>5 DEF UpdateSet, UpdateResent, At, SafeInv, TypeInv
  <2>2. /\ req[h].cur \in Token /\ req[h].rec \in TokenRecord
        /\ req[h].rec.status # "ACTIVE"
        /\ Owns(req[h].rec.user, req[h].rec.session)
        /\ Listed(req[h].rec.user, req[h].rec.session, req[h].cur)
    BY <2>1 DEF Shape, Knows
  <2> QED
    BY <2>1, <2>2, SetMonotone DEF Set, IndexGrowth
<1>6. CASE Tick
  BY <1>6, TickMonotone DEF Tick, Lapse, Expire, IndexGrowth
<1> QED
  BY <1>1, <1>2, <1>3, <1>4, <1>5, <1>6, WhoWrites

\* No step brings a token that exists back into use.
LEMMA UseStays ==
  ASSUME SafeInv, SafeInv', Monotone, NEW t \in 1..issued, Usable(t)'
  PROVE  Usable(t) /\ tokens'[t] = tokens[t]
<1>1. lapsed \in Nat /\ lapsed' \in Nat /\ issued \in Nat
  BY BoundsAssumption DEF SafeInv, TypeInv, TypeOK, StoreTypeOK
<1>2. Live(t) /\ tokens'[t] = tokens[t] /\ ~(t <= lapsed')
  BY DEF Monotone, Usable, Expired
<1>3. ~(t <= lapsed)
  BY <1>1, <1>2 DEF Monotone
<1> QED
  BY <1>2, <1>3 DEF Usable, Expired

-----------------------------------------------------------------------------
(* The other requests get no further away from their goal.                 *)

\* Tokens once generated stay generated while the other handlers run.
LEMMA StoredStays ==
  ASSUME RevocationInv, Monotone, SafeInv', NEW h \in Handler, req'[h] = req[h]
  PROVE  Stored(h)'
<1>1. 1..issued \subseteq 1..issued'
  BY BoundsAssumption DEF Monotone, RevocationInv, SafeInv, TypeInv, TypeOK, StoreTypeOK
<1> QED
  BY <1>1 DEF RevocationInv, Stored

\* The progress of a logout survives the steps of the others.
LEMMA LogsOutStays ==
  ASSUME RevocationInv, Monotone, SafeInv', NEW h \in Handler, req'[h] = req[h]
  PROVE  LogsOut(h)'
<1> DEFINE r == req[h]
<1>1. r \in Request /\ Stored(h) /\ LogsOut(h)
  BY DEF RevocationInv, SafeInv, TypeInv, TypeOK
<1> SUFFICES ASSUME r.op = "logout" PROVE LogsOut(h)'
  BY DEF LogsOut
<1>2. r.session # None => r.session \in Session
  BY <1>1 DEF Request
<1>3. r.session # None => sessions'[r.session] # None
  BY <1>1, <1>2 DEF LogsOut, Monotone
<1>4. r.pc = "finish" /\ r.session # None => sessions'[r.session].status = "REVOKED"
  BY <1>1, <1>2 DEF LogsOut, Monotone
<1>5. ASSUME r.pc \in {"endSession", "finish"}, r.token # None
      PROVE  ~Usable(r.token)'
  <2>1. r.token \in 1..issued /\ ~Usable(r.token)
    BY <1>1, <1>5 DEF Stored, LogsOut
  <2>2. \A t \in 1..issued : Usable(t)' => Usable(t)
    BY UseStays DEF RevocationInv
  <2> QED
    BY <2>1, <2>2 DEF Usable, Live, Expired
<1> QED
  BY <1>1, <1>3, <1>4, <1>5 DEF LogsOut, Usable, Live, Expired

\* A step of another handler adds nothing to what a Revoke... loop must reach.
LEMMA RevokesAllStays ==
  ASSUME RevocationInv, Monotone, IndexGrowth, SafeInv', NEW h \in Handler,
         req'[h] = req[h]
  PROVE  RevokesAll(h)'
<1> DEFINE r == req[h]
<1>1. r \in Request /\ Shape(r) /\ RevokesAll(h) /\ SafeInv
  BY DEF RevocationInv, SafeInv, TypeInv, TypeOK
<1>2. issued \in Nat /\ issued' \in Nat /\ issued <= issued' /\ r.since \in Nat
  BY <1>1, BoundsAssumption
  DEF SafeInv, TypeInv, TypeOK, StoreTypeOK, Monotone, Request
<1>3. r.op = "revokeSession" /\ r.pc # "findSession" =>
        sessions'[r.session] # None /\ sessions'[r.session].user = r.user
  <2>1. r.op = "revokeSession" => r.session \in Session
    BY <1>1 DEF Shape
  <2> QED
    BY <1>1, <2>1 DEF RevokesAll, Owns, Monotone
<1>4. ASSUME Walking(r) PROVE r.since <= issued'
  BY <1>1, <1>2, <1>4 DEF RevokesAll
<1>5. ASSUME Walking(r), NEW t \in 1..r.since,
             t \notin InHand(r), Usable(t)'
      PROVE  IF r.op = "revokeSession" THEN tokens'[t].session # r.session
                                       ELSE tokens'[t].user # r.user
  <2>1. t \in 1..issued
    BY <1>1, <1>2, <1>5 DEF RevokesAll
  <2>2. Usable(t) /\ tokens'[t] = tokens[t]
    BY <1>1, <1>5, <2>1, UseStays
  <2> QED
    BY <1>1, <1>5, <2>2 DEF RevokesAll, Concerns
<1>6. ASSUME Walking(r), r.pc = "finish", NEW s \in Session, sessions'[s] # None,
             Reached(req[h], s)'
      PROVE  sessions'[s].status = "REVOKED"
  <2>1. sessions[s] # None /\ Reached(r, s)
    <3>1. CASE r.op = "revokeSession"
      BY <1>1, <1>6, <3>1 DEF Reached, RevokesAll, Owns
    <3>2. CASE r.op # "revokeSession"
      <4>1. PICK t \in sessionTokens'[s] : t \in 1..r.since
        BY <1>6, <3>2 DEF Reached
      <4>2. t \in sessionTokens[s]
        BY <1>1, <1>2, <1>6, <4>1 DEF RevokesAll, IndexGrowth
      <4>3. sessions[s] # None
        BY <1>1, <4>2 DEF SafeInv, StoresAgree
      <4> QED
        BY <1>6, <3>2, <4>1, <4>2, <4>3 DEF Reached, Monotone
    <3> QED
      BY <3>1, <3>2
  <2> QED
    BY <1>1, <1>6, <2>1 DEF RevokesAll, Monotone
<1>7. Walking(r) /\ r.pc = "finish" => r.todo = {}
  BY <1>1 DEF RevokesAll
<1> QED
  BY <1>3, <1>4, <1>5, <1>6, <1>7
  DEF RevokesAll, Owns, Walking, Concerns, InHand, Usable, Live, Expired

-----------------------------------------------------------------------------
(* The acting request.                                                     *)

Handled(h) == Stored(h) /\ LogsOut(h) /\ RevokesAll(h)

\* A request that revokes nothing.
LEMMA PlainHandled ==
  ASSUME NEW h \in Handler,
         req'[h].op \notin {"logout"} \cup Revoking,
         req'[h].token # None => req'[h].token \in 1..issued',
         req'[h].op \in {"login", "refresh"} /\ req'[h].pc \in {"touchSession", "finish"} =>
           req'[h].cur \in 1..issued'
  PROVE  Handled(h)'
BY DEF Handled, Stored, LogsOut, RevokesAll, Walking, Revoking

\* A handler that serves nothing has nothing left to revoke.
LEMMA IdleHandled ==
  ASSUME NEW h \in Handler, req'[h] = Idle
  PROVE  Handled(h)'
BY PlainHandled DEF Idle, Revoking

\* A request that arrives has promised nothing yet.
LEMMA ArriveHandled ==
  ASSUME RevocationInv, SafeInv', NEW h \in Handler, Arrive(h)
  PROVE  Handled(h)'
<1>0. /\ TypeInv /\ issued' = issued /\ delivered \subseteq 1..issued
      /\ \A r : Proceed(h, r) => req'[h] = r
  BY BecomeActs
  DEF RevocationInv, SafeInv, Arrive, BeginLogin, BeginLogoutAll, BeginRefresh,
      BeginLogout, BeginRevokeSession, BeginLogoutNoCookie, Begin, Proceed, storeVars
<1> USE IdleType DEF Begin, Request
<1>1. ASSUME NEW u \in User, BeginLogin(h, u) PROVE Handled(h)'
  <2>1. req'[h] = [Idle EXCEPT !.pc = "insertSession", !.op = "login", !.user = u]
    BY <1>0, <1>1 DEF BeginLogin
  <2>2. req'[h].pc = "insertSession" /\ req'[h].op = "login" /\ req'[h].token = None
    BY <2>1 DEF Idle
  <2> QED
    BY <2>2, PlainHandled DEF Revoking
<1>2. ASSUME NEW u \in User, BeginLogoutAll(h, u) PROVE Handled(h)'
  <2>1. req'[h] = [Idle EXCEPT !.pc = "listTokens", !.op = "logoutAll", !.user = u]
    BY <1>0, <1>2 DEF BeginLogoutAll
  <2>2. req'[h].pc = "listTokens" /\ req'[h].op = "logoutAll" /\ req'[h].token = None
    BY <2>1 DEF Idle
  <2> QED
    BY <2>2 DEF Handled, Stored, LogsOut, RevokesAll, Walking
<1>3. ASSUME NEW t \in Token, BeginRefresh(h, t) PROVE Handled(h)'
  <2>1. req'[h] = [Idle EXCEPT !.pc = "findToken", !.op = "refresh", !.token = t]
    BY <1>0, <1>3 DEF BeginRefresh
  <2>2. req'[h].pc = "findToken" /\ req'[h].op = "refresh" /\ req'[h].token = t
    BY <2>1 DEF Idle
  <2>3. t \in 1..issued'
    BY <1>0, <1>3 DEF BeginRefresh
  <2> QED
    BY <2>2, <2>3, PlainHandled DEF Revoking
<1>4. ASSUME NEW t \in Token, BeginLogout(h, t) PROVE Handled(h)'
  <2>1. req'[h] = [Idle EXCEPT !.pc = "findToken", !.op = "logout", !.token = t]
    BY <1>0, <1>4 DEF BeginLogout
  <2>2. /\ req'[h].pc = "findToken" /\ req'[h].op = "logout" /\ req'[h].token = t
        /\ req'[h].session = None
    BY <2>1 DEF Idle
  <2>3. t \in 1..issued'
    BY <1>0, <1>4 DEF BeginLogout
  <2> QED
    BY <2>2, <2>3 DEF Handled, Stored, LogsOut, RevokesAll, Walking, Revoking
<1>5. ASSUME NEW u \in User, NEW s \in Session, BeginRevokeSession(h, u, s)
      PROVE  Handled(h)'
  <2>1. req'[h] = [Idle EXCEPT !.pc = "findSession", !.op = "revokeSession",
                               !.user = u, !.session = s]
    BY <1>0, <1>5 DEF BeginRevokeSession
  <2>2. /\ req'[h].pc = "findSession" /\ req'[h].op = "revokeSession"
        /\ req'[h].token = None
    BY <2>1 DEF Idle
  <2> QED
    BY <2>2 DEF Handled, Stored, LogsOut, RevokesAll, Walking, Loop
<1>6. CASE BeginLogoutNoCookie(h)
  <2>1. req'[h] = [Idle EXCEPT !.pc = "finish", !.op = "logout"]
    BY <1>0, <1>6 DEF BeginLogoutNoCookie
  <2>2. /\ req'[h].pc = "finish" /\ req'[h].op = "logout" /\ req'[h].token = None
        /\ req'[h].session = None
    BY <2>1 DEF Idle
  <2> QED
    BY <2>2 DEF Handled, Stored, LogsOut, RevokesAll, Walking, Revoking
<1> QED
  BY <1>1, <1>2, <1>3, <1>4, <1>5, <1>6 DEF Arrive

\* Login, refresh and the end of any request.
LEMMA PlainSteps ==
  ASSUME RevocationInv, SafeInv', Monotone, NEW h \in Handler,
         \/ InsertSession(h) \/ CreateToken(h) \/ RefreshUnknown(h)
         \/ RefreshRefused(h) \/ RefreshAccepted(h) \/ TouchSession(h)
         \/ Finish(h) \/ Abort(h)
  PROVE  Handled(h)'
<1> USE DEF At, LookingUp
<1>0. /\ SafeInv /\ TypeInv /\ req[h] \in Request /\ Shape(req[h]) /\ Stored(h)
      /\ \A r : Become(h, r) => req'[h] = r
  BY BecomeActs DEF RevocationInv, SafeInv, TypeInv, TypeOK
<1>1. 1..issued \subseteq 1..issued'
  BY BoundsAssumption
  DEF Monotone, RevocationInv, SafeInv, TypeInv, TypeOK, StoreTypeOK
<1>2. CASE InsertSession(h)
  <2>1. PICK s \in Session : req'[h] = [req[h] EXCEPT !.pc = "createToken", !.session = s]
    BY <1>0, <1>2 DEF InsertSession
  <2>2. req[h].op = "login"
    BY <1>0, <1>2
    DEF InsertSession, Shape, CallsOf, Loop, Revoking, Request, Operation
  <2>3. /\ req'[h].pc = "createToken" /\ req'[h].op = "login"
        /\ req'[h].token = req[h].token
    BY <1>0, <2>1, <2>2 DEF Request
  <2> QED
    BY <1>0, <1>1, <2>3, PlainHandled DEF Stored, Revoking
<1>3. CASE CreateToken(h)
  <2>0. req[h].op \in {"login", "refresh"}
    BY <1>0, <1>3, CreateTokenKnows
  <2>1. issued' = issued + 1 /\ issued \in Nat
    BY <1>0, <1>3, BoundsAssumption DEF CreateToken, Create, TypeInv, TypeOK, StoreTypeOK
  <2>2. req'[h] = [req[h] EXCEPT
                     !.pc = IF req[h].op = "login" THEN "finish" ELSE "touchSession",
                     !.cur = issued + 1]
    BY <1>0, <1>3 DEF CreateToken
  <2>3. /\ req'[h].op = req[h].op /\ req'[h].token = req[h].token
        /\ req'[h].cur = issued + 1
    BY <1>0, <2>2 DEF Request
  <2>4. req'[h].cur \in 1..issued'
    BY <2>1, <2>3
  <2> QED
    BY <1>0, <1>1, <2>0, <2>3, <2>4, PlainHandled DEF Stored, Revoking
<1>4. CASE RefreshUnknown(h)
  <2>1. req'[h] = [req[h] EXCEPT !.op = "rejected", !.pc = "finish"]
    BY <1>0, <1>4 DEF RefreshUnknown, Proceed
  <2>2. req'[h].op = "rejected" /\ req'[h].token = req[h].token
    BY <1>0, <2>1 DEF Request
  <2> QED
    BY <1>0, <1>1, <2>2, PlainHandled DEF Stored, Revoking
<1>5. CASE RefreshRefused(h)
  <2>1. Identified(h) \in Request /\ Identified(h).token = req[h].token
    BY <1>0, <1>5, IdentifiedType DEF RefreshRefused
  <2>2. req'[h] = [Identified(h) EXCEPT !.op = "rejected", !.pc = "finish"]
    BY <1>0, <1>5 DEF RefreshRefused, Proceed
  <2>3. req'[h].op = "rejected" /\ req'[h].token = req[h].token
    BY <2>1, <2>2 DEF Request
  <2> QED
    BY <1>0, <1>1, <2>3, PlainHandled DEF Stored, Revoking
<1>6. CASE RefreshAccepted(h)
  <2>1. /\ Identified(h) \in Request /\ Identified(h).token = req[h].token
        /\ Identified(h).op = "refresh"
    BY <1>0, <1>6, IdentifiedType DEF RefreshAccepted, Usable, Live, Presented
  <2>2. req'[h] = [Identified(h) EXCEPT !.pc = "updateGet", !.cur = req[h].token]
    BY <1>0, <1>6 DEF RefreshAccepted, Proceed
  <2>3. /\ req'[h].op = "refresh" /\ req'[h].pc = "updateGet"
        /\ req'[h].token = req[h].token
    BY <2>1, <2>2 DEF Request
  <2> QED
    BY <1>0, <1>1, <2>3, PlainHandled DEF Stored, Revoking
<1>7. CASE TouchSession(h)
  <2>1. req[h].op = "refresh" /\ req[h].pc = "touchSession"
    BY <1>0, <1>7 DEF TouchSession, Shape, CallsOf, Loop, Revoking, Request, Operation
  <2>2. req'[h] = [req[h] EXCEPT !.pc = "finish"]
    BY <1>0, <1>7 DEF TouchSession, Proceed
  <2>3. /\ req'[h].op = "refresh" /\ req'[h].token = req[h].token
        /\ req'[h].cur = req[h].cur
    BY <1>0, <2>1, <2>2 DEF Request
  <2> QED
    BY <1>0, <1>1, <2>1, <2>3, PlainHandled DEF Stored, Revoking
<1>8. CASE Finish(h) \/ Abort(h)
  BY <1>0, <1>8, IdleHandled DEF Finish, Abort, Proceed
<1> QED
  BY <1>2, <1>3, <1>4, <1>5, <1>6, <1>7, <1>8

\* Logout: the lookup and the session row.
LEMMA LogoutSteps ==
  ASSUME RevocationInv, SafeInv', Monotone, NEW h \in Handler,
         LogoutFind(h) \/ EndSession(h)
  PROVE  Handled(h)'
<1> USE DEF At, LookingUp
<1>0. /\ SafeInv /\ TypeInv /\ req[h] \in Request /\ Shape(req[h])
      /\ Stored(h) /\ LogsOut(h)
      /\ \A r : Become(h, r) => req'[h] = r
  BY BecomeActs DEF RevocationInv, SafeInv, TypeInv, TypeOK
<1>1. CASE LogoutFind(h)
  <2> DEFINE i == IF Presented(h) = None THEN req[h] ELSE Identified(h)
  <2>1. /\ i \in Request /\ i.op = "logout" /\ i.token = req[h].token
        /\ req[h].pc = "findToken" /\ req[h].token \in Token
    BY <1>0, <1>1, IdentifiedType DEF LogoutFind, Shape
  <2>2. i.session # None => sessions[i.session] # None
    <3>1. CASE Presented(h) = None
      BY <1>0, <1>1, <3>1 DEF LogsOut, LogoutFind
    <3>2. CASE Presented(h) # None
      <4>1. i.session = Presented(h).session
        BY <1>0, <3>2 DEF Identified, Request
      <4>2. sessions[Presented(h).session] # None
        BY <1>0, <2>1, <3>2 DEF Presented, SafeInv, StoresAgree, TokenOwned
      <4> QED
        BY <4>1, <4>2
    <3> QED
      BY <3>1, <3>2
  <2>3. req'[h] = [i EXCEPT !.pc = "updateGet", !.cur = req[h].token]
    BY <1>0, <1>1 DEF LogoutFind, Proceed
  <2> HIDE DEF i
  <2>4. /\ req'[h].op = "logout" /\ req'[h].pc = "updateGet"
        /\ req'[h].token = req[h].token /\ req'[h].cur = req[h].token
        /\ req'[h].session = i.session
    BY <2>1, <2>3 DEF Request
  <2>5. UNCHANGED <<issued, sessions>>
    BY <1>1 DEF LogoutFind, Proceed, storeVars
  <2> QED
    BY <1>0, <2>2, <2>4, <2>5
    DEF Handled, Stored, LogsOut, RevokesAll, Walking, Revoking
<1>2. CASE EndSession(h)
  <2>1. req[h].op = "logout" /\ req[h].pc = "endSession"
    BY <1>0, <1>2 DEF EndSession, Shape, CallsOf, Loop, Revoking, Request, Operation
  <2>2. req'[h] = [req[h] EXCEPT !.pc = "finish"]
    BY <1>0, <1>2 DEF EndSession
  <2>3. /\ req'[h].op = "logout" /\ req'[h].pc = "finish"
        /\ req'[h].token = req[h].token /\ req'[h].session = req[h].session
    BY <1>0, <2>1, <2>2 DEF Request
  <2>4. UNCHANGED <<tokens, issued, lapsed>> /\ Revoke({req[h].session})
    BY <1>2 DEF EndSession, storeVars, RevokeById
  <2>5. ASSUME req[h].session # None
        PROVE  /\ sessions'[req[h].session] # None
               /\ sessions'[req[h].session].status = "REVOKED"
    <3>1. req[h].session \in Session /\ sessions[req[h].session] # None
      BY <1>0, <2>1, <2>5 DEF Request, LogsOut
    <3>2. sessions[req[h].session] \in SessionRow
      BY <1>0, <3>1 DEF TypeInv, TypeOK, SessionsTypeOK
    <3>3. sessions'[req[h].session] = [sessions[req[h].session] EXCEPT !.status = "REVOKED"]
      BY <2>4, <3>1 DEF Revoke
    <3> QED
      BY <3>2, <3>3, NoneAssumption DEF SessionRow
  <2>6. req[h].token # None => ~Usable(req[h].token)
    BY <1>0, <2>1 DEF LogsOut
  <2> QED
    BY <1>0, <2>3, <2>4, <2>5, <2>6
    DEF Handled, Stored, LogsOut, RevokesAll, Walking, Revoking, Usable, Live, Expired
<1> QED
  BY <1>1, <1>2

\* UpdateStatus is over and the token it was about is out of use.
LEMMA UpdateDone ==
  ASSUME RevocationInv, SafeInv', Monotone, NEW h \in Handler,
         req[h].pc \in {"updateGet", "updateSet"},
         \A c \in Token : c = req[h].cur => ~Usable(c)',
         UNCHANGED sessions,
         LET r == req[h]
             q == req'[h]
         IN  /\ q.pc = AfterUpdate(r) /\ q.op = r.op /\ q.token = r.token
             /\ q.todo = r.todo /\ q.since = r.since
             /\ q.user = r.user /\ q.session = r.session
  PROVE  Handled(h)'
<1> DEFINE r == req[h]
           q == req'[h]
<1>0. /\ SafeInv /\ TypeInv /\ r \in Request /\ Shape(r)
      /\ Stored(h) /\ LogsOut(h) /\ RevokesAll(h)
  BY DEF RevocationInv, SafeInv, TypeInv, TypeOK
<1>1. /\ q.pc = AfterUpdate(r) /\ q.op = r.op /\ q.token = r.token /\ q.todo = r.todo
      /\ q.user = r.user /\ q.session = r.session /\ q.since = r.since
  OBVIOUS
<1>2. r.op \in {"refresh", "logout"} \cup Revoking
  BY <1>0 DEF Shape, CallsOf, Request, Operation, Revoking
<1>3. issued \in Nat /\ issued' \in Nat /\ issued <= issued' /\ r.cur \in Token
  BY <1>0, BoundsAssumption DEF SafeInv, TypeInv, TypeOK, StoreTypeOK, Monotone, Shape
<1>4. r.token # None => r.token \in 1..issued'
  BY <1>0, <1>3 DEF Stored
<1>5. Stored(h)'
  <2>1. q.op \in {"login", "refresh"} => q.pc = "createToken"
    BY <1>1, <1>2 DEF AfterUpdate, Revoking
  <2> QED
    BY <1>1, <1>4, <2>1 DEF Stored
<1>6. LogsOut(h)'
  <2> SUFFICES ASSUME r.op = "logout" PROVE LogsOut(h)'
    BY <1>1 DEF LogsOut
  <2>1. ~Usable(req[h].token)'
    BY <1>0, <1>1, <1>3 DEF LogsOut, Usable, Live, Expired
  <2>2. q.pc = IF r.session = None THEN "finish" ELSE "endSession"
    BY <1>1 DEF AfterUpdate
  <2>3. r.session # None => sessions'[r.session] # None
    BY <1>0 DEF LogsOut
  <2> QED
    BY <1>0, <1>1, <2>1, <2>2, <2>3 DEF LogsOut, Usable, Live, Expired
<1>7. RevokesAll(h)'
  <2> SUFFICES ASSUME r.op \in Revoking PROVE RevokesAll(h)'
    BY <1>1 DEF RevokesAll, Walking, Revoking
  <2>1. q.pc = "revokeNext"
    BY <1>1 DEF AfterUpdate, Revoking
  <2>2. Walking(r) /\ r.since <= issued /\ r.since \in Nat
    BY <1>0 DEF Walking, Loop, RevokesAll, Request
  <2>3. ASSUME NEW t \in 1..r.since, Usable(t)', Concerns(req[h], t)'
        PROVE  t \in r.todo
    <3>1. t \in 1..issued
      BY <1>3, <2>2
    <3>2. Usable(t) /\ tokens'[t] = tokens[t]
      BY <1>0, <2>3, <3>1, UseStays
    <3>3. Concerns(r, t)
      BY <1>1, <2>3, <3>2 DEF Concerns
    <3>4. t \in InHand(r)
      BY <1>0, <2>2, <3>2, <3>3 DEF RevokesAll
    <3>5. t # r.cur
      BY <1>3, <2>3
    <3> QED
      BY <3>4, <3>5 DEF InHand
  <2>4. r.op = "revokeSession" => Owns(r.user, r.session)
    BY <1>0 DEF RevokesAll
  <2>5. r.since <= issued'
    BY <1>3, <2>2
  <2> QED
    BY <1>1, <2>1, <2>3, <2>4, <2>5
    DEF RevokesAll, Walking, InHand, Owns, Concerns
<1> QED
  BY <1>5, <1>6, <1>7 DEF Handled

\* Update keeps a revoking request on course whichever way it returns.
LEMMA UpdateSteps ==
  ASSUME RevocationInv, SafeInv', Monotone, NEW h \in Handler,
         UpdateGet(h) \/ UpdateMissing(h) \/ UpdateSet(h)
  PROVE  Handled(h)'
<1> USE DEF At
<1>0. /\ SafeInv /\ TypeInv /\ req[h] \in Request /\ Shape(req[h]) /\ Knows(h)
      /\ Stored(h) /\ LogsOut(h) /\ RevokesAll(h)
      /\ \A r : Become(h, r) => req'[h] = r
  BY BecomeActs DEF RevocationInv, SafeInv, TypeInv, TypeOK
<1>1. CASE UpdateGet(h)
  <2> DEFINE s == [tokens[req[h].cur] EXCEPT !.status = NewStatus(req[h])]
             r == req[h]
             q == req'[h]
  <2>1. /\ req'[h] = [req[h] EXCEPT !.pc = "updateSet", !.rec = s]
        /\ UNCHANGED <<tokens, sessions, issued, lapsed>> /\ r.pc = "updateGet"
    BY <1>0, <1>1 DEF UpdateGet, Proceed, storeVars
  <2> HIDE DEF s
  <2>2. /\ q.pc = "updateSet" /\ q.op = r.op /\ q.token = r.token /\ q.todo = r.todo
        /\ q.user = r.user /\ q.session = r.session /\ q.since = r.since
        /\ q.cur = r.cur
    BY <1>0, <2>1 DEF Request
  <2>3. Stored(h)' /\ LogsOut(h)'
    BY <1>0, <2>1, <2>2 DEF Stored, LogsOut
  <2>4. RevokesAll(h)'
    BY <1>0, <2>1, <2>2
    DEF RevokesAll, Walking, Loop, InHand, Concerns, Owns, Usable, Live, Expired
  <2> QED
    BY <2>3, <2>4 DEF Handled
<1>2. CASE UpdateMissing(h) /\ req[h].op = "refresh"
  BY <1>0, <1>2, IdleHandled DEF UpdateMissing, Proceed
<1>3. CASE UpdateMissing(h) /\ req[h].op # "refresh"
  <2>1. /\ req'[h] = [req[h] EXCEPT !.pc = AfterUpdate(req[h]), !.cur = None]
        /\ UNCHANGED <<tokens, sessions, lapsed>> /\ req[h].pc = "updateGet"
        /\ tokens[req[h].cur] = None \/ Expired(req[h].cur)
    BY <1>0, <1>3 DEF UpdateMissing, Proceed, storeVars
  <2>2. \A c \in Token : c = req[h].cur => ~Usable(c)'
    BY <2>1 DEF Usable, Live, Expired
  <2>3. LET r == req[h]
            q == req'[h]
        IN  /\ q.pc = AfterUpdate(r) /\ q.op = r.op /\ q.token = r.token
            /\ q.todo = r.todo /\ q.since = r.since
            /\ q.user = r.user /\ q.session = r.session
    BY <1>0, <2>1 DEF Request
  <2> QED
    BY <2>1, <2>2, <2>3, UpdateDone
<1>4. CASE UpdateSet(h)
  <2>1. /\ req'[h] = [req[h] EXCEPT !.pc = AfterUpdate(req[h]), !.cur = None, !.rec = None]
        /\ UNCHANGED sessions /\ req[h].pc = "updateSet" /\ Set(req[h].cur, req[h].rec)
    BY <1>0, <1>4 DEF UpdateSet
  <2>2. \A c \in Token : c = req[h].cur => ~Usable(c)'
    BY <1>0, <2>1 DEF Knows, Set, Usable, Live, TypeInv, TypeOK, StoreTypeOK
  <2>3. LET r == req[h]
            q == req'[h]
        IN  /\ q.pc = AfterUpdate(r) /\ q.op = r.op /\ q.token = r.token
            /\ q.todo = r.todo /\ q.since = r.since
            /\ q.user = r.user /\ q.session = r.session
    BY <1>0, <2>1 DEF Request
  <2> QED
    BY <2>1, <2>2, <2>3, UpdateDone
<1> QED
  BY <1>1, <1>2, <1>3, <1>4

\* Logout-all, reuse detection and session revocation.
LEMMA RevokingSteps ==
  ASSUME RevocationInv, SafeInv', NEW h \in Handler,
         RefreshReused(h) \/ FindSession(h) \/ ListTokens(h) \/ RevokeNext(h)
  PROVE  Handled(h)'
<1> USE DEF At, LookingUp
<1> DEFINE r == req[h]
           q == req'[h]
<1>0. /\ SafeInv /\ TypeInv /\ r \in Request /\ Shape(r) /\ Stored(h) /\ RevokesAll(h)
      /\ \A p : Become(h, p) => q = p
  BY BecomeActs DEF RevocationInv, SafeInv, TypeInv, TypeOK
<1>1. UNCHANGED <<tokens, userTokens, sessionTokens, issued, lapsed, sessions>>
  BY DEF RefreshReused, FindSession, ListTokens, RevokeNext, Proceed, storeVars
<1>2. CASE RefreshReused(h)
  <2>1. Identified(h) \in Request
    BY <1>0, <1>2, IdentifiedType DEF RefreshReused
  <2>2. q = [Identified(h) EXCEPT !.op = "reuse", !.pc = "listTokens", !.token = None]
    BY <1>0, <1>2 DEF RefreshReused, Proceed
  <2>3. q.op = "reuse" /\ q.pc = "listTokens" /\ q.token = None
    BY <2>1, <2>2 DEF Request
  <2> QED
    BY <2>3 DEF Handled, Stored, LogsOut, RevokesAll, Walking
<1>3. CASE FindSession(h)
  <2>1. r.pc = "findSession" /\ r.op = "revokeSession"
    BY <1>0, <1>3 DEF FindSession, Shape, CallsOf, Loop, Request, Operation
  <2>2. CASE q = Idle
    BY <2>2, IdleHandled
  <2>3. CASE q # Idle
    <3>1. q = [r EXCEPT !.pc = "listTokens"] /\ Owns(r.user, r.session)
      BY <1>0, <1>3, <2>3 DEF FindSession, Proceed, Owns
    <3>2. /\ q.op = "revokeSession" /\ q.pc = "listTokens" /\ q.token = r.token
          /\ q.user = r.user /\ q.session = r.session
      BY <1>0, <2>1, <3>1 DEF Request
    <3> QED
      BY <1>0, <1>1, <3>1, <3>2
      DEF Handled, Stored, LogsOut, RevokesAll, Walking, Owns
  <2> QED
    BY <2>2, <2>3
<1>4. CASE ListTokens(h)
  <2>1. r.pc = "listTokens" /\ r.op \in Revoking
    BY <1>0, <1>4 DEF ListTokens, Shape, CallsOf, Revoking, Request, Operation
  <2> DEFINE l == IF r.op = "revokeSession" THEN sessionTokens[r.session]
                                            ELSE userTokens[r.user]
  <2>2. q = [r EXCEPT !.pc = "revokeNext", !.since = issued, !.todo = l]
    BY <1>0, <1>4 DEF ListTokens, Proceed
  <2>3. ASSUME NEW t \in 1..issued, Usable(t), Concerns(r, t) PROVE t \in l
    <3>1. t \in Token /\ tokens[t] # None
      BY <1>0, <2>3, BoundsAssumption
      DEF Token, Usable, Live, TypeInv, TypeOK, StoreTypeOK
    <3> QED
      BY <1>0, <2>3, <3>1 DEF SafeInv, StoresAgree, TokensIndexed, Concerns
  <2>4. issued <= issued'
    BY <1>0, <1>1, BoundsAssumption DEF TypeInv, TypeOK, StoreTypeOK
  <2>5. r.op = "revokeSession" => Owns(r.user, r.session)
    BY <1>0, <2>1 DEF RevokesAll
  <2> HIDE DEF l
  <2>6. /\ q.op = r.op /\ q.pc = "revokeNext" /\ q.token = r.token
        /\ q.user = r.user /\ q.session = r.session
        /\ q.since = issued /\ q.todo = l
    BY <1>0, <2>2 DEF Request
  <2>7. Stored(h)' /\ LogsOut(h)'
    BY <1>0, <1>1, <2>1, <2>6 DEF Stored, LogsOut, Revoking
  <2>8. RevokesAll(h)'
    BY <1>1, <2>3, <2>4, <2>5, <2>6
    DEF RevokesAll, Walking, InHand, Concerns, Owns, Usable, Live, Expired
  <2> QED
    BY <2>7, <2>8 DEF Handled
<1>5. CASE RevokeNext(h)
  <2>1. r.pc = "revokeNext" /\ r.op \in Revoking
    BY <1>0, <1>5 DEF RevokeNext, Shape, CallsOf, Revoking, Request, Operation
  <2>2. PICK t \in r.todo :
          LET rest == [r EXCEPT !.todo = @ \ {t}]
              hit  == tokens[t] # None /\ tokens[t].status \in {"ACTIVE", "USED"}
          IN  q = IF hit THEN [rest EXCEPT !.pc = "updateGet", !.cur = t] ELSE rest
    BY <1>0, <1>5 DEF RevokeNext
  <2> DEFINE rest == [r EXCEPT !.todo = @ \ {t}]
             next == [rest EXCEPT !.pc = "updateGet", !.cur = t]
  <2>3. /\ rest \in Request /\ rest.op = r.op /\ rest.pc = r.pc /\ rest.token = r.token
        /\ rest.user = r.user /\ rest.session = r.session /\ rest.since = r.since
        /\ rest.todo = r.todo \ {t}
    BY <1>0 DEF Request
  <2>4. q = next \/ (q = rest /\ ~Usable(t))
    BY <2>2 DEF Usable, Live
  <2> HIDE DEF rest
  <2>5. /\ next.op = r.op /\ next.pc = "updateGet" /\ next.token = r.token
        /\ next.user = r.user /\ next.session = r.session /\ next.since = r.since
        /\ next.todo = r.todo \ {t} /\ next.cur = t
    BY <2>3 DEF Request
  <2> HIDE DEF next
  <2>6. /\ q.op = r.op /\ q.pc \in {"revokeNext", "updateGet"} /\ q.token = r.token
        /\ q.user = r.user /\ q.session = r.session /\ q.since = r.since
    BY <2>1, <2>3, <2>4, <2>5
  <2>7. Stored(h)' /\ LogsOut(h)'
    BY <1>0, <1>1, <2>1, <2>6 DEF Stored, LogsOut, Revoking
  <2>8. Walking(r) /\ InHand(r) = r.todo
    BY <2>1 DEF Walking, Loop, InHand
  <2>9. \A n \in InHand(r) : Usable(n) => n \in InHand(q)
    BY <2>3, <2>4, <2>5, <2>8 DEF InHand
  <2>10. RevokesAll(h)'
    BY <1>0, <1>1, <2>1, <2>6, <2>8, <2>9
    DEF RevokesAll, Walking, Concerns, Owns, Usable, Live, Expired
  <2> QED
    BY <2>7, <2>10 DEF Handled
<1> QED
  BY <1>2, <1>3, <1>4, <1>5

\* The loop is over: nothing is in hand, and the session rows follow.
LEMMA RevokeSessionsHandled ==
  ASSUME RevocationInv, SafeInv', NEW h \in Handler, RevokeSessions(h)
  PROVE  Handled(h)'
<1> USE DEF At
<1> DEFINE r == req[h]
           q == req'[h]
<1>0. /\ SafeInv /\ TypeInv /\ r \in Request /\ Shape(r) /\ Stored(h) /\ RevokesAll(h)
      /\ \A p : Become(h, p) => q = p
  BY BecomeActs DEF RevocationInv, SafeInv, TypeInv, TypeOK
<1>1. /\ r.pc = "revokeNext" /\ r.op \in Revoking /\ r.todo = {}
      /\ q = [r EXCEPT !.pc = "finish"]
      /\ UNCHANGED <<tokens, sessionTokens, issued, lapsed>>
  BY <1>0 DEF RevokeSessions, Shape, CallsOf, Revoking, Request, Operation, storeVars
<1>2. /\ q.op = r.op /\ q.pc = "finish" /\ q.token = r.token /\ q.todo = {}
      /\ q.user = r.user /\ q.session = r.session /\ q.since = r.since
  BY <1>0, <1>1 DEF Request
<1>3. Stored(h)' /\ LogsOut(h)'
  BY <1>0, <1>1, <1>2 DEF Stored, LogsOut, Revoking
<1>4. Walking(r) /\ InHand(r) = {}
  BY <1>1 DEF Walking, Loop, InHand
<1>5. /\ r.since <= issued
      /\ \A t \in 1..r.since : ~(Usable(t) /\ Concerns(r, t))
  BY <1>0, <1>4 DEF RevokesAll
<1>6. r.op = "revokeSession" => Owns(r.user, r.session) /\ r.session \in Session
  BY <1>0, <1>1 DEF RevokesAll, Shape
<1>7. PICK S : /\ Revoke(S)
               /\ r.op = "revokeSession" => S = {r.session}
               /\ r.op # "revokeSession" =>
                    S = {s \in Session : /\ sessions[s] # None
                                         /\ sessions[s].user = r.user
                                         /\ sessions[s].status = "ACTIVE"}
  BY DEF RevokeSessions, RevokeById, RevokeByUser
<1>8. \A s \in Session :
        sessions'[s] = IF s \in S /\ sessions[s] # None
                       THEN [sessions[s] EXCEPT !.status = "REVOKED"]
                       ELSE sessions[s]
  BY <1>7 DEF Revoke
<1>9. \A s \in Session :
        sessions[s] # None =>
          /\ sessions[s].status \in {"ACTIVE", "REVOKED"}
          /\ [sessions[s] EXCEPT !.status = "REVOKED"] # None
          /\ [sessions[s] EXCEPT !.status = "REVOKED"].status = "REVOKED"
          /\ [sessions[s] EXCEPT !.status = "REVOKED"].user = sessions[s].user
  <2> TAKE s \in Session
  <2> HAVE sessions[s] # None
  <2>1. sessions[s] \in SessionRow
    BY <1>0 DEF TypeInv, TypeOK, SessionsTypeOK
  <2> QED
    BY <2>1, NoneAssumption DEF SessionRow
<1>10. ASSUME NEW s \in Session, sessions'[s] # None, Reached(req[h], s)'
       PROVE  sessions'[s].status = "REVOKED"
  <2>1. sessions[s] # None
    BY <1>8, <1>10
  <2>2. CASE s \in S
    BY <1>8, <1>9, <2>1, <2>2
  <2>3. CASE s \notin S
    <3>1. sessions'[s] = sessions[s]
      BY <1>8, <2>3
    <3>2. r.op # "revokeSession" /\ sessions[s].user = r.user
      BY <1>2, <1>7, <1>10, <2>3, <3>1 DEF Reached
    <3> QED
      BY <1>7, <1>9, <2>1, <2>3, <3>1, <3>2
  <2> QED
    BY <2>2, <2>3
<1>11. r.op = "revokeSession" => Owns(r.user, r.session)'
  <2> SUFFICES ASSUME r.op = "revokeSession"
               PROVE  /\ sessions'[r.session] # None
                      /\ sessions'[r.session].user = r.user
    BY <1>2 DEF Owns
  <2> QED
    BY <1>6, <1>8, <1>9 DEF Owns
<1>12. RevokesAll(h)'
  <2>1. \A t \in 1..q.since : ~(Usable(t)' /\ Concerns(req[h], t)')
    BY <1>1, <1>2, <1>5 DEF Concerns, Usable, Live, Expired
  <2> QED
    BY <1>1, <1>2, <1>5, <1>10, <1>11, <2>1 DEF RevokesAll, Walking, Owns
<1> QED
  BY <1>3, <1>12 DEF Handled

-----------------------------------------------------------------------------
\* The invariant holds before the first request.
LEMMA InitRevocation == Init => RevocationInv
<1> SUFFICES ASSUME Init PROVE RevocationInv
  OBVIOUS
<1>1. \A h \in Handler : req[h] = Idle
  BY DEF Init
<1>2. \A h \in Handler : Stored(h) /\ LogsOut(h) /\ RevokesAll(h)
  BY <1>1 DEF Idle, Stored, LogsOut, RevokesAll, Walking, Revoking
<1> QED
  BY <1>2, InitSafe DEF RevocationInv, Init

\* The client only ever gets tokens that were generated.
LEMMA DeliveredStays ==
  ASSUME RevocationInv, [Next]_vars, Monotone, SafeInv'
  PROVE  delivered' \subseteq 1..issued'
<1>1. 1..issued \subseteq 1..issued'
  BY BoundsAssumption
  DEF Monotone, RevocationInv, SafeInv, TypeInv, TypeOK, StoreTypeOK
<1>2. ASSUME NEW h \in Handler, Finish(h) PROVE delivered' \subseteq 1..issued
  <2>1. req[h].op \in {"login", "refresh"} => req[h].cur \in 1..issued
    BY <1>2 DEF RevocationInv, Stored, Finish, At
  <2> QED
    BY <1>2, <2>1 DEF RevocationInv, Finish, Respond
<1>3. (\E h \in Handler : Finish(h)) \/ UNCHANGED delivered
  BY DEF Next, vars, Tick, UpdateResent, Abort, Arrive, BeginLogin, BeginLogoutAll,
     BeginRefresh, BeginLogout, BeginRevokeSession, BeginLogoutNoCookie, Begin,
     Proceed, Serve, InsertSession, CreateToken, RefreshUnknown, RefreshReused,
     RefreshRefused, RefreshAccepted, LogoutFind, UpdateGet, UpdateMissing,
     UpdateSet, TouchSession, EndSession, FindSession, ListTokens, RevokeNext,
     RevokeSessions
<1> QED
  BY <1>1, <1>2, <1>3 DEF RevocationInv

\* A handler's own step keeps its progress.
LEMMA ServeHandled ==
  ASSUME RevocationInv, SafeInv', Monotone, IndexGrowth, NEW h \in Handler,
         Arrive(h) \/ Serve(h) \/ UpdateResent(h) \/ Abort(h)
  PROVE  Handled(h)'
<1>1. CASE UpdateResent(h)
  <2>1. req'[h] = req[h]
    BY <1>1 DEF UpdateResent
  <2> QED
    BY <2>1, StoredStays, LogsOutStays, RevokesAllStays DEF Handled
<1> QED
  BY <1>1, ArriveHandled, PlainSteps, LogoutSteps, UpdateSteps, RevokingSteps,
     RevokeSessionsHandled
  DEF Serve

\* Every step keeps the progress of every revoking request.
LEMMA NextRevocation == RevocationInv /\ [Next]_vars => RevocationInv'
<1> SUFFICES ASSUME RevocationInv, [Next]_vars PROVE RevocationInv'
  OBVIOUS
<1>1. SafeInv' /\ Monotone /\ IndexGrowth
  BY NextSafe, NextMonotone DEF RevocationInv
<1>2. delivered' \subseteq 1..issued'
  BY <1>1, DeliveredStays
<1>3. ASSUME NEW h \in Handler, req'[h] = req[h] PROVE Handled(h)'
  BY <1>1, <1>3, StoredStays, LogsOutStays, RevokesAllStays DEF Handled
<1>4. ASSUME NEW h \in Handler, req'[h] # req[h] PROVE Handled(h)'
  <2>1. CASE \E g \in Handler : Arrive(g) \/ Serve(g) \/ UpdateResent(g) \/ Abort(g)
    <3>1. PICK g \in Handler : Arrive(g) \/ Serve(g) \/ UpdateResent(g) \/ Abort(g)
      BY <2>1
    <3>2. (\E r : Become(g, r)) \/ UNCHANGED req
      BY <3>1
      DEF UpdateResent, Abort, Arrive, BeginLogin, BeginLogoutAll, BeginRefresh,
          BeginLogout, BeginRevokeSession, BeginLogoutNoCookie, Begin, Proceed,
          Serve, InsertSession, CreateToken, RefreshUnknown, RefreshReused,
          RefreshRefused, RefreshAccepted, LogoutFind, UpdateGet, UpdateMissing,
          UpdateSet, TouchSession, EndSession, FindSession, ListTokens, RevokeNext,
          RevokeSessions, Finish
    <3>3. g = h
      BY <1>4, <3>2, BecomeActs DEF OnlyActs, RevocationInv, SafeInv
    <3> QED
      BY <1>1, <3>1, <3>3, ServeHandled
  <2>2. CASE UNCHANGED vars \/ Tick
    BY <1>4, <2>2 DEF vars, Tick
  <2> QED
    BY <2>1, <2>2 DEF Next
<1> QED
  BY <1>1, <1>2, <1>3, <1>4 DEF RevocationInv, Handled

\* A revoking request that has come to its end has reached everything it was to.
LEMMA RevocationSuffices == RevocationInv => RevocationComplete
<1> SUFFICES ASSUME RevocationInv, NEW h \in Handler, At(h, "finish")
             PROVE  CASE req[h].op \in {"logoutAll", "reuse"} -> RevokedAll(h)
                      [] req[h].op = "revokeSession"          -> RevokedSession(h)
                      [] req[h].op = "logout"                 -> LoggedOut(h)
                      [] OTHER                                -> TRUE
  BY DEF RevocationComplete
<1> DEFINE r == req[h]
<1>1. /\ SafeInv /\ r \in Request /\ Shape(r) /\ LogsOut(h) /\ RevokesAll(h)
      /\ r.pc = "finish"
  BY DEF RevocationInv, SafeInv, TypeInv, TypeOK, At
<1>2. ASSUME r.op \in Revoking
      PROVE  /\ \A t \in 1..r.since : ~(Usable(t) /\ Concerns(r, t))
             /\ \A s \in Session : sessions[s] # None /\ Reached(r, s) =>
                                     sessions[s].status = "REVOKED"
  BY <1>1, <1>2 DEF RevokesAll, Walking, Loop, InHand
<1>3. CASE r.op \in {"logoutAll", "reuse"}
  <2>1. RevokedAll(h)
    BY <1>2, <1>3 DEF RevokedAll, Earlier, Concerns, Reached, Revoking
  <2> QED
    BY <1>3, <2>1
<1>4. CASE r.op = "revokeSession"
  <2>1. r.session \in Session /\ sessions[r.session] # None
    BY <1>1, <1>4 DEF Shape, RevokesAll, Owns
  <2>2. RevokedSession(h)
    BY <1>2, <1>4, <2>1 DEF RevokedSession, Earlier, Concerns, Reached, Revoking
  <2> QED
    BY <1>4, <2>2
<1>5. CASE r.op = "logout"
  <2>1. LoggedOut(h)
    BY <1>1, <1>5 DEF LoggedOut, LogsOut
  <2> QED
    BY <1>5, <2>1
<1>6. CASE r.op \notin {"logoutAll", "reuse", "revokeSession", "logout"}
  BY <1>6
<1> QED
  BY <1>3, <1>4, <1>5, <1>6

\* Logout, LogoutAll, RevokeSession and reuse detection: when the answer is
\* given, every token that was stored when the request read the index (a
\* logout: its own token) is out of use and the sessions are REVOKED.
THEOREM RevocationIsComplete == Spec => []RevocationComplete
BY InitRevocation, NextRevocation, RevocationSuffices, PTL DEF Spec

-----------------------------------------------------------------------------
(* Whose records a request changes, and what the audit trail tells.        *)

\* A token is in the index of one user and of one session of his; a key is
\* missing only once its token has expired.
IndexesFit ==
  /\ \A t \in 1..issued : tokens[t] = None => Expired(t)
  /\ \A u, v \in User : u # v => userTokens[u] \cap userTokens[v] = {}
  /\ \A r, s \in Session : r # s => sessionTokens[r] \cap sessionTokens[s] = {}
  /\ \A s \in Session :
       sessionTokens[s] # {} => sessionTokens[s] \subseteq userTokens[sessions[s].user]

\* The records the request of h is about to change are those of its user.  A
\* logout whose token was gone has no user, and changes nothing: the token has
\* expired.
ActsOnOwn(h) ==
  LET r == req[h]
  IN  /\ Walking(r) => r.todo \subseteq userTokens[r.user]
      /\ r.pc \in {"updateGet", "updateSet"} =>
           \/ r.user \in User /\ r.cur \in userTokens[r.user]
           \/ r.op = "logout" /\ r.pc = "updateGet" /\ Expired(r.cur)
      /\ r.op = "logout" /\ r.session # None =>
           r.user \in User /\ Owns(r.user, r.session)

\* What its row in audit_logs will claim about a session.
Claims(h) ==
  LET r == req[h]
  IN  /\ r.op = "reuse" =>
           /\ r.session \in Session /\ Owns(r.user, r.session)
           /\ \E t \in sessionTokens[r.session] : Walking(r) => t \in 1..r.since
      /\ r.op = "login" /\ r.pc = "finish" =>
           /\ r.session \in Session /\ Owns(r.user, r.session)
           /\ r.cur \in sessionTokens[r.session]
      /\ r.op = "refresh" /\ r.pc \in {"touchSession", "finish"} =>
           r.cur \in sessionTokens[r.session] /\ r.token < r.cur

\* The rows of a success name a session, and no row names one that is not there.
RowsNamed ==
  \A row \in audit :
    /\ row.event \in {"login_success", "refresh_success"} => row.session \in Session
    /\ row.event \in {"token_reuse_detected", "logout"} /\ row.session # None =>
         sessions[row.session] # None

HistoryInv ==
  /\ RevocationInv
  /\ IndexesFit
  /\ \A h \in Handler : ActsOnOwn(h) /\ Claims(h)
  /\ RowsNamed
  /\ AuditTruthful

-----------------------------------------------------------------------------
\* What such a step writes.
LEMMA Writers ==
  ASSUME SafeInv, [Next]_vars
  PROVE  \/ UNCHANGED <<storeVars, sessions>>
         \/ UNCHANGED storeVars /\ \E S : Revoke(S)
         \/ UNCHANGED storeVars /\ \E s \in Session, u \in User : Insert(s, u)
         \/ /\ UNCHANGED sessions
            /\ \E u \in User, s \in Session : Create(u, s) /\ Owns(u, s)
         \/ /\ UNCHANGED sessions
            /\ \E t \in Token, record \in TokenRecord : Set(t, record)
         \/ UNCHANGED sessions /\ (Lapse \/ \E t \in Token : Expire(t))
<1>1. ASSUME NEW h \in Handler, InsertSession(h)
      PROVE  UNCHANGED storeVars /\ \E s \in Session, u \in User : Insert(s, u)
  <2>1. req[h].user \in User
    BY <1>1
    DEF InsertSession, At, SafeInv, TypeInv, TypeOK, Shape, CallsOf, Loop, Request,
        Operation, Revoking
  <2> QED
    BY <1>1, <2>1 DEF InsertSession
<1>2. ASSUME NEW h \in Handler, EndSession(h) \/ RevokeSessions(h)
      PROVE  UNCHANGED storeVars /\ \E S : Revoke(S)
  BY <1>2 DEF EndSession, RevokeSessions, RevokeById, RevokeByUser
<1>3. ASSUME NEW h \in Handler, CreateToken(h)
      PROVE  /\ UNCHANGED sessions
             /\ \E u \in User, s \in Session : Create(u, s) /\ Owns(u, s)
  BY <1>3, CreateTokenKnows DEF CreateToken
<1>4. ASSUME NEW h \in Handler, UpdateSet(h) \/ UpdateResent(h)
      PROVE  /\ UNCHANGED sessions
             /\ \E t \in Token, record \in TokenRecord : Set(t, record)
  BY <1>4 DEF UpdateSet, UpdateResent, At, SafeInv, TypeInv, Shape
<1> QED
  BY <1>1, <1>2, <1>3, <1>4, WhoWrites DEF Tick

\* No write mixes up the users' indexes, and a key is dropped only in time.
LEMMA IndexesStay ==
  ASSUME HistoryInv, [Next]_vars
  PROVE  IndexesFit'
<1> USE DEF TypeInv, TypeOK, StoreTypeOK, SessionsTypeOK
<1>1. SafeInv /\ TypeInv /\ IndexesFit /\ Monotone /\ SafeInv'
  BY NextSafe, NextMonotone DEF HistoryInv, RevocationInv, SafeInv
<1>2. issued \in Nat /\ lapsed \in Nat /\ lapsed' \in Nat /\ lapsed <= lapsed'
  BY <1>1, BoundsAssumption DEF SafeInv, Monotone
<1>3. 1..issued \subseteq Token
  BY <1>1, BoundsAssumption DEF Token
<1>4. \A s \in Session : sessionTokens[s] # {} =>
        /\ sessions[s] # None /\ sessions'[s] # None
        /\ sessions'[s].user = sessions[s].user /\ sessions[s].user \in User
  BY <1>1 DEF SafeInv, StoresAgree, Monotone, SessionRow
<1>5. ASSUME UNCHANGED <<userTokens, sessionTokens, issued>>,
             \A t \in 1..issued : tokens'[t] = None => tokens[t] = None \/ t <= lapsed'
      PROVE  IndexesFit'
  <2>1. \A t \in 1..issued : tokens'[t] = None => t <= lapsed'
    BY <1>1, <1>2, <1>5 DEF IndexesFit, Expired
  <2> QED
    BY <1>1, <1>4, <1>5, <2>1 DEF IndexesFit, Expired
<1>6. CASE UNCHANGED storeVars
  BY <1>5, <1>6 DEF storeVars
<1>7. CASE \E t \in Token, record \in TokenRecord : Set(t, record)
  <2>1. PICK t \in Token, record \in TokenRecord : Set(t, record)
    BY <1>7
  <2>2. tokens' = [tokens EXCEPT ![t] = record] /\ record # None
    BY <2>1, NoneAssumption DEF Set
  <2> QED
    BY <1>1, <1>3, <1>5, <2>1, <2>2 DEF Set
<1>8. CASE Lapse
  BY <1>5, <1>8 DEF Lapse
<1>9. CASE \E t \in Token : Expire(t)
  <2>1. PICK t \in Token : Expire(t)
    BY <1>9
  <2>2. tokens' = [tokens EXCEPT ![t] = None] /\ t <= lapsed
    BY <2>1 DEF Expire, Expired
  <2> QED
    BY <1>1, <1>2, <1>3, <1>5, <2>1, <2>2 DEF Expire
<1>10. CASE UNCHANGED sessions /\ \E u \in User, s \in Session : Create(u, s) /\ Owns(u, s)
  <2>1. PICK u \in User, s \in Session : Create(u, s) /\ Owns(u, s)
    BY <1>10
  <2> DEFINE t0 == issued + 1
  <2>2. /\ tokens' = [tokens EXCEPT ![t0] =
                        [user |-> u, session |-> s, status |-> "ACTIVE"]]
        /\ userTokens' = [userTokens EXCEPT ![u] = @ \cup {t0}]
        /\ sessionTokens' = [sessionTokens EXCEPT ![s] = @ \cup {t0}]
        /\ issued' = t0 /\ lapsed' = lapsed /\ t0 \in Token /\ t0 \notin 1..issued
    BY <1>2, <2>1, BoundsAssumption DEF Create, Token
  <2>3. [user |-> u, session |-> s, status |-> "ACTIVE"] # None
    BY NoneAssumption DEF TokenRecord
  <2>4. \A t \in 1..issued' : tokens'[t] = None => t <= lapsed'
    <3> SUFFICES ASSUME NEW t \in 1..issued', tokens'[t] = None PROVE t <= lapsed'
      OBVIOUS
    <3>1. t # t0
      BY <1>1, <2>2, <2>3
    <3>2. t \in 1..issued /\ t \in Token
      BY <1>2, <1>3, <2>2, <3>1
    <3>3. tokens[t] = None
      BY <1>1, <2>2, <3>1, <3>2
    <3> QED
      BY <1>1, <2>2, <3>2, <3>3 DEF IndexesFit, Expired
  <2> HIDE DEF t0
  <2>5. \A v \in User : t0 \notin userTokens[v]
    BY <1>1, <2>2 DEF SafeInv, StoresAgree
  <2>6. \A v \in User : userTokens'[v] = IF v = u THEN userTokens[v] \cup {t0}
                                                 ELSE userTokens[v]
    BY <1>1, <2>2
  <2>7. \A v, w \in User : v # w => userTokens'[v] \cap userTokens'[w] = {}
    <3> SUFFICES ASSUME NEW v \in User, NEW w \in User, v # w, NEW t,
                        t \in userTokens'[v], t \in userTokens'[w]
                 PROVE  FALSE
      OBVIOUS
    <3>0. \A x \in User : t \in userTokens'[x] => t \in userTokens[x] \/ (x = u /\ t = t0)
      BY <2>6
    <3>1. t # t0 => t \in userTokens[v] /\ t \in userTokens[w]
      BY <3>0
    <3>2. t = t0 => v = u /\ w = u
      BY <2>5, <3>0
    <3>3. userTokens[v] \cap userTokens[w] = {}
      BY <1>1 DEF IndexesFit
    <3> QED
      BY <3>1, <3>2, <3>3
  <2>11. \A q, r \in Session : q # r => sessionTokens'[q] \cap sessionTokens'[r] = {}
    <3> SUFFICES ASSUME NEW q \in Session, NEW r \in Session, q # r, NEW t,
                        t \in sessionTokens'[q], t \in sessionTokens'[r]
                 PROVE  FALSE
      OBVIOUS
    <3>0. \A x \in Session :
            t \in sessionTokens'[x] => t \in sessionTokens[x] \/ (x = s /\ t = t0)
      BY <1>1, <2>2
    <3>1. \A x \in Session : t0 \notin sessionTokens[x]
      BY <1>1, <2>2 DEF SafeInv, StoresAgree
    <3>2. t # t0 => t \in sessionTokens[q] /\ t \in sessionTokens[r]
      BY <3>0
    <3>3. t = t0 => q = s /\ r = s
      BY <3>0, <3>1
    <3>4. sessionTokens[q] \cap sessionTokens[r] = {}
      BY <1>1 DEF IndexesFit
    <3> QED
      BY <3>2, <3>3, <3>4
  <2>8. \A q \in Session : sessionTokens'[q] = IF q = s THEN sessionTokens[q] \cup {t0}
                                                        ELSE sessionTokens[q]
    BY <1>1, <2>2
  <2>9. sessions' = sessions /\ sessions[s].user = u
    BY <1>10, <2>1 DEF Owns
  <2>10. ASSUME NEW q \in Session, sessionTokens'[q] # {}
         PROVE  sessionTokens'[q] \subseteq userTokens'[sessions'[q].user]
    <3>1. CASE q = s
      <4>1. sessionTokens[q] # {} => sessionTokens[q] \subseteq userTokens[u]
        BY <1>1, <2>9, <3>1 DEF IndexesFit
      <4> QED
        BY <2>6, <2>8, <2>9, <3>1, <4>1
    <3>2. CASE q # s
      <4>1. sessionTokens[q] # {} /\ sessionTokens'[q] = sessionTokens[q]
        BY <2>8, <2>10, <3>2
      <4>2. sessionTokens[q] \subseteq userTokens[sessions[q].user]
            /\ sessions[q].user \in User
        BY <1>1, <1>4, <4>1 DEF IndexesFit
      <4> QED
        BY <2>6, <2>9, <4>1, <4>2
    <3> QED
      BY <3>1, <3>2
  <2> QED
    BY <2>4, <2>7, <2>11, <2>10 DEF IndexesFit, Expired
<1> QED
  BY <1>1, <1>6, <1>7, <1>8, <1>9, <1>10, Writers
-----------------------------------------------------------------------------
(* The requests.                                                           *)

Mine(h) == ActsOnOwn(h) /\ Claims(h)

\* A request that carries on with what it had keeps acting on it.
LEMMA CarriedOn ==
  ASSUME HistoryInv, SafeInv', Monotone, NEW h \in Handler,
         LET r == req[h]
             q == req'[h]
         IN  /\ q.op = r.op /\ q.user = r.user /\ q.session = r.session
             /\ q.token = r.token
             /\ Walking(q) => Walking(r) /\ q.todo \subseteq r.todo /\ q.since = r.since
             /\ q.pc \in {"updateGet", "updateSet"} =>
                  \/ q.user \in User /\ q.cur \in userTokens[q.user]
                  \/ q.pc = r.pc /\ q.cur = r.cur
             /\ q.op = "login" /\ q.pc = "finish" => r.pc = "finish" /\ q.cur = r.cur
             /\ q.op = "refresh" /\ q.pc \in {"touchSession", "finish"} =>
                  r.pc \in {"touchSession", "finish"} /\ q.cur = r.cur
  PROVE  Mine(h)'
<1> DEFINE r == req[h]
           q == req'[h]
<1>0. /\ SafeInv /\ TypeInv /\ r \in Request /\ Shape(r)
      /\ ActsOnOwn(h) /\ Claims(h)
  BY DEF HistoryInv, RevocationInv, SafeInv, TypeInv, TypeOK
<1>1. /\ q.op = r.op /\ q.user = r.user /\ q.session = r.session
      /\ q.token = r.token
      /\ Walking(q) => Walking(r) /\ q.todo \subseteq r.todo /\ q.since = r.since
      /\ q.pc \in {"updateGet", "updateSet"} =>
           \/ q.user \in User /\ q.cur \in userTokens[q.user]
           \/ q.pc = r.pc /\ q.cur = r.cur
      /\ q.op = "login" /\ q.pc = "finish" => r.pc = "finish" /\ q.cur = r.cur
      /\ q.op = "refresh" /\ q.pc \in {"touchSession", "finish"} =>
           r.pc \in {"touchSession", "finish"} /\ q.cur = r.cur
  OBVIOUS
<1> HIDE DEF q
<1>2. \A s \in Session, u \in User : Owns(u, s) => Owns(u, s)'
  BY DEF Monotone, Owns
<1>3. \A u \in User : userTokens[u] \subseteq userTokens'[u]
  BY DEF Monotone
<1>4. \A s \in Session : sessionTokens[s] \subseteq sessionTokens'[s]
  BY DEF Monotone
<1>5. \A t \in Token : t <= lapsed => t <= lapsed'
  BY <1>0, BoundsAssumption DEF Token, TypeInv, TypeOK, StoreTypeOK, SafeInv, Monotone
<1>6. Walking(q) => q.todo \subseteq userTokens'[q.user]
  <2>1. Walking(r) => r.user \in User
    BY <1>0 DEF Walking, Shape
  <2> QED
    BY <1>0, <1>1, <1>3, <2>1 DEF ActsOnOwn
<1>7. q.pc \in {"updateGet", "updateSet"} =>
        \/ q.user \in User /\ q.cur \in userTokens'[q.user]
        \/ q.op = "logout" /\ q.pc = "updateGet" /\ q.cur <= lapsed'
  <2>1. r.pc = "updateGet" => r.cur \in Token
    BY <1>0 DEF Shape
  <2> QED
    BY <1>0, <1>1, <1>3, <1>5, <2>1 DEF ActsOnOwn, Expired
<1>8. q.op = "logout" /\ q.session # None =>
        q.user \in User /\ Owns(req[h].user, req[h].session)'
  <2>1. r.session # None => r.session \in Session
    BY <1>0 DEF Request
  <2> QED
    BY <1>0, <1>1, <1>2, <2>1 DEF ActsOnOwn, q
<1>9. ActsOnOwn(h)'
  BY <1>6, <1>7, <1>8 DEF ActsOnOwn, Expired, q
<1>10. q.op = "reuse" =>
         /\ q.session \in Session /\ Owns(req[h].user, req[h].session)'
         /\ \E t \in sessionTokens'[q.session] : Walking(q) => t \in 1..q.since
  <2>1. r.op = "reuse" => r.user \in User
    BY <1>0 DEF Shape, Revoking
  <2> QED
    BY <1>0, <1>1, <1>2, <1>4, <2>1 DEF Claims, q
<1>11. q.op = "login" /\ q.pc = "finish" =>
         /\ q.session \in Session /\ Owns(req[h].user, req[h].session)'
         /\ q.cur \in sessionTokens'[q.session]
  <2>1. r.op = "login" => r.user \in User
    BY <1>0 DEF Shape
  <2> QED
    BY <1>0, <1>1, <1>2, <1>4, <2>1 DEF Claims, q
<1>12. q.op = "refresh" /\ q.pc \in {"touchSession", "finish"} =>
         q.cur \in sessionTokens'[q.session] /\ q.token < q.cur
  <2>1. r.op = "refresh" /\ r.pc \in {"touchSession", "finish"} => r.session \in Session
    BY <1>0 DEF Shape, Found
  <2> QED
    BY <1>0, <1>1, <1>4, <2>1 DEF Claims
<1>13. Claims(h)'
  BY <1>10, <1>11, <1>12 DEF Claims, q
<1> QED
  BY <1>9, <1>13 DEF Mine

\* A request that has nothing in its hands yet, or no longer.
LEMMA EmptyHanded ==
  ASSUME NEW h \in Handler,
         LET q == req'[h]
         IN  /\ q.op # "reuse" /\ ~Walking(q)
             /\ q.pc \notin {"updateGet", "updateSet"}
             /\ q.op = "logout" => q.session = None
             /\ q.op \in {"login", "refresh"} => q.pc \notin {"touchSession", "finish"}
  PROVE  Mine(h)'
BY DEF Mine, ActsOnOwn, Claims

\* An idle handler acts on nothing.
LEMMA IdleMine ==
  ASSUME NEW h \in Handler, req'[h] = Idle
  PROVE  Mine(h)'
BY EmptyHanded DEF Idle, Walking, Revoking
\* A request that arrives holds nothing.
LEMMA ArriveMine ==
  ASSUME HistoryInv, NEW h \in Handler, Arrive(h)
  PROVE  Mine(h)'
<1>0. \A r : Proceed(h, r) => req'[h] = r
  BY BecomeActs DEF HistoryInv, RevocationInv, SafeInv, Proceed
<1> USE DEF Begin, Idle, Walking, Revoking, Loop
<1>1. ASSUME NEW u \in User, BeginLogin(h, u) PROVE Mine(h)'
  BY <1>0, <1>1, EmptyHanded DEF BeginLogin
<1>2. ASSUME NEW u \in User, BeginLogoutAll(h, u) PROVE Mine(h)'
  BY <1>0, <1>2, EmptyHanded DEF BeginLogoutAll
<1>3. ASSUME NEW t \in Token, BeginRefresh(h, t) PROVE Mine(h)'
  BY <1>0, <1>3, EmptyHanded DEF BeginRefresh
<1>4. ASSUME NEW t \in Token, BeginLogout(h, t) PROVE Mine(h)'
  BY <1>0, <1>4, EmptyHanded DEF BeginLogout
<1>5. ASSUME NEW u \in User, NEW s \in Session, BeginRevokeSession(h, u, s)
      PROVE  Mine(h)'
  BY <1>0, <1>5, EmptyHanded DEF BeginRevokeSession
<1>6. CASE BeginLogoutNoCookie(h)
  BY <1>0, <1>6, EmptyHanded DEF BeginLogoutNoCookie
<1> QED
  BY <1>1, <1>2, <1>3, <1>4, <1>5, <1>6 DEF Arrive

\* What the presented token's record says of its owner and session is so.
LEMMA PresentedOwned ==
  ASSUME HistoryInv, NEW h \in Handler, At(h, "findToken"), Presented(h) # None
  PROVE  /\ Identified(h).user \in User /\ Identified(h).session \in Session
         /\ Identified(h).user = Presented(h).user
         /\ Identified(h).session = Presented(h).session
         /\ Owns(Presented(h).user, Presented(h).session)
         /\ Listed(Presented(h).user, Presented(h).session, req[h].token)
<1>1. TypeInv /\ SafeInv /\ req[h] \in Request
  BY DEF HistoryInv, RevocationInv, SafeInv, TypeInv, TypeOK
<1>2. req[h].token \in Token /\ Identified(h).user \in User
      /\ Identified(h).session \in Session
  BY <1>1, IdentifiedType
<1>3. /\ Identified(h).user = Presented(h).user
      /\ Identified(h).session = Presented(h).session
  BY <1>1 DEF Identified, Request
<1> QED
  BY <1>1, <1>2, <1>3
  DEF SafeInv, StoresAgree, TokenOwned, TokensIndexed, Presented, Owns, Listed

\* The lookups, and a new token.
LEMMA LookupMine ==
  ASSUME HistoryInv, NEW h \in Handler,
         \/ RefreshUnknown(h) \/ RefreshReused(h) \/ RefreshRefused(h)
         \/ RefreshAccepted(h) \/ LogoutFind(h)
  PROVE  Mine(h)'
<1> DEFINE r == req[h]
           q == req'[h]
           i == Identified(h)
<1>0. /\ SafeInv /\ TypeInv /\ r \in Request /\ Shape(r) /\ Stored(h)
      /\ ActsOnOwn(h) /\ IndexesFit /\ r.pc = "findToken"
      /\ UNCHANGED <<tokens, userTokens, sessionTokens, issued, lapsed, sessions>>
      /\ \A p : Become(h, p) => q = p
  BY BecomeActs
  DEF HistoryInv, RevocationInv, SafeInv, TypeInv, TypeOK, RefreshUnknown,
      RefreshReused, RefreshRefused, RefreshAccepted, LogoutFind, LookingUp, At,
      Proceed, storeVars
<1>1. Presented(h) # None =>
        /\ i \in Request /\ i.op = r.op /\ i.token = r.token /\ r.token \in Token
        /\ i.user \in User /\ i.session \in Session
        /\ Owns(i.user, i.session) /\ Listed(i.user, i.session, r.token)
  BY <1>0, IdentifiedType, PresentedOwned DEF At
<1>2. CASE RefreshUnknown(h)
  <2>1. q = [r EXCEPT !.op = "rejected", !.pc = "finish"]
    BY <1>0, <1>2 DEF RefreshUnknown, Proceed
  <2>2. q.op = "rejected" /\ q.pc = "finish"
    BY <1>0, <2>1 DEF Request
  <2> QED
    BY <2>2, EmptyHanded DEF Walking, Revoking
<1>3. CASE RefreshRefused(h)
  <2>1. q = [i EXCEPT !.op = "rejected", !.pc = "finish"] /\ i \in Request
    BY <1>0, <1>1, <1>3 DEF RefreshRefused, Proceed
  <2> HIDE DEF i
  <2>2. q.op = "rejected" /\ q.pc = "finish"
    BY <2>1 DEF Request
  <2> QED
    BY <2>2, EmptyHanded DEF Walking, Revoking
<1>4. CASE RefreshReused(h)
  <2>1. /\ q = [i EXCEPT !.op = "reuse", !.pc = "listTokens", !.token = None]
        /\ Presented(h) # None
    BY <1>0, <1>4 DEF RefreshReused, Proceed
  <2> HIDE DEF i
  <2>2. q.op = "reuse" /\ q.pc = "listTokens" /\ q.user = i.user /\ q.session = i.session
    BY <1>1, <2>1 DEF Request
  <2>3. ActsOnOwn(h)'
    BY <2>2 DEF ActsOnOwn, Walking
  <2>4. q.session \in Session /\ Owns(q.user, q.session)
        /\ r.token \in sessionTokens[q.session]
    BY <1>1, <2>1, <2>2 DEF Listed
  <2>5. Claims(h)'
    BY <1>0, <2>2, <2>4 DEF Claims, Walking, Owns
  <2> QED
    BY <2>3, <2>5 DEF Mine
<1>5. CASE RefreshAccepted(h)
  <2>1. /\ q = [i EXCEPT !.pc = "updateGet", !.cur = r.token]
        /\ Presented(h) # None /\ r.op = "refresh"
    BY <1>0, <1>5 DEF RefreshAccepted, Proceed, LookingUp, Usable, Live, Presented
  <2> HIDE DEF i
  <2>2. q.op = "refresh" /\ q.pc = "updateGet" /\ q.user = i.user /\ q.cur = r.token
    BY <1>1, <2>1 DEF Request
  <2> QED
    BY <1>0, <1>1, <2>1, <2>2 DEF Mine, ActsOnOwn, Claims, Walking, Revoking, Listed
<1>6. CASE LogoutFind(h) /\ Presented(h) = None
  <2>1. q = [r EXCEPT !.pc = "updateGet", !.cur = r.token] /\ r.op = "logout"
    BY <1>0, <1>6 DEF LogoutFind, Proceed, LookingUp
  <2>2. /\ q.op = "logout" /\ q.pc = "updateGet" /\ q.user = r.user
        /\ q.session = r.session /\ q.cur = r.token
    BY <1>0, <2>1 DEF Request
  <2>3. Expired(r.token)
    BY <1>0, <1>6, NoneAssumption DEF Shape, Stored, IndexesFit, Presented
  <2> QED
    BY <1>0, <2>1, <2>2, <2>3
    DEF Mine, ActsOnOwn, Claims, Walking, Revoking, Owns, Expired
<1>7. CASE LogoutFind(h) /\ Presented(h) # None
  <2>1. q = [i EXCEPT !.pc = "updateGet", !.cur = r.token] /\ r.op = "logout"
    BY <1>0, <1>7 DEF LogoutFind, Proceed, LookingUp
  <2> HIDE DEF i
  <2>2. /\ q.op = "logout" /\ q.pc = "updateGet" /\ q.user = i.user
        /\ q.session = i.session /\ q.cur = r.token
    BY <1>1, <1>7, <2>1 DEF Request
  <2> QED
    BY <1>0, <1>1, <1>7, <2>2
    DEF Mine, ActsOnOwn, Claims, Walking, Revoking, Owns, Listed
<1> QED
  BY <1>2, <1>3, <1>4, <1>5, <1>6, <1>7
\* A login opens a session, and the new token of a login or refresh is the
\* youngest of it.
LEMMA CreateMine ==
  ASSUME HistoryInv, NEW h \in Handler, InsertSession(h) \/ CreateToken(h)
  PROVE  Mine(h)'
<1> DEFINE r == req[h]
           q == req'[h]
<1>0. /\ SafeInv /\ TypeInv /\ r \in Request /\ Shape(r) /\ Stored(h)
      /\ \A p : Become(h, p) => q = p
  BY BecomeActs DEF HistoryInv, RevocationInv, SafeInv, TypeInv, TypeOK
<1>1. CASE InsertSession(h)
  <2>1. PICK s \in Session : q = [r EXCEPT !.pc = "createToken", !.session = s]
    BY <1>0, <1>1 DEF InsertSession
  <2>2. r.op = "login"
    BY <1>0, <1>1
    DEF InsertSession, At, Shape, CallsOf, Loop, Revoking, Request, Operation
  <2>3. q.pc = "createToken" /\ q.op = "login"
    BY <1>0, <2>1, <2>2 DEF Request
  <2> QED
    BY <2>3, EmptyHanded DEF Walking, Revoking
<1>2. CASE CreateToken(h)
  <2>1. /\ r.op \in {"login", "refresh"} /\ r.user \in User /\ r.session \in Session
        /\ Owns(r.user, r.session) /\ Create(r.user, r.session) /\ UNCHANGED sessions
    BY <1>0, <1>2, CreateTokenKnows DEF CreateToken
  <2>2. q = [r EXCEPT !.pc = IF r.op = "login" THEN "finish" ELSE "touchSession",
                      !.cur = issued + 1]
    BY <1>0, <1>2 DEF CreateToken
  <2>3. /\ q.op = r.op /\ q.user = r.user /\ q.session = r.session /\ q.token = r.token
        /\ q.cur = issued + 1
        /\ q.pc = IF r.op = "login" THEN "finish" ELSE "touchSession"
    BY <1>0, <2>2 DEF Request
  <2>4. issued + 1 \in sessionTokens'[r.session]
    BY <1>0, <2>1 DEF Create, TypeInv, TypeOK, StoreTypeOK
  <2>5. r.op = "refresh" => r.token < issued + 1
    <3>1. r.op = "refresh" => r.token \in 1..issued
      BY <1>0, NoneAssumption DEF Shape, Stored
    <3>2. issued \in Nat
      BY <1>0, BoundsAssumption DEF TypeInv, TypeOK, StoreTypeOK
    <3> QED
      BY <3>1, <3>2
  <2>6. ActsOnOwn(h)'
    BY <2>1, <2>3 DEF ActsOnOwn, Walking, Revoking
  <2>7. Claims(h)'
    BY <2>1, <2>3, <2>4, <2>5 DEF Claims, Owns
  <2> QED
    BY <2>6, <2>7 DEF Mine
<1> QED
  BY <1>1, <1>2

\* UpdateStatus writes under the key its caller chose.
LEMMA UpdateMine ==
  ASSUME HistoryInv, SafeInv', Monotone, NEW h \in Handler,
         UpdateGet(h) \/ UpdateMissing(h) \/ UpdateSet(h)
  PROVE  Mine(h)'
<1> DEFINE r == req[h]
           q == req'[h]
<1>0. /\ SafeInv /\ TypeInv /\ r \in Request /\ Shape(r) /\ ActsOnOwn(h)
      /\ r.pc \in {"updateGet", "updateSet"}
      /\ \A p : Become(h, p) => q = p
  BY BecomeActs
  DEF HistoryInv, RevocationInv, SafeInv, TypeInv, TypeOK, UpdateGet, UpdateMissing,
      UpdateSet, At
<1>1. /\ r.op \in {"refresh", "logout"} \cup Revoking
      /\ r.op \in Revoking => Walking(r)
  BY <1>0 DEF Shape, CallsOf, Request, Operation, Revoking, Walking, Loop
<1>2. CASE UpdateGet(h)
  <2> DEFINE rec == [tokens[r.cur] EXCEPT !.status = NewStatus(r)]
  <2>1. q = [r EXCEPT !.pc = "updateSet", !.rec = rec] /\ ~Expired(r.cur)
    BY <1>0, <1>2 DEF UpdateGet, Proceed
  <2> HIDE DEF rec
  <2>2. /\ q.op = r.op /\ q.pc = "updateSet" /\ q.user = r.user
        /\ q.session = r.session /\ q.token = r.token /\ q.cur = r.cur
        /\ q.todo = r.todo /\ q.since = r.since
    BY <1>0, <2>1 DEF Request
  <2>3. r.user \in User /\ r.cur \in userTokens[r.user]
    BY <1>0, <2>1 DEF ActsOnOwn
  <2> QED
    BY <1>1, <2>2, <2>3, CarriedOn DEF Walking
<1>3. CASE UpdateMissing(h) /\ r.op = "refresh"
  BY <1>0, <1>3, IdleMine DEF UpdateMissing, Proceed
<1>4. CASE UpdateSet(h) \/ (UpdateMissing(h) /\ r.op # "refresh")
  <2>1. \/ q = [r EXCEPT !.pc = AfterUpdate(r), !.cur = None, !.rec = None]
        \/ q = [r EXCEPT !.pc = AfterUpdate(r), !.cur = None]
    BY <1>0, <1>4 DEF UpdateSet, UpdateMissing, Proceed
  <2>2. /\ q.op = r.op /\ q.pc = AfterUpdate(r) /\ q.user = r.user
        /\ q.session = r.session /\ q.token = r.token
        /\ q.todo = r.todo /\ q.since = r.since
    BY <1>0, <2>1 DEF Request
  <2>3. /\ AfterUpdate(r) \notin {"updateGet", "updateSet"}
        /\ r.op = "refresh" => AfterUpdate(r) = "createToken"
    BY DEF AfterUpdate
  <2> QED
    BY <1>1, <2>2, <2>3, CarriedOn DEF Walking, Revoking
<1> QED
  BY <1>2, <1>3, <1>4

\* The loops go through the tokens they listed, which are the user's.
LEMMA LoopMine ==
  ASSUME HistoryInv, SafeInv', Monotone, NEW h \in Handler,
         FindSession(h) \/ ListTokens(h) \/ RevokeNext(h) \/ RevokeSessions(h)
  PROVE  Mine(h)'
<1> USE DEF At
<1> DEFINE r == req[h]
           q == req'[h]
<1>0. /\ SafeInv /\ TypeInv /\ r \in Request /\ Shape(r) /\ RevokesAll(h)
      /\ ActsOnOwn(h) /\ Claims(h) /\ IndexesFit
      /\ \A p : Become(h, p) => q = p
  BY BecomeActs DEF HistoryInv, RevocationInv, SafeInv, TypeInv, TypeOK
<1>1. r.op \in Revoking /\ r.user \in User
  BY <1>0
  DEF FindSession, ListTokens, RevokeNext, RevokeSessions, Shape, CallsOf, Request,
      Operation, Revoking
<1>2. CASE FindSession(h)
  <2>1. q = Idle \/ q = [r EXCEPT !.pc = "listTokens"]
    BY <1>0, <1>2 DEF FindSession, Proceed
  <2>2. q # Idle => /\ q.op = r.op /\ q.pc = "listTokens" /\ q.user = r.user
                    /\ q.session = r.session /\ q.token = r.token
    BY <1>0, <2>1 DEF Request
  <2>3. q # Idle => Mine(h)'
    BY <1>1, <2>2, CarriedOn DEF Walking, Revoking
  <2> QED
    BY <2>3, IdleMine
<1>3. CASE ListTokens(h)
  <2> DEFINE l == IF r.op = "revokeSession" THEN sessionTokens[r.session]
                                            ELSE userTokens[r.user]
  <2>1. /\ q = [r EXCEPT !.pc = "revokeNext", !.since = issued, !.todo = l]
        /\ UNCHANGED <<tokens, userTokens, sessionTokens, issued, lapsed, sessions>>
        /\ r.pc = "listTokens"
    BY <1>0, <1>3 DEF ListTokens, Proceed, storeVars
  <2>2. l \subseteq userTokens[r.user]
    <3>1. r.op = "revokeSession" =>
            r.session \in Session /\ sessions[r.session].user = r.user
      BY <1>0, <2>1 DEF RevokesAll, Owns, Shape
    <3>2. r.op = "revokeSession" /\ l # {} => l \subseteq userTokens[r.user]
      BY <1>0, <3>1 DEF IndexesFit
    <3> QED
      BY <3>2
  <2> HIDE DEF l
  <2>3. /\ q.op = r.op /\ q.pc = "revokeNext" /\ q.user = r.user
        /\ q.session = r.session /\ q.token = r.token /\ q.todo = l
        /\ q.since = issued
    BY <1>0, <2>1 DEF Request
  <2>4. ActsOnOwn(h)'
    BY <1>1, <2>1, <2>2, <2>3 DEF ActsOnOwn, Revoking
  <2>5. r.op = "reuse" => \E t \in sessionTokens[r.session] : t \in 1..issued
    BY <1>0 DEF Claims, SafeInv, StoresAgree
  <2>6. Claims(h)'
    BY <1>0, <1>1, <2>1, <2>3, <2>5 DEF Claims, Owns, Revoking
  <2> QED
    BY <2>4, <2>6 DEF Mine
<1>4. CASE RevokeNext(h)
  <2>1. r.pc = "revokeNext" /\ Walking(r)
    BY <1>1, <1>4 DEF RevokeNext, Walking, Loop
  <2>2. PICK t \in r.todo :
          \/ q = [r EXCEPT !.todo = @ \ {t}, !.pc = "updateGet", !.cur = t]
          \/ q = [r EXCEPT !.todo = @ \ {t}]
    BY <1>0, <1>4 DEF RevokeNext
  <2>3. /\ q.op = r.op /\ q.user = r.user /\ q.session = r.session
        /\ q.token = r.token /\ q.since = r.since /\ q.todo \subseteq r.todo
        /\ (q.pc = "updateGet" /\ q.cur = t) \/ q.pc = "revokeNext"
    BY <1>0, <2>1, <2>2 DEF Request
  <2>4. t \in userTokens[r.user]
    BY <1>0, <2>1 DEF ActsOnOwn
  <2> QED
    BY <1>1, <2>1, <2>3, <2>4, CarriedOn DEF Revoking
<1>5. CASE RevokeSessions(h)
  <2>1. q = [r EXCEPT !.pc = "finish"] /\ Walking(r)
    BY <1>0, <1>1, <1>5 DEF RevokeSessions, Walking, Loop
  <2>2. /\ q.op = r.op /\ q.pc = "finish" /\ q.user = r.user
        /\ q.session = r.session /\ q.token = r.token /\ q.since = r.since
        /\ q.todo = r.todo
    BY <1>0, <2>1 DEF Request
  <2> QED
    BY <1>1, <2>1, <2>2, CarriedOn DEF Revoking
<1> QED
  BY <1>2, <1>3, <1>4, <1>5

\* A handler's own step keeps to its user's records.
LEMMA ServeMine ==
  ASSUME HistoryInv, SafeInv', Monotone, NEW h \in Handler,
         Arrive(h) \/ Serve(h) \/ UpdateResent(h) \/ Abort(h)
  PROVE  Mine(h)'
<1> DEFINE r == req[h]
           q == req'[h]
<1>0. /\ r \in Request /\ Shape(r) /\ \A p : Become(h, p) => q = p
  BY BecomeActs DEF HistoryInv, RevocationInv, SafeInv, TypeInv, TypeOK
<1>1. CASE UpdateResent(h)
  BY <1>1, CarriedOn DEF UpdateResent
<1>2. CASE TouchSession(h) \/ EndSession(h)
  <2>1. /\ q = [r EXCEPT !.pc = "finish"]
        /\ \/ r.op = "refresh" /\ r.pc = "touchSession"
           \/ r.op = "logout"
    BY <1>0, <1>2
    DEF TouchSession, EndSession, At, Proceed, Shape, CallsOf, Loop, Revoking,
        Request, Operation
  <2>2. /\ q.op = r.op /\ q.pc = "finish" /\ q.user = r.user
        /\ q.session = r.session /\ q.token = r.token /\ q.cur = r.cur
    BY <1>0, <2>1 DEF Request
  <2> QED
    BY <2>1, <2>2, CarriedOn DEF Walking, Revoking
<1>3. CASE Finish(h) \/ Abort(h)
  BY <1>0, <1>3, IdleMine DEF Finish, Abort, Proceed
<1> QED
  BY <1>1, <1>2, <1>3, ArriveMine, LookupMine, CreateMine, UpdateMine, LoopMine
  DEF Serve
-----------------------------------------------------------------------------
(* The audit trail.                                                        *)

\* A row stays true: the stores take nothing back.
LEMMA RowStays ==
  ASSUME HistoryInv, Monotone, NEW row \in audit
  PROVE  LET s == row.session
         IN  /\ row.event \in {"login_success", "refresh_success"} =>
                  /\ s \in Session /\ sessions'[s] # None
                  /\ sessions'[s].user = row.user
             /\ row.event = "login_success" => sessionTokens'[s] # {}
             /\ row.event = "refresh_success" =>
                  \E t, n \in sessionTokens'[s] : t < n /\ ~Live(t)'
             /\ row.event \in {"token_reuse_detected", "logout"} /\ s # None =>
                  sessions'[s] # None /\ sessions'[s].status = "REVOKED"
<1> DEFINE s == row.session
<1>1. /\ SafeInv
      /\ s # None => s \in Session
      /\ row.event \in {"login_success", "refresh_success"} => s \in Session
  BY DEF HistoryInv, RevocationInv, SafeInv, TypeInv, TypeOK, AuditRow, RowsNamed
<1>2. row.event \in {"login_success", "refresh_success"} =>
        sessions'[s] # None /\ sessions'[s].user = row.user
  BY <1>1 DEF HistoryInv, AuditTruthful, Monotone
<1>3. row.event = "login_success" => sessionTokens'[s] # {}
  BY <1>1 DEF HistoryInv, AuditTruthful, Monotone
<1>4. ASSUME row.event = "refresh_success"
      PROVE  \E t, n \in sessionTokens'[s] : t < n /\ ~Live(t)'
  <2>1. PICK t \in sessionTokens[s], n \in sessionTokens[s] : t < n /\ ~Live(t)
    BY <1>4 DEF HistoryInv, AuditTruthful
  <2>2. t \in sessionTokens'[s] /\ n \in sessionTokens'[s]
    BY <1>1, <1>4 DEF Monotone
  <2>3. ~Live(t)'
    BY <1>1, <1>4, <2>1 DEF SafeInv, StoresAgree, Monotone
  <2> QED
    BY <2>1, <2>2, <2>3
<1>5. row.event \in {"token_reuse_detected", "logout"} /\ s # None =>
        sessions'[s] # None /\ sessions'[s].status = "REVOKED"
  BY <1>1 DEF HistoryInv, AuditTruthful, RowsNamed, Monotone
<1> QED
  BY <1>1, <1>2, <1>3, <1>4, <1>5

\* The row a request leaves when it ends is true.
LEMMA RowWritten ==
  ASSUME HistoryInv, NEW h \in Handler, At(h, "finish")
  PROVE  LET row == Row(req[h])
             s   == row.session
         IN  /\ row.event \in {"login_success", "refresh_success"} =>
                  /\ s \in Session /\ sessions[s] # None
                  /\ sessions[s].user = row.user
             /\ row.event = "login_success" => sessionTokens[s] # {}
             /\ row.event = "refresh_success" =>
                  \E t, n \in sessionTokens[s] : t < n /\ ~Live(t)
             /\ row.event \in {"token_reuse_detected", "logout"} /\ s # None =>
                  sessions[s] # None /\ sessions[s].status = "REVOKED"
<1> DEFINE r == req[h]
           row == Row(r)
           s == row.session
<1>1. /\ r \in Request /\ Shape(r) /\ Knows(h) /\ LogsOut(h) /\ RevokesAll(h)
      /\ Claims(h) /\ r.pc = "finish"
  BY DEF HistoryInv, RevocationInv, SafeInv, TypeInv, TypeOK, At
<1>2. row.user = r.user /\ s = r.session /\ row.event = Event(r.op)
  BY DEF Row
<1>3. /\ row.event = "login_success" => r.op = "login"
      /\ row.event = "refresh_success" => r.op = "refresh"
      /\ row.event = "token_reuse_detected" => r.op = "reuse"
      /\ row.event = "logout" => r.op = "logout"
  BY <1>1, <1>2 DEF Event, Request, Operation
<1> HIDE DEF row
<1>4. ASSUME r.op = "login"
      PROVE  s \in Session /\ Owns(r.user, s) /\ sessionTokens[s] # {}
  BY <1>1, <1>2, <1>4 DEF Claims
<1>5. ASSUME r.op = "refresh"
      PROVE  /\ s \in Session /\ Owns(r.user, s)
             /\ \E t, n \in sessionTokens[s] : t < n /\ ~Live(t)
  <2>1. s \in Session /\ Owns(r.user, s)
    BY <1>1, <1>2, <1>5 DEF Shape, Found, Knows
  <2>2. /\ r.token \in sessionTokens[s] /\ r.cur \in sessionTokens[s]
        /\ r.token < r.cur /\ ~Live(r.token)
    BY <1>1, <1>2, <1>5 DEF Found, Knows, Listed, Claims
  <2> QED
    BY <2>1, <2>2
<1>6. ASSUME r.op = "reuse"
      PROVE  sessions[s] # None /\ sessions[s].status = "REVOKED"
  <2>1. Walking(r)
    BY <1>1, <1>6 DEF Walking, Revoking, Loop
  <2>2. s \in Session /\ Owns(r.user, s) /\ sessionTokens[s] \cap 1..r.since # {}
    BY <1>1, <1>2, <1>6, <2>1 DEF Claims
  <2>3. Reached(r, s)
    BY <1>6, <2>2 DEF Reached, Owns
  <2> QED
    BY <1>1, <2>1, <2>2, <2>3 DEF RevokesAll, Owns
<1>7. ASSUME r.op = "logout", s # None
      PROVE  sessions[s] # None /\ sessions[s].status = "REVOKED"
  BY <1>1, <1>2, <1>7 DEF LogsOut
<1> QED
  BY <1>2, <1>3, <1>4, <1>5, <1>6, <1>7 DEF Owns, row

\* No step makes a row of the audit trail false.
LEMMA AuditStays ==
  ASSUME HistoryInv, [Next]_vars, Monotone
  PROVE  AuditTruthful' /\ RowsNamed'
<1>1. CASE audit' = audit
  BY <1>1, RowStays DEF AuditTruthful, RowsNamed, Live
<1>2. ASSUME NEW h \in Handler, Finish(h) PROVE AuditTruthful' /\ RowsNamed'
  <2>1. /\ At(h, "finish") /\ UNCHANGED <<tokens, sessionTokens, sessions>>
        /\ \A row \in audit' : row \in audit \/ row = Row(req[h])
    BY <1>2 DEF Finish, LogAuthEvent, storeVars
  <2> QED
    BY <2>1, RowStays, RowWritten DEF AuditTruthful, RowsNamed, Live
<1>3. audit' = audit \/ \E h \in Handler : Finish(h)
  BY DEF Next, vars, Tick, UpdateResent, Abort, Arrive, BeginLogin, BeginLogoutAll,
     BeginRefresh, BeginLogout, BeginRevokeSession, BeginLogoutNoCookie, Begin,
     Proceed, Serve, InsertSession, CreateToken, RefreshUnknown, RefreshReused,
     RefreshRefused, RefreshAccepted, LogoutFind, UpdateGet, UpdateMissing,
     UpdateSet, TouchSession, EndSession, FindSession, ListTokens, RevokeNext,
     RevokeSessions
<1> QED
  BY <1>1, <1>2, <1>3
-----------------------------------------------------------------------------
\* Nobody has anything, and nothing is told, before the first request.
LEMMA InitHistory == Init => HistoryInv
<1> SUFFICES ASSUME Init PROVE HistoryInv
  OBVIOUS
<1>1. \A h \in Handler : ActsOnOwn(h) /\ Claims(h)
  BY DEF Init, Idle, ActsOnOwn, Claims, Walking, Revoking
<1>2. IndexesFit
  BY DEF Init, StoreInit, SessionsInit, IndexesFit
<1>3. RowsNamed /\ AuditTruthful
  BY DEF Init, RowsNamed, AuditTruthful
<1> QED
  BY <1>1, <1>2, <1>3, InitRevocation DEF HistoryInv

\* Every step keeps the indexes apart and the trail true.
LEMMA NextHistory == HistoryInv /\ [Next]_vars => HistoryInv'
<1> SUFFICES ASSUME HistoryInv, [Next]_vars PROVE HistoryInv'
  OBVIOUS
<1>1. RevocationInv' /\ SafeInv' /\ Monotone
  BY NextRevocation, NextMonotone DEF HistoryInv, RevocationInv
<1>2. ASSUME NEW h \in Handler, req'[h] = req[h] PROVE Mine(h)'
  BY <1>1, <1>2, CarriedOn
<1>3. ASSUME NEW h \in Handler, req'[h] # req[h] PROVE Mine(h)'
  <2>1. PICK g \in Handler : Arrive(g) \/ Serve(g) \/ UpdateResent(g) \/ Abort(g)
    BY <1>3 DEF Next, vars, Tick
  <2>2. (\E r : Become(g, r)) \/ UNCHANGED req
    BY <2>1
    DEF UpdateResent, Abort, Arrive, BeginLogin, BeginLogoutAll, BeginRefresh,
        BeginLogout, BeginRevokeSession, BeginLogoutNoCookie, Begin, Proceed,
        Serve, InsertSession, CreateToken, RefreshUnknown, RefreshReused,
        RefreshRefused, RefreshAccepted, LogoutFind, UpdateGet, UpdateMissing,
        UpdateSet, TouchSession, EndSession, FindSession, ListTokens, RevokeNext,
        RevokeSessions, Finish
  <2>3. g = h
    BY <1>3, <2>2, BecomeActs DEF OnlyActs, HistoryInv, RevocationInv, SafeInv
  <2> QED
    BY <1>1, <2>1, <2>3, ServeMine
<1> QED
  BY <1>1, <1>2, <1>3, IndexesStay, AuditStays DEF HistoryInv, Mine

\* Whose session rows and token records a step may rewrite.
OwnStep ==
  /\ \A s \in Session :
       sessions[s] # None /\ sessions'[s] # sessions[s] =>
         \E h \in Handler : req[h].user = sessions[s].user
  /\ \A t \in Token :
       tokens[t] # None /\ tokens'[t] \notin {tokens[t], None} =>
         \E h \in Handler : req[h].user = tokens[t].user

\* The rows a revoking UPDATE touches are those of the request's user.
LEMMA OwnSessions ==
  ASSUME HistoryInv, NEW h \in Handler, EndSession(h) \/ RevokeSessions(h),
         NEW s \in Session, sessions[s] # None, sessions'[s] # sessions[s]
  PROVE  req[h].user = sessions[s].user
<1>1. /\ req[h] \in Request /\ Shape(req[h]) /\ ActsOnOwn(h) /\ RevokesAll(h)
  BY DEF HistoryInv, RevocationInv, SafeInv, TypeInv, TypeOK
<1>2. CASE EndSession(h)
  <2>1. s = req[h].session /\ req[h].op = "logout"
    BY <1>1, <1>2
    DEF EndSession, RevokeById, Revoke, At, Shape, CallsOf, Loop, Revoking, Request,
        Operation
  <2>2. req[h].session # None
    BY <2>1, NoneAssumption
  <2> QED
    BY <1>1, <2>1, <2>2 DEF ActsOnOwn, Owns
<1>3. CASE RevokeSessions(h) /\ req[h].op = "revokeSession"
  <2>1. s = req[h].session /\ req[h].pc = "revokeNext"
    BY <1>3 DEF RevokeSessions, RevokeById, Revoke, At
  <2> QED
    BY <1>1, <1>3, <2>1 DEF RevokesAll, Owns
<1>4. CASE RevokeSessions(h) /\ req[h].op # "revokeSession"
  BY <1>4 DEF RevokeSessions, RevokeByUser, Revoke
<1> QED
  BY <1>2, <1>3, <1>4

\* The records UpdateStatus overwrites are those of the request's user.
LEMMA OwnTokens ==
  ASSUME HistoryInv, NEW h \in Handler, UpdateSet(h) \/ UpdateResent(h),
         NEW t \in Token, tokens[t] # None, tokens'[t] # tokens[t]
  PROVE  req[h].user = tokens[t].user
<1>1. /\ tokens \in [Token -> TokenRecord \cup {None}] /\ TokensIndexed
      /\ ActsOnOwn(h) /\ IndexesFit
  BY DEF HistoryInv, RevocationInv, SafeInv, StoresAgree, TypeInv, TypeOK, StoreTypeOK
<1>2. t = req[h].cur /\ req[h].pc = "updateSet"
  BY <1>1 DEF UpdateSet, UpdateResent, Set, At
<1>3. req[h].user \in User /\ t \in userTokens[req[h].user]
  BY <1>1, <1>2 DEF ActsOnOwn
<1>4. tokens[t].user \in User /\ t \in userTokens[tokens[t].user]
  BY <1>1 DEF TokensIndexed, TokenRecord
<1> QED
  BY <1>1, <1>3, <1>4 DEF IndexesFit

\* Every step keeps to the records of a user who has a request running.
LEMMA OwnStepHolds == HistoryInv /\ [Next]_vars => OwnStep
<1> SUFFICES ASSUME HistoryInv, [Next]_vars PROVE OwnStep
  OBVIOUS
<1>1. /\ tokens \in [Token -> TokenRecord \cup {None}]
      /\ sessions \in [Session -> SessionRow \cup {None}]
      /\ \A t \in Token : tokens[t] # None => t \in 1..issued
      /\ issued \in Nat
  BY BoundsAssumption
  DEF HistoryInv, RevocationInv, SafeInv, StoresAgree, TokensIndexed, TypeInv, TypeOK,
      StoreTypeOK, SessionsTypeOK, TokenRecord
<1>2. CASE UNCHANGED <<storeVars, sessions>>
  BY <1>2 DEF OwnStep, storeVars
<1>3. CASE Tick
  BY <1>1, <1>3 DEF Tick, Lapse, Expire, OwnStep
<1>4. ASSUME NEW h \in Handler, EndSession(h) \/ RevokeSessions(h) PROVE OwnStep
  BY <1>4, OwnSessions DEF OwnStep, EndSession, RevokeSessions, storeVars
<1>5. ASSUME NEW h \in Handler, UpdateSet(h) \/ UpdateResent(h) PROVE OwnStep
  BY <1>5, OwnTokens DEF OwnStep, UpdateSet, UpdateResent
<1>6. ASSUME NEW h \in Handler, InsertSession(h) PROVE OwnStep
  BY <1>1, <1>6 DEF InsertSession, Insert, OwnStep, storeVars
<1>7. ASSUME NEW h \in Handler, CreateToken(h) PROVE OwnStep
  BY <1>1, <1>7 DEF CreateToken, Create, OwnStep
<1> QED
  BY <1>2, <1>3, <1>4, <1>5, <1>6, <1>7, WhoWrites

\* logAuthEvent: what a row of audit_logs tells is true when it is written, and
\* no later request makes it false.
THEOREM AuditIsTruthful == Spec => []AuditTruthful
BY InitHistory, NextHistory, PTL DEF Spec, HistoryInv

\* The ids a handler takes from cookies, paths and indexes never lead it to
\* records of a user who has no request running.
THEOREM OwnRecords == Spec => OwnRecordsOnly
<1>1. HistoryInv /\ [Next]_vars => [OwnStep]_vars
  BY OwnStepHolds
<1> QED
  BY <1>1, InitHistory, NextHistory, PTL DEF Spec, OwnRecordsOnly, OwnStep
=============================================================================
