------------------------- MODULE RedisRestartProofs -------------------------
(***************************************************************************)
(* What survives a crash of Redis, for every value of the constants, any   *)
(* number of crashes and any requests under way.                           *)
(*                                                                         *)
(* The tokens and the indexes go back, so nothing a request has learnt     *)
(* about them can be relied on any more; the session rows never go back,   *)
(* so what it knows of a session's owner can (KnowsOwner).  That, and that *)
(* UpdateStatus writes no ACTIVE record, is enough.  That sessions do not  *)
(* fork needs more: one request at a time, and crashes between requests.   *)
(***************************************************************************)
EXTENDS RedisRestart, AuthServiceSafety

\* The keys of Redis, now or as saved: T records, U and S the indexes.
KeysOK(T, U, S) ==
  /\ T \in [Token -> TokenRecord \cup {None}]
  /\ U \in [User -> SUBSET Token]
  /\ S \in [Session -> SUBSET Token]

\* Every record is owned by its session, every ACTIVE one is indexed.
Sound(T, U, S) ==
  \A t \in Token :
    T[t] # None => /\ Owns(T[t].user, T[t].session)
                   /\ T[t].status = "ACTIVE" =>
                        t \in U[T[t].user] /\ t \in S[T[t].session]

\* What a request has learnt that no crash takes back.
KnowsOwner(h) ==
  LET r == req[h]
  IN  /\ Found(r) \/ r.pc = "createToken" => Owns(r.user, r.session)
      /\ r.pc = "updateSet" => /\ r.rec.status # "ACTIVE"
                               /\ Owns(r.rec.user, r.rec.session)

ServiceInv ==
  /\ TypeInv
  /\ Sound(tokens, userTokens, sessionTokens)
  /\ \A h \in Handler : KnowsOwner(h)

RestartInv ==
  /\ ServiceInv
  /\ KeysOK(snapshot.tokens, snapshot.users, snapshot.sessions)
  /\ Sound(snapshot.tokens, snapshot.users, snapshot.sessions)

\* Session rows stay and keep their owner.
OwnersStay ==
  \A s \in Session : sessions[s] # None =>
    sessions'[s] # None /\ sessions'[s].user = sessions[s].user

-----------------------------------------------------------------------------
\* The UPDATE of the status changes no session's owner.
LEMMA RevokeOwners ==
  ASSUME TypeInv, UNCHANGED sessions \/ \E S : Revoke(S)
  PROVE  OwnersStay
<1>1. CASE UNCHANGED sessions
  BY <1>1 DEF OwnersStay
<1>2. CASE \E S : Revoke(S)
  <2>1. PICK S : Revoke(S)
    BY <1>2
  <2>2. sessions \in [Session -> SessionRow \cup {None}]
    BY DEF TypeInv, TypeOK, SessionsTypeOK
  <2>3. \A s \in Session : sessions[s] # None =>
          /\ [sessions[s] EXCEPT !.status = "REVOKED"] \in SessionRow
          /\ [sessions[s] EXCEPT !.status = "REVOKED"].user = sessions[s].user
    BY <2>2 DEF SessionRow
  <2> QED
    BY <2>1, <2>2, <2>3, NoneAssumption DEF OwnersStay, Revoke
<1> QED
  BY <1>1, <1>2

\* The INSERT of a session takes an id nobody has, so no owner changes.
LEMMA InsertOwners ==
  ASSUME TypeInv, NEW s \in Session, NEW u \in User, Insert(s, u)
  PROVE  OwnersStay
<1>1. /\ sessions \in [Session -> SessionRow \cup {None}]
      /\ sessions[s] = None
      /\ sessions' = [sessions EXCEPT ![s] = [user |-> u, status |-> "ACTIVE"]]
  BY DEF TypeInv, TypeOK, SessionsTypeOK, Insert
<1>2. [user |-> u, status |-> "ACTIVE"] \in SessionRow
  BY DEF SessionRow
<1> QED
  BY <1>1, <1>2, NoneAssumption DEF OwnersStay

\* Keys that nobody touches stay sound while the session table moves on.
LEMMA SoundStays ==
  ASSUME NEW T, NEW U, NEW S, KeysOK(T, U, S), Sound(T, U, S), OwnersStay,
         NEW T2, NEW U2, NEW S2, T2 = T, U2 = U, S2 = S
  PROVE  \A t \in Token :
           T2[t] # None =>
             /\ sessions'[T2[t].session] # None
             /\ sessions'[T2[t].session].user = T2[t].user
             /\ T2[t].status = "ACTIVE" =>
                  t \in U2[T2[t].user] /\ t \in S2[T2[t].session]
<1> SUFFICES ASSUME NEW t \in Token, T[t] # None
             PROVE  /\ sessions'[T[t].session] # None
                    /\ sessions'[T[t].session].user = T[t].user
                    /\ T[t].status = "ACTIVE" =>
                         t \in U[T[t].user] /\ t \in S[T[t].session]
  OBVIOUS
<1>1. T[t].session \in Session
  BY DEF KeysOK, TokenRecord
<1>2. Owns(T[t].user, T[t].session)
  BY DEF Sound
<1> QED
  BY <1>1, <1>2 DEF Sound, OwnersStay, Owns

\* What a request found out about its session's owner, others do not undo.
LEMMA KnowsOwnerStays ==
  ASSUME ServiceInv, OwnersStay, NEW h \in Handler, req'[h] = req[h]
  PROVE  KnowsOwner(h)'
<1> DEFINE r == req[h]
<1>1. Shape(r) /\ KnowsOwner(h)
  BY DEF ServiceInv, TypeInv
<1>2. Found(r) \/ r.pc = "createToken" => r.session \in Session
  BY <1>1 DEF Shape
<1>3. r.pc = "updateSet" => r.rec.session \in Session
  BY <1>1 DEF Shape, TokenRecord
<1> HIDE DEF r
<1>4. Found(r) \/ r.pc = "createToken" =>
        sessions'[r.session] # None /\ sessions'[r.session].user = r.user
  BY <1>1, <1>2 DEF KnowsOwner, OwnersStay, Owns, r
<1>5. r.pc = "updateSet" => /\ r.rec.status # "ACTIVE"
                            /\ sessions'[r.rec.session] # None
                            /\ sessions'[r.rec.session].user = r.rec.user
  BY <1>1, <1>3 DEF KnowsOwner, OwnersStay, Owns, r
<1> QED
  BY <1>4, <1>5 DEF KnowsOwner, Owns, Found, r

\* A step of one handler, when the keys and its own knowledge are as they should.
LEMMA ServiceStep ==
  ASSUME ServiceInv, TypeInv', OwnersStay, NEW h \in Handler, OnlyActs(h),
         KnowsOwner(h)', Sound(tokens, userTokens, sessionTokens)'
  PROVE  ServiceInv'
<1>1. \A g \in Handler : KnowsOwner(g)'
  <2> TAKE g \in Handler
  <2>1. CASE g # h
    BY <2>1, KnowsOwnerStays DEF OnlyActs
  <2> QED
    BY <2>1
<1> QED
  BY <1>1 DEF ServiceInv

\* The keys are left alone.
LEMMA KeysUntouched ==
  ASSUME ServiceInv, OwnersStay, UNCHANGED <<tokens, userTokens, sessionTokens>>
  PROVE  Sound(tokens, userTokens, sessionTokens)'
<1>1. KeysOK(tokens, userTokens, sessionTokens)
  BY DEF ServiceInv, TypeInv, TypeOK, StoreTypeOK, KeysOK
<1>2. \A t \in Token :
        tokens'[t] # None =>
          /\ sessions'[tokens'[t].session] # None
          /\ sessions'[tokens'[t].session].user = tokens'[t].user
          /\ tokens'[t].status = "ACTIVE" =>
               /\ t \in userTokens'[tokens'[t].user]
               /\ t \in sessionTokens'[tokens'[t].session]
  BY <1>1, SoundStays DEF ServiceInv
<1> QED
  BY <1>2 DEF Sound, Owns

-----------------------------------------------------------------------------
(* The steps of AuthService.                                               *)

\* Calls that write no key of Redis keep the invariant.
LEMMA QuietStepKeeps ==
  ASSUME ServiceInv, TypeInv', NEW h \in Handler, QuietStep(h)
  PROVE  ServiceInv' /\ OwnersStay
<1>0. TypeInv
  BY DEF ServiceInv
<1>1. Unaware(req'[h]) /\ OnlyActs(h)
  BY <1>0, QuietAfter
<1>2. UNCHANGED storeVars /\ OwnersStay
  BY <1>0, QuietWrites, RevokeOwners
<1>3. KnowsOwner(h)'
  BY <1>1 DEF Unaware, KnowsOwner, Found
<1>4. Sound(tokens, userTokens, sessionTokens)'
  BY <1>2, KeysUntouched DEF storeVars
<1> QED
  BY <1>1, <1>2, <1>3, <1>4, ServiceStep

\* A refresh learns the owner of the session from the record it found.
LEMMA AcceptedKeeps ==
  ASSUME ServiceInv, TypeInv', NEW h \in Handler, RefreshAccepted(h)
  PROVE  ServiceInv' /\ OwnersStay
<1> DEFINE t == req[h].token
<1>1. /\ At(h, "findToken") /\ req[h].op = "refresh" /\ Presented(h) # None
      /\ Presented(h) = tokens[t]
  BY DEF RefreshAccepted, LookingUp, Usable, Live, Presented
<1>2. t \in Token /\ Identified(h) \in Request
  BY <1>1, IdentifiedType DEF ServiceInv
<1>3. Identified(h).user = tokens[t].user /\ Identified(h).session = tokens[t].session
  BY <1>1 DEF ServiceInv, TypeInv, TypeOK, Request, Identified
<1>4. Owns(tokens[t].user, tokens[t].session)
  BY <1>1, <1>2 DEF ServiceInv, Sound
<1>5. /\ Become(h, [Identified(h) EXCEPT !.pc = "updateGet", !.cur = t])
      /\ UNCHANGED <<storeVars, sessions>>
  BY DEF RefreshAccepted, Proceed
<1>6. OnlyActs(h) /\ req'[h] = [Identified(h) EXCEPT !.pc = "updateGet", !.cur = t]
  BY <1>5, BecomeActs DEF ServiceInv
<1>7. /\ req'[h].pc = "updateGet" /\ req'[h].user = tokens[t].user
      /\ req'[h].session = tokens[t].session
  BY <1>2, <1>3, <1>6 DEF Request
<1>8. KnowsOwner(h)'
  BY <1>4, <1>5, <1>7 DEF KnowsOwner, Owns
<1>9. OwnersStay
  BY <1>5 DEF OwnersStay
<1>10. Sound(tokens, userTokens, sessionTokens)'
  BY <1>5, <1>9, KeysUntouched DEF storeVars
<1> QED
  BY <1>6, <1>8, <1>9, <1>10, ServiceStep

\* UpdateStatus learns the owner of the record it is to write back.
LEMMA UpdateGetKeeps ==
  ASSUME ServiceInv, TypeInv', NEW h \in Handler, UpdateGet(h)
  PROVE  ServiceInv' /\ OwnersStay
<1> DEFINE c == req[h].cur
           n == [tokens[c] EXCEPT !.status = NewStatus(req[h])]
<1>1. /\ req[h] \in Request /\ Shape(req[h]) /\ KnowsOwner(h)
      /\ req[h].pc = "updateGet" /\ tokens[c] # None
  BY DEF UpdateGet, At, ServiceInv, TypeInv, TypeOK
<1>2. c \in Token
  BY <1>1 DEF Shape
<1>3. tokens[c] \in TokenRecord
  BY <1>1, <1>2 DEF ServiceInv, TypeInv, TypeOK, StoreTypeOK
<1>4. n.status # "ACTIVE" /\ n.user = tokens[c].user /\ n.session = tokens[c].session
  BY <1>3 DEF TokenRecord, NewStatus
<1>5. Owns(n.user, n.session)
  BY <1>1, <1>2, <1>4 DEF ServiceInv, Sound
<1>6. /\ Become(h, [req[h] EXCEPT !.pc = "updateSet", !.rec = n])
      /\ UNCHANGED <<storeVars, sessions>>
  BY DEF UpdateGet, Proceed
<1> HIDE DEF n
<1>7. OnlyActs(h) /\ req'[h] = [req[h] EXCEPT !.pc = "updateSet", !.rec = n]
  BY <1>6, BecomeActs DEF ServiceInv
<1>8. /\ req'[h].pc = "updateSet" /\ req'[h].op = req[h].op /\ req'[h].rec = n
      /\ req'[h].user = req[h].user /\ req'[h].session = req[h].session
  BY <1>1, <1>7 DEF Request
<1>9. KnowsOwner(h)'
  BY <1>1, <1>4, <1>5, <1>6, <1>8 DEF KnowsOwner, Found, Owns
<1>10. OwnersStay
  BY <1>6 DEF OwnersStay
<1>11. Sound(tokens, userTokens, sessionTokens)'
  BY <1>6, <1>10, KeysUntouched DEF storeVars
<1> QED
  BY <1>7, <1>9, <1>10, <1>11, ServiceStep

\* The record written back, once or twice, is owned and not ACTIVE; the indexes
\* may have forgotten it.
LEMMA SetSound ==
  ASSUME ServiceInv, NEW t \in Token, NEW record \in TokenRecord, Set(t, record),
         record.status # "ACTIVE", Owns(record.user, record.session),
         UNCHANGED sessions
  PROVE  Sound(tokens, userTokens, sessionTokens)'
<1>1. tokens' = [tokens EXCEPT ![t] = record]
  BY DEF Set
<1>2. tokens \in [Token -> TokenRecord \cup {None}]
  BY DEF ServiceInv, TypeInv, TypeOK, StoreTypeOK
<1>3. UNCHANGED <<userTokens, sessionTokens>>
  BY DEF Set
<1> SUFFICES ASSUME NEW n \in Token, tokens'[n] # None
             PROVE  /\ sessions'[tokens'[n].session] # None
                    /\ sessions'[tokens'[n].session].user = tokens'[n].user
                    /\ tokens'[n].status = "ACTIVE" =>
                         /\ n \in userTokens'[tokens'[n].user]
                         /\ n \in sessionTokens'[tokens'[n].session]
  BY DEF Sound, Owns
<1>4. CASE n = t
  BY <1>1, <1>2, <1>4 DEF Owns
<1>5. CASE n # t
  <2>1. tokens'[n] = tokens[n]
    BY <1>1, <1>2, <1>5
  <2> QED
    BY <1>3, <2>1 DEF ServiceInv, Sound, Owns
<1> QED
  BY <1>4, <1>5

\* The SET of UpdateStatus, also when it comes after a restart: the record it
\* writes is out of use and its owner is the session's.
LEMMA UpdateSetKeeps ==
  ASSUME ServiceInv, TypeInv', NEW h \in Handler, UpdateSet(h) \/ UpdateResent(h)
  PROVE  ServiceInv' /\ OwnersStay
<1>1. /\ req[h] \in Request /\ Shape(req[h]) /\ KnowsOwner(h) /\ req[h].pc = "updateSet"
      /\ Set(req[h].cur, req[h].rec) /\ UNCHANGED sessions
  BY DEF UpdateSet, UpdateResent, At, ServiceInv, TypeInv, TypeOK
<1>2. /\ req[h].cur \in Token /\ req[h].rec \in TokenRecord
      /\ req[h].rec.status # "ACTIVE"
      /\ Owns(req[h].rec.user, req[h].rec.session)
  BY <1>1 DEF Shape, KnowsOwner
<1>3. Sound(tokens, userTokens, sessionTokens)' /\ OwnersStay
  BY <1>1, <1>2, SetSound DEF OwnersStay
<1>4. CASE UpdateResent(h)
  <2>1. req' = req
    BY <1>4 DEF UpdateResent
  <2> QED
    BY <1>3, <2>1, KnowsOwnerStays, ServiceStep DEF OnlyActs
<1>5. CASE UpdateSet(h)
  <2>1. /\ OnlyActs(h)
        /\ req'[h] = [req[h] EXCEPT !.pc = AfterUpdate(req[h]), !.cur = None,
                                    !.rec = None]
    BY <1>5, BecomeActs DEF UpdateSet, ServiceInv
  <2>2. /\ req'[h].pc = AfterUpdate(req[h]) /\ req'[h].op = req[h].op
        /\ req'[h].user = req[h].user /\ req'[h].session = req[h].session
    BY <1>1, <2>1 DEF Request
  <2>3. CASE req[h].op = "refresh"
    <3>1. req'[h].pc = "createToken"
      BY <2>2, <2>3 DEF AfterUpdate
    <3>2. Owns(req[h].user, req[h].session)
      BY <1>1, <2>3 DEF KnowsOwner, Found
    <3>3. KnowsOwner(h)'
      BY <1>1, <2>2, <3>1, <3>2 DEF KnowsOwner, Owns
    <3> QED
      BY <1>3, <2>1, <3>3, ServiceStep
  <2>4. CASE req[h].op # "refresh"
    <3>1. AfterUpdate(req[h]) \notin {"createToken", "updateSet"}
      BY <2>4 DEF AfterUpdate
    <3>2. KnowsOwner(h)'
      BY <2>2, <2>4, <3>1 DEF KnowsOwner, Found
    <3> QED
      BY <1>3, <2>1, <3>2, ServiceStep
  <2> QED
    BY <2>3, <2>4
<1> QED
  BY <1>4, <1>5

\* UpdateLastUsedAt leaves what the invariant is about alone.
LEMMA TouchSessionKeeps ==
  ASSUME ServiceInv, TypeInv', NEW h \in Handler, TouchSession(h)
  PROVE  ServiceInv' /\ OwnersStay
<1>1. /\ req[h] \in Request /\ KnowsOwner(h) /\ req[h].pc = "touchSession"
      /\ Become(h, [req[h] EXCEPT !.pc = "finish"])
      /\ UNCHANGED <<storeVars, sessions>>
  BY DEF TouchSession, Proceed, At, ServiceInv, TypeInv, TypeOK
<1>2. OnlyActs(h) /\ req'[h] = [req[h] EXCEPT !.pc = "finish"]
  BY <1>1, BecomeActs DEF ServiceInv
<1>3. /\ req'[h].pc = "finish" /\ req'[h].op = req[h].op
      /\ req'[h].user = req[h].user /\ req'[h].session = req[h].session
  BY <1>1, <1>2 DEF Request
<1>4. KnowsOwner(h)'
  BY <1>1, <1>3 DEF KnowsOwner, Found, Owns
<1>5. OwnersStay
  BY <1>1 DEF OwnersStay
<1>6. Sound(tokens, userTokens, sessionTokens)'
  BY <1>1, <1>5, KeysUntouched DEF storeVars
<1> QED
  BY <1>2, <1>4, <1>5, <1>6, ServiceStep

\* The INSERT of a login: the session is new and its owner the request's user.
LEMMA InsertSessionKeeps ==
  ASSUME ServiceInv, TypeInv', NEW h \in Handler, InsertSession(h)
  PROVE  ServiceInv' /\ OwnersStay
<1>1. /\ req[h] \in Request /\ Shape(req[h]) /\ req[h].pc = "insertSession"
      /\ UNCHANGED storeVars
  BY DEF InsertSession, At, ServiceInv, TypeInv, TypeOK
<1>2. PICK s \in Session : /\ Insert(s, req[h].user)
                           /\ Become(h, [req[h] EXCEPT !.pc = "createToken", !.session = s])
  BY DEF InsertSession
<1>3. req[h].op = "login" /\ req[h].user \in User
  BY <1>1 DEF Shape, CallsOf, Loop, Revoking, Request, Operation
<1>4. OwnersStay
  BY <1>2, <1>3, InsertOwners DEF ServiceInv
<1>5. OnlyActs(h) /\ req'[h] = [req[h] EXCEPT !.pc = "createToken", !.session = s]
  BY <1>2, BecomeActs DEF ServiceInv
<1>6. /\ req'[h].pc = "createToken"
      /\ req'[h].user = req[h].user /\ req'[h].session = s
  BY <1>1, <1>5 DEF Request
<1>7. sessions'[s] # None /\ sessions'[s].user = req[h].user
  BY <1>2, <1>3, NoneAssumption DEF Insert, SessionRow, ServiceInv, TypeInv, TypeOK, SessionsTypeOK
<1>8. KnowsOwner(h)'
  BY <1>6, <1>7 DEF KnowsOwner, Owns
<1>9. Sound(tokens, userTokens, sessionTokens)'
  BY <1>1, <1>4, KeysUntouched DEF storeVars
<1> QED
  BY <1>4, <1>5, <1>8, <1>9, ServiceStep

\* A new token is stored under its session and in both indexes at once.
LEMMA CreateTokenKeeps ==
  ASSUME ServiceInv, TypeInv', NEW h \in Handler, CreateToken(h)
  PROVE  ServiceInv' /\ OwnersStay
<1> DEFINE u == req[h].user
           s == req[h].session
           t0 == issued + 1
           r0 == [user |-> u, session |-> s, status |-> "ACTIVE"]
           c == IF req[h].op = "login" THEN "finish" ELSE "touchSession"
<1>1. /\ req[h] \in Request /\ Shape(req[h]) /\ KnowsOwner(h) /\ req[h].pc = "createToken"
      /\ UNCHANGED sessions /\ Create(u, s)
  BY DEF CreateToken, At, ServiceInv, TypeInv, TypeOK
<1>2. u \in User /\ s \in Session /\ Owns(u, s)
  <2>1. req[h].op \in {"login", "refresh"}
    BY <1>1 DEF Shape, CallsOf, Loop, Request, Operation
  <2> QED
    BY <1>1, <2>1 DEF Shape, Found, KnowsOwner
<1>3. OwnersStay
  BY <1>1 DEF OwnersStay
<1>4. Sound(tokens, userTokens, sessionTokens)'
  <2>1. KeysOK(tokens, userTokens, sessionTokens)
    BY DEF ServiceInv, TypeInv, TypeOK, StoreTypeOK, KeysOK
  <2>2. /\ tokens' = [tokens EXCEPT ![t0] = r0]
        /\ userTokens' = [userTokens EXCEPT ![u] = @ \cup {t0}]
        /\ sessionTokens' = [sessionTokens EXCEPT ![s] = @ \cup {t0}]
    BY <1>1 DEF Create
  <2> SUFFICES ASSUME NEW n \in Token, tokens'[n] # None
               PROVE  /\ sessions'[tokens'[n].session] # None
                      /\ sessions'[tokens'[n].session].user = tokens'[n].user
                      /\ tokens'[n].status = "ACTIVE" =>
                           /\ n \in userTokens'[tokens'[n].user]
                           /\ n \in sessionTokens'[tokens'[n].session]
    BY DEF Sound, Owns
  <2>3. CASE n = t0
    <3>1. tokens'[n] = r0
      BY <2>1, <2>2, <2>3 DEF KeysOK
    <3> QED
      BY <1>1, <1>2, <2>1, <2>2, <2>3, <3>1 DEF KeysOK, Owns
  <2>4. CASE n # t0
    <3>1. tokens'[n] = tokens[n] /\ tokens[n] \in TokenRecord
      BY <2>1, <2>2, <2>4 DEF KeysOK
    <3>2. /\ Owns(tokens[n].user, tokens[n].session)
          /\ tokens[n].status = "ACTIVE" =>
               n \in userTokens[tokens[n].user] /\ n \in sessionTokens[tokens[n].session]
      BY <3>1 DEF ServiceInv, Sound
    <3>3. tokens[n].user \in User /\ tokens[n].session \in Session
      BY <3>1 DEF TokenRecord
    <3> HIDE DEF r0, t0, u, s
    <3> QED
      BY <1>1, <2>1, <2>2, <3>1, <3>2, <3>3 DEF KeysOK, Owns
  <2> QED
    BY <2>3, <2>4
<1>5. OnlyActs(h) /\ req'[h] = [req[h] EXCEPT !.pc = c, !.cur = t0]
  BY BecomeActs DEF CreateToken, ServiceInv
<1>6. /\ req'[h].pc = c /\ req'[h].op = req[h].op
      /\ req'[h].user = u /\ req'[h].session = s
  BY <1>1, <1>5 DEF Request
<1>7. KnowsOwner(h)'
  BY <1>1, <1>2, <1>6 DEF KnowsOwner, Found, Owns
<1> QED
  BY <1>3, <1>4, <1>5, <1>7, ServiceStep

\* Expiry removes records and adds none.
LEMMA TickKeeps ==
  ASSUME ServiceInv, TypeInv', Tick
  PROVE  ServiceInv' /\ OwnersStay
<1>1. UNCHANGED <<sessions, req>> /\ OwnersStay
  BY DEF Tick, OwnersStay
<1>2. \A h \in Handler : KnowsOwner(h)'
  BY <1>1, KnowsOwnerStays
<1>3. UNCHANGED <<userTokens, sessionTokens>>
  BY DEF Tick, Lapse, Expire
<1>4. \A n \in Token : tokens'[n] # None => tokens'[n] = tokens[n]
  BY DEF Tick, Lapse, Expire, ServiceInv, TypeInv, TypeOK, StoreTypeOK
<1>5. Sound(tokens, userTokens, sessionTokens)'
  BY <1>1, <1>3, <1>4 DEF ServiceInv, Sound, Owns
<1> QED
  BY <1>1, <1>2, <1>5 DEF ServiceInv

\* Every step of AuthService keeps the invariant, without supposing that all
\* keys are indexed.
LEMMA NextKeeps ==
  ASSUME ServiceInv, Next
  PROVE  ServiceInv' /\ OwnersStay
<1>1. TypeInv'
  BY NextType DEF ServiceInv
<1>2. CASE Tick
  BY <1>1, <1>2, TickKeeps
<1>3. ASSUME NEW h \in Handler, Arrive(h) \/ Serve(h) \/ UpdateResent(h) \/ Abort(h)
      PROVE  ServiceInv' /\ OwnersStay
  BY <1>1, <1>3, QuietStepKeeps, AcceptedKeeps, UpdateGetKeeps, UpdateSetKeeps,
     TouchSessionKeeps, InsertSessionKeeps, CreateTokenKeeps DEF Serve, QuietStep
<1> QED
  BY <1>2, <1>3 DEF Next

-----------------------------------------------------------------------------
(* Snapshots and crashes.                                                  *)

\* At the start there is nothing to save.
LEMMA RestartInitInv == RestartInit => RestartInv
<1> SUFFICES ASSUME RestartInit PROVE RestartInv
  OBVIOUS
<1>1. Init /\ snapshot = Stored
  BY DEF RestartInit
<1>2. TypeInv
  BY <1>1, InitType
<1>3. Sound(tokens, userTokens, sessionTokens)
  BY <1>1 DEF Init, StoreInit, Sound
<1>4. \A h \in Handler : KnowsOwner(h)
  BY <1>1 DEF Init, Idle, KnowsOwner, Found
<1>5. /\ snapshot.tokens = tokens /\ snapshot.users = userTokens
      /\ snapshot.sessions = sessionTokens
  BY <1>1 DEF Stored
<1>6. KeysOK(tokens, userTokens, sessionTokens)
  BY <1>2 DEF TypeInv, TypeOK, StoreTypeOK, KeysOK
<1> QED
  BY <1>2, <1>3, <1>4, <1>5, <1>6 DEF RestartInv, ServiceInv

\* What neither kind of key nor the session table notices.
LEMMA UntouchedInv ==
  ASSUME ServiceInv, UNCHANGED vars
  PROVE  ServiceInv'
<1>1. TypeInv'
  BY NextType DEF ServiceInv
<1>2. UNCHANGED <<tokens, userTokens, sessionTokens, sessions, req>> /\ OwnersStay
  BY DEF vars, OwnersStay
<1>3. \A h \in Handler : KnowsOwner(h)'
  BY <1>2, KnowsOwnerStays
<1>4. Sound(tokens, userTokens, sessionTokens)'
  BY <1>2, KeysUntouched
<1> QED
  BY <1>1, <1>3, <1>4 DEF ServiceInv

\* What PostgreSQL does later never contradicts a snapshot taken earlier:
\* sessions are not deleted and keep their owners.
LEMMA SnapshotStays ==
  ASSUME RestartInv, OwnersStay, UNCHANGED snapshot
  PROVE  /\ KeysOK(snapshot.tokens, snapshot.users, snapshot.sessions)'
         /\ Sound(snapshot.tokens, snapshot.users, snapshot.sessions)'
<1>1. \A t \in Token :
        snapshot'.tokens[t] # None =>
          /\ sessions'[snapshot'.tokens[t].session] # None
          /\ sessions'[snapshot'.tokens[t].session].user = snapshot'.tokens[t].user
          /\ snapshot'.tokens[t].status = "ACTIVE" =>
               /\ t \in snapshot'.users[snapshot'.tokens[t].user]
               /\ t \in snapshot'.sessions[snapshot'.tokens[t].session]
  BY SoundStays DEF RestartInv
<1> QED
  BY <1>1 DEF RestartInv, KeysOK, Sound, Owns

\* A snapshot taken of sound keys is sound.
LEMMA SaveKeeps ==
  ASSUME RestartInv, Save
  PROVE  RestartInv'
<1>1. /\ snapshot'.tokens = tokens /\ snapshot'.users = userTokens
      /\ snapshot'.sessions = sessionTokens /\ UNCHANGED vars
  BY DEF Save, Stored
<1>2. ServiceInv'
  BY <1>1, UntouchedInv DEF RestartInv
<1>3. UNCHANGED <<tokens, userTokens, sessionTokens, sessions>>
  BY <1>1 DEF vars
<1>4. /\ snapshot'.tokens = tokens' /\ snapshot'.users = userTokens'
      /\ snapshot'.sessions = sessionTokens'
  BY <1>1, <1>3
<1>5. KeysOK(snapshot.tokens, snapshot.users, snapshot.sessions)'
  BY <1>1 DEF RestartInv, ServiceInv, TypeInv, TypeOK, StoreTypeOK, KeysOK
<1>6. Sound(snapshot.tokens, snapshot.users, snapshot.sessions)'
  BY <1>2, <1>4 DEF ServiceInv, Sound
<1> QED
  BY <1>2, <1>5, <1>6 DEF RestartInv

\* Going back to a sound snapshot leaves sound keys.
LEMMA RestartKeeps ==
  ASSUME RestartInv, Restart
  PROVE  RestartInv'
<1>1. /\ tokens' = snapshot.tokens /\ userTokens' = snapshot.users
      /\ sessionTokens' = snapshot.sessions
      /\ UNCHANGED <<issued, lapsed, sessions, req, audit, delivered, snapshot>>
  BY DEF Restart
<1>2. TypeInv'
  BY <1>1 DEF RestartInv, ServiceInv, TypeInv, TypeOK, StoreTypeOK, SessionsTypeOK,
              KeysOK, Shape
<1>3. OwnersStay
  BY <1>1 DEF OwnersStay
<1>4. \A h \in Handler : KnowsOwner(h)'
  BY <1>1, <1>3, KnowsOwnerStays DEF RestartInv
<1>5. Sound(tokens, userTokens, sessionTokens)'
  BY <1>1 DEF RestartInv, Sound, Owns
<1>6. /\ KeysOK(snapshot.tokens, snapshot.users, snapshot.sessions)'
      /\ Sound(snapshot.tokens, snapshot.users, snapshot.sessions)'
  BY <1>1, <1>3, SnapshotStays
<1> QED
  BY <1>2, <1>4, <1>5, <1>6 DEF RestartInv, ServiceInv

\* The inductive invariant of the service over a Redis that loses writes.
LEMMA RestartInvHolds == RestartSpec => []RestartInv
<1>1. RestartInv /\ [RestartNext]_<<vars, restartVars>> => RestartInv'
  <2> SUFFICES ASSUME RestartInv, [RestartNext]_<<vars, restartVars>>
               PROVE  RestartInv'
    OBVIOUS
  <2>1. CASE Next /\ UNCHANGED restartVars
    <3>1. ServiceInv' /\ OwnersStay
      BY <2>1, NextKeeps DEF RestartInv
    <3> QED
      BY <2>1, <3>1, SnapshotStays DEF RestartInv, restartVars
  <2>2. CASE Save
    BY <2>2, SaveKeeps
  <2>3. CASE Restart
    BY <2>3, RestartKeeps
  <2>4. CASE UNCHANGED <<vars, restartVars>>
    <3>1. ServiceInv' /\ OwnersStay
      BY <2>4, UntouchedInv DEF RestartInv, OwnersStay, vars
    <3> QED
      BY <2>4, <3>1, SnapshotStays DEF RestartInv, restartVars
  <2> QED
    BY <2>1, <2>2, <2>3, <2>4 DEF RestartNext
<1> QED
  BY RestartInitInv, <1>1, PTL DEF RestartSpec

\* Whatever Redis lost, its records belong to sessions PostgreSQL has, of the
\* same user.
THEOREM OwnedAfterRestart == RestartSpec => []TokenOwned
<1>1. RestartInv => TokenOwned
  BY DEF RestartInv, ServiceInv, Sound, Owns, TokenOwned
<1> QED
  BY <1>1, RestartInvHolds, PTL

\* Whatever Redis lost, a token that can be used can be found and revoked.
THEOREM LiveTokensAreIndexed == RestartSpec => []LiveIndexed
<1>1. RestartInv => LiveIndexed
  BY DEF RestartInv, ServiceInv, Sound, Live, LiveIndexed
<1> QED
  BY <1>1, RestartInvHolds, PTL

-----------------------------------------------------------------------------
(* One request at a time and crashes between requests only: sessions do    *)
(* not fork.  In the keys, now and as saved, no session has two ACTIVE     *)
(* tokens (OneActive); a rotation under way is about the only one, and     *)
(* where a token is about to be stored there is none (Sole).               *)

OneAtATime == \A g, h \in Handler : g = h

Active(T, t) == T[t] # None /\ T[t].status = "ACTIVE"

OneActive(T) ==
  \A t, n \in Token :
    Active(T, t) /\ Active(T, n) /\ T[t].session = T[n].session => t = n

Sole(h) ==
  LET r == req[h]
  IN  /\ r.op = "refresh" /\ r.pc \in {"updateGet", "updateSet"} =>
           \A t \in Token :
             Active(tokens, t) /\ tokens[t].session = r.session => t = r.cur
      /\ r.pc = "createToken" =>
           \A t \in Token : Active(tokens, t) => tokens[t].session # r.session

Unforked == OneActive(tokens) /\ \A h \in Handler : Sole(h)

ForkInv ==
  /\ RestartInv
  /\ ~disturbed => Unforked /\ OneActive(snapshot.tokens)

\* No token comes into use, and those in use stay in their session.
Withdrawing ==
  \A t \in Token :
    Active(tokens', t) => Active(tokens, t) /\ tokens'[t].session = tokens[t].session

-----------------------------------------------------------------------------
\* What takes tokens out of use only leaves no session with two.
LEMMA WithdrawingKeeps ==
  ASSUME OneActive(tokens), Withdrawing
  PROVE  OneActive(tokens')
BY DEF OneActive, Withdrawing

\* A request that is no rotation under way needs nothing.
LEMMA UnawareSole ==
  ASSUME NEW h \in Handler, Unaware(req'[h])
  PROVE  Sole(h)'
BY DEF Unaware, Sole

\* A rotation that stays what it was keeps what it needs.
LEMMA SoleStays ==
  ASSUME NEW h \in Handler, Sole(h), Withdrawing,
         LET r == req[h]
             q == req'[h]
         IN  /\ q.op = r.op /\ q.session = r.session /\ q.cur = r.cur
             /\ q.pc \in {"updateGet", "updateSet"} => r.pc \in {"updateGet", "updateSet"}
             /\ q.pc = "createToken" => r.pc = "createToken"
  PROVE  Sole(h)'
BY DEF Sole, Withdrawing

\* Steps that write no ACTIVE record.
LEMMA ReadersUnforked ==
  ASSUME ServiceInv, Unforked, OneAtATime, NEW h \in Handler,
         QuietStep(h) \/ RefreshAccepted(h) \/ UpdateGet(h) \/ TouchSession(h)
  PROVE  Unforked'
<1> DEFINE r == req[h]
           q == req'[h]
<1> USE DEF At
<1>0. /\ TypeInv /\ r \in Request /\ Shape(r) /\ Sole(h)
      /\ \A p : Become(h, p) => q = p
  BY BecomeActs DEF ServiceInv, TypeInv, TypeOK, Unforked
<1>1. UNCHANGED tokens
  BY QuietWrites DEF RefreshAccepted, UpdateGet, TouchSession, Proceed, storeVars
<1>2. Withdrawing
  BY <1>1 DEF Withdrawing
<1>3. Sole(h)'
  <2>1. CASE QuietStep(h)
    BY <1>0, <2>1, QuietAfter, UnawareSole
  <2>2. CASE RefreshAccepted(h)
    <3>1. /\ Identified(h) \in Request /\ Identified(h).op = "refresh"
          /\ Identified(h).session = Presented(h).session
          /\ r.token \in Token /\ Usable(r.token)
      BY <1>0, <2>2, IdentifiedType
      DEF RefreshAccepted, LookingUp, Usable, Live, Presented, Identified, Request
    <3>2. q = [Identified(h) EXCEPT !.pc = "updateGet", !.cur = r.token]
      BY <1>0, <2>2 DEF RefreshAccepted, Proceed
    <3>3. /\ q.op = "refresh" /\ q.pc = "updateGet" /\ q.cur = r.token
          /\ q.session = tokens[r.token].session
      BY <3>1, <3>2 DEF Request, Presented
    <3> QED
      BY <1>1, <3>1, <3>3 DEF Sole, Unforked, OneActive, Active, Usable, Live
  <2>3. CASE UpdateGet(h)
    <3> DEFINE rec == [tokens[r.cur] EXCEPT !.status = NewStatus(r)]
    <3>1. q = [r EXCEPT !.pc = "updateSet", !.rec = rec] /\ r.pc = "updateGet"
      BY <1>0, <2>3 DEF UpdateGet, Proceed
    <3> HIDE DEF rec
    <3>2. /\ q.op = r.op /\ q.pc = "updateSet" /\ q.session = r.session
          /\ q.cur = r.cur
      BY <1>0, <3>1 DEF Request
    <3> QED
      BY <1>0, <1>2, <3>1, <3>2, SoleStays
  <2>4. CASE TouchSession(h)
    <3>1. q = [r EXCEPT !.pc = "finish"]
      BY <1>0, <2>4 DEF TouchSession, Proceed
    <3>2. q.pc = "finish"
      BY <1>0, <3>1 DEF Request
    <3> QED
      BY <3>2 DEF Sole
  <2> QED
    BY <2>1, <2>2, <2>3, <2>4
<1> QED
  BY <1>2, <1>3, WithdrawingKeeps DEF Unforked, OneAtATime

\* UpdateStatus writes a record that is not ACTIVE: the token a rotation is
\* about is out of use when its successor is to be stored.
LEMMA UpdateUnforked ==
  ASSUME ServiceInv, Unforked, OneAtATime, NEW h \in Handler,
         UpdateSet(h) \/ UpdateResent(h)
  PROVE  Unforked'
<1> DEFINE r == req[h]
           q == req'[h]
<1>0. /\ TypeInv /\ r \in Request /\ Shape(r) /\ Sole(h) /\ KnowsOwner(h)
      /\ tokens \in [Token -> TokenRecord \cup {None}]
      /\ r.pc = "updateSet" /\ Set(r.cur, r.rec)
      /\ \A p : Become(h, p) => q = p
  BY BecomeActs
  DEF ServiceInv, TypeInv, TypeOK, StoreTypeOK, Unforked, UpdateSet, UpdateResent, At
<1>1. r.cur \in Token /\ r.rec.status # "ACTIVE"
      /\ tokens' = [tokens EXCEPT ![r.cur] = r.rec]
  BY <1>0 DEF Shape, KnowsOwner, Set
<1>2. \A t \in Token : tokens'[t] = IF t = r.cur THEN r.rec ELSE tokens[t]
  BY <1>0, <1>1
<1>3. Withdrawing /\ ~Active(tokens', r.cur)
  BY <1>1, <1>2 DEF Withdrawing, Active
<1>4. Sole(h)'
  <2>1. CASE UpdateResent(h)
    <3>1. q = r
      BY <2>1 DEF UpdateResent
    <3> QED
      BY <1>0, <1>3, <3>1, SoleStays
  <2>2. CASE UpdateSet(h)
    <3>1. q = [r EXCEPT !.pc = AfterUpdate(r), !.cur = None, !.rec = None]
      BY <1>0, <2>2 DEF UpdateSet
    <3>2. q.pc = AfterUpdate(r) /\ q.op = r.op /\ q.session = r.session
      BY <1>0, <3>1 DEF Request
    <3>3. /\ AfterUpdate(r) \notin {"updateGet", "updateSet"}
          /\ AfterUpdate(r) = "createToken" => r.op = "refresh"
      BY DEF AfterUpdate
    <3> QED
      BY <1>0, <1>3, <3>2, <3>3 DEF Sole, Withdrawing
  <2> QED
    BY <2>1, <2>2
<1> QED
  BY <1>3, <1>4, WithdrawingKeeps DEF Unforked, OneAtATime

\* A new session has no token, and the first or next one is its only ACTIVE one.
LEMMA CreateUnforked ==
  ASSUME ServiceInv, Unforked, OneAtATime, NEW h \in Handler,
         InsertSession(h) \/ CreateToken(h)
  PROVE  Unforked'
<1> DEFINE r == req[h]
           q == req'[h]
<1>0. /\ TypeInv /\ r \in Request /\ Shape(r) /\ Sole(h)
      /\ tokens \in [Token -> TokenRecord \cup {None}]
      /\ Sound(tokens, userTokens, sessionTokens)
      /\ \A p : Become(h, p) => q = p
  BY BecomeActs DEF ServiceInv, TypeInv, TypeOK, StoreTypeOK, Unforked
<1>1. CASE InsertSession(h)
  <2>1. PICK s \in Session : /\ sessions[s] = None
                             /\ q = [r EXCEPT !.pc = "createToken", !.session = s]
    BY <1>0, <1>1 DEF InsertSession, Insert
  <2>2. q.pc = "createToken" /\ q.session = s
    BY <1>0, <2>1 DEF Request
  <2>3. UNCHANGED tokens
    BY <1>1 DEF InsertSession, storeVars
  <2>4. \A t \in Token : tokens[t] # None => tokens[t].session # s
    BY <1>0, <2>1 DEF Sound, Owns
  <2>5. Sole(h)'
    BY <2>2, <2>3, <2>4 DEF Sole, Active
  <2> QED
    BY <2>3, <2>5 DEF Unforked, OneActive, Active, OneAtATime
<1>2. CASE CreateToken(h)
  <2> DEFINE t0 == issued + 1
  <2>1. /\ q = [r EXCEPT !.pc = IF r.op = "login" THEN "finish" ELSE "touchSession",
                         !.cur = t0]
        /\ r.pc = "createToken"
        /\ tokens' = [tokens EXCEPT ![t0] = [user |-> r.user, session |-> r.session,
                                              status |-> "ACTIVE"]]
    BY <1>0, <1>2 DEF CreateToken, Create, At
  <2>2. q.pc \in {"finish", "touchSession"}
    BY <1>0, <2>1 DEF Request
  <2> HIDE DEF t0
  <2>3. \A t \in Token :
          tokens'[t] = IF t = t0 THEN [user |-> r.user, session |-> r.session,
                                       status |-> "ACTIVE"]
                                 ELSE tokens[t]
    BY <1>0, <2>1
  <2>4. \A t \in Token : Active(tokens, t) => tokens[t].session # r.session
    BY <1>0, <2>1 DEF Sole
  <2>5. OneActive(tokens')
    <3>1. \A t \in Token : Active(tokens', t) =>
            \/ t = t0 /\ tokens'[t].session = r.session
            \/ /\ t # t0 /\ Active(tokens, t)
               /\ tokens'[t].session = tokens[t].session
      BY <2>3 DEF Active
    <3> QED
      BY <2>4, <3>1 DEF OneActive, Unforked
  <2>6. Sole(h)'
    BY <2>2 DEF Sole
  <2> QED
    BY <2>5, <2>6 DEF Unforked, OneAtATime
<1> QED
  BY <1>1, <1>2

\* No step of the service gives a session a second ACTIVE token.
LEMMA NextUnforked ==
  ASSUME ServiceInv, Unforked, OneAtATime, [Next]_vars
  PROVE  Unforked'
<1>1. ASSUME NEW h \in Handler, Arrive(h) \/ Serve(h) \/ UpdateResent(h) \/ Abort(h)
      PROVE  Unforked'
  BY <1>1, ReadersUnforked, UpdateUnforked, CreateUnforked DEF Serve, QuietStep
<1>2. ASSUME UNCHANGED req, Withdrawing PROVE Unforked'
  BY <1>2, SoleStays, WithdrawingKeeps DEF Unforked
<1>3. CASE Tick
  <2>1. \A t \in Token : tokens'[t] # None => tokens'[t] = tokens[t]
    BY <1>3 DEF Tick, Lapse, Expire, ServiceInv, TypeInv, TypeOK, StoreTypeOK
  <2> QED
    BY <1>2, <1>3, <2>1 DEF Tick, Withdrawing, Active
<1>4. CASE UNCHANGED vars
  BY <1>2, <1>4 DEF vars, Withdrawing, Active
<1> QED
  BY <1>1, <1>3, <1>4 DEF Next

\* Neither does a snapshot that is saved or gone back to between requests.
LEMMA ForkInvStays ==
  ASSUME OneAtATime, ForkInv, RestartInv', [RestartNext]_<<vars, restartVars>>
  PROVE  ForkInv'
<1> SUFFICES ASSUME ~disturbed' PROVE Unforked' /\ OneActive(snapshot'.tokens)
  BY DEF ForkInv
<1>1. ~disturbed /\ Unforked /\ OneActive(snapshot.tokens) /\ ServiceInv
  <2>1. disturbed' = disturbed \/ Restart
    BY DEF RestartNext, Save, restartVars
  <2>2. Restart => (disturbed => disturbed')
    BY Zenon DEF Restart
  <2>3. ~disturbed
    BY <2>1, <2>2
  <2> QED
    BY <2>3 DEF ForkInv, RestartInv
<1>2. CASE Next /\ UNCHANGED restartVars
  BY <1>1, <1>2, NextUnforked DEF restartVars
<1>3. CASE Save
  <2>1. UNCHANGED vars /\ snapshot'.tokens = tokens
    BY <1>3 DEF Save, Stored
  <2> QED
    BY <1>1, <2>1, NextUnforked DEF Unforked
<1>4. CASE Restart
  <2>1. /\ tokens' = snapshot.tokens /\ UNCHANGED <<req, snapshot>>
        /\ \A h \in Handler : req[h] = Idle
    BY <1>4 DEF Restart
  <2>2. \A h \in Handler : Sole(h)'
    BY <2>1, IdleUnaware, UnawareSole
  <2> QED
    BY <1>1, <2>1, <2>2 DEF Unforked
<1>5. CASE UNCHANGED <<vars, restartVars>>
  BY <1>1, <1>5, NextUnforked DEF restartVars
<1> QED
  BY <1>2, <1>3, <1>4, <1>5 DEF RestartNext

\* A session does not fork when requests come one at a time and Redis crashes
\* between them only: whichever snapshot it goes back to, and wherever a
\* request was cut short, the session has one usable token at most.
THEOREM SessionsDoNotFork ==
  ASSUME OneAtATime
  PROVE  RestartSpec => []NoFork
<1>1. RestartInit => ForkInv
  <2> SUFFICES ASSUME RestartInit PROVE ForkInv
    OBVIOUS
  <2>1. \A t \in Token : tokens[t] = None
    BY DEF RestartInit, Init, StoreInit
  <2>2. \A h \in Handler : Sole(h)
    BY <2>1 DEF Sole, Active
  <2> QED
    BY <2>1, <2>2, RestartInitInv
    DEF RestartInit, ForkInv, Unforked, OneActive, Active, Stored
<1>2. ForkInv /\ RestartInv' /\ [RestartNext]_<<vars, restartVars>> => ForkInv'
  BY ForkInvStays
<1>3. ForkInv => NoFork
  BY DEF ForkInv, Unforked, OneActive, Active, NoFork, OneUsablePerSession, Usable, Live
<1> QED
  BY <1>1, <1>2, <1>3, RestartInvHolds, PTL DEF RestartSpec
=============================================================================
