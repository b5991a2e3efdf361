---------------------------- MODULE AuthService -----------------------------
(***************************************************************************)
(* AuthService (internal/service/auth_service.go): login, refresh-token    *)
(* rotation with reuse detection, logout, logout-all and session           *)
(* revocation, run by any number of concurrent request handlers.           *)
(*                                                                         *)
(* The application instances keep no state of their own, so a handler of   *)
(* app-1 and one of app-2 differ in nothing: "Handler" is the pool of      *)
(* request goroutines of all instances.  A step of a handler is one call   *)
(* to Redis or PostgreSQL together with the local code up to the next one; *)
(* req[h].pc names the call the handler is about to make.                  *)
(***************************************************************************)
EXTENDS RefreshTokenRepository, SessionRepository

CONSTANTS
  Handler,      \* request goroutines, of all application instances
  AuditEvents   \* the event types the model keeps of table audit_logs

Operation == {"none", "login", "refresh", "reuse", "rejected", "logout",
              "logoutAll", "revokeSession"}

Call == {"idle", "insertSession", "createToken", "findToken", "findSession",
         "listTokens", "revokeNext", "updateGet", "updateSet", "touchSession",
         "endSession", "finish"}

AuditRow == [event : AuditEvents, user : User \cup {None},
             session : Session \cup {None}]

\* The state of one handler.  "since" is not in the code: it is the number of
\* tokens that had been generated when the request read the index.
Request ==
  [pc : Call, op : Operation, user : User \cup {None},
   session : Session \cup {None},
   token : Token \cup {None},          \* the refresh_token cookie
   todo : SUBSET Token,                \* rest of a Revoke... loop
   cur : Token \cup {None},            \* key being updated, or new token
   rec : TokenRecord \cup {None},      \* what UpdateStatus is to write under cur
   since : 0..MaxTokens]

Idle == [pc |-> "idle", op |-> "none", user |-> None, session |-> None,
         token |-> None, todo |-> {}, cur |-> None, rec |-> None, since |-> 0]

VARIABLES
  req,        \* handler -> the request it serves
  audit,      \* rows of audit_logs (as a set)
  delivered   \* tokens that reached the client, with an access token

vars == <<tokens, userTokens, sessionTokens, issued, lapsed, sessions, req,
          audit, delivered>>

\* The types of the stores and of what the handlers hold: no record is ever
\* written with a user or session its request has not found out.
TypeOK ==
  /\ StoreTypeOK
  /\ SessionsTypeOK
  /\ req \in [Handler -> Request]
  /\ audit \subseteq AuditRow
  /\ delivered \subseteq Token

Init ==
  /\ StoreInit
  /\ SessionsInit
  /\ req = [h \in Handler |-> Idle]
  /\ audit = {}
  /\ delivered = {}

\* Handler h now serves r; nothing outside the handler changes.
Become(h, r) == req' = [req EXCEPT ![h] = r]

At(h, call) == req[h].pc = call

\* A step that only reads the stores.
Proceed(h, r) ==
  /\ Become(h, r)
  /\ UNCHANGED <<storeVars, sessions, audit, delivered>>

-----------------------------------------------------------------------------
(* A request arrives at an idle handler.                                   *)

Begin(h, r) ==
  /\ req[h] = Idle
  /\ Proceed(h, r)

\* Login for a user whose email and password have just been verified.
BeginLogin(h, u) ==
  Begin(h, [Idle EXCEPT !.pc = "insertSession", !.op = "login", !.user = u])

BeginRefresh(h, t) ==
  /\ t \in delivered
  /\ Begin(h, [Idle EXCEPT !.pc = "findToken", !.op = "refresh", !.token = t])

BeginLogout(h, t) ==
  /\ t \in delivered
  /\ Begin(h, [Idle EXCEPT !.pc = "findToken", !.op = "logout", !.token = t])

\* Logout without a cookie: answered at once.
BeginLogoutNoCookie(h) ==
  Begin(h, [Idle EXCEPT !.pc = "finish", !.op = "logout"])

\* A user who was ever given an access token.  It verifies for a quarter of an
\* hour and nothing revokes it; how long that is makes no difference here.
Authenticated(u) == delivered \cap userTokens[u] # {}

\* The two operations behind RequireAuth: u is the subject of the access token.
BeginLogoutAll(h, u) ==
  /\ Authenticated(u)
  /\ Begin(h, [Idle EXCEPT !.pc = "listTokens", !.op = "logoutAll", !.user = u])

BeginRevokeSession(h, u, s) ==
  /\ Authenticated(u)
  /\ Begin(h, [Idle EXCEPT !.pc = "findSession", !.op = "revokeSession",
                           !.user = u, !.session = s])

-----------------------------------------------------------------------------
(* Login.                                                                  *)

InsertSession(h) ==
  /\ At(h, "insertSession")
  /\ \E s \in Session :
       /\ Insert(s, req[h].user)
       /\ Become(h, [req[h] EXCEPT !.pc = "createToken", !.session = s])
  /\ UNCHANGED <<storeVars, audit, delivered>>

\* The last store write of a login, the one before last of a refresh.
CreateToken(h) ==
  /\ At(h, "createToken")
  /\ Create(req[h].user, req[h].session)
  /\ Become(h, [req[h] EXCEPT
                  !.pc = IF req[h].op = "login" THEN "finish" ELSE "touchSession",
                  !.cur = issued + 1])
  /\ UNCHANGED <<sessions, audit, delivered>>

-----------------------------------------------------------------------------
(* Refresh and logout look the presented token up and act on the record    *)
(* they got, not on what the key holds later.                              *)

LookingUp(h, op) == At(h, "findToken") /\ req[h].op = op

Presented(h) == tokens[req[h].token]

\* A slip: the successor token gets no session.
IdentifiedByUser(h) == [req[h] EXCEPT !.user = Presented(h).user]

\* The request knows its user and session from the record.
Identified(h) ==
  [req[h] EXCEPT !.user = Presented(h).user, !.session = Presented(h).session]

RefreshUnknown(h) ==
  /\ LookingUp(h, "refresh")
  /\ Presented(h) = None
  /\ Proceed(h, [req[h] EXCEPT !.op = "rejected", !.pc = "finish"])

\* Reuse detection: every token and session of the user is to be revoked.
RefreshReused(h) ==
  /\ LookingUp(h, "refresh")
  /\ Presented(h) # None
  /\ Presented(h).status = "USED"
  /\ Proceed(h, [Identified(h) EXCEPT !.op = "reuse", !.pc = "listTokens",
                                          !.token = None])

RefreshRefused(h) ==
  /\ LookingUp(h, "refresh")
  /\ Presented(h) # None
  /\ Presented(h).status # "USED"
  /\ ~Usable(req[h].token)
  /\ Proceed(h, [Identified(h) EXCEPT !.op = "rejected", !.pc = "finish"])

\* A slip: the presented token is not marked USED.
RefreshAcceptedUnmarked(h) ==
  /\ LookingUp(h, "refresh")
  /\ Usable(req[h].token)
  /\ Proceed(h, [Identified(h) EXCEPT !.pc = "createToken"])

RefreshAccepted(h) ==
  /\ LookingUp(h, "refresh")
  /\ Usable(req[h].token)
  /\ Proceed(h, [Identified(h) EXCEPT !.pc = "updateGet", !.cur = req[h].token])

\* An unknown token is no error here: it leaves user and session unset.
LogoutFind(h) ==
  /\ LookingUp(h, "logout")
  /\ Proceed(h, [(IF Presented(h) = None THEN req[h] ELSE Identified(h))
                   EXCEPT !.pc = "updateGet", !.cur = req[h].token])

-----------------------------------------------------------------------------
(* UpdateStatus: GET the record, compute the ttl, SET it back.             *)

NewStatus(r) == IF r.op = "refresh" THEN "USED" ELSE "REVOKED"

\* The call its caller makes next.
AfterUpdate(r) ==
  CASE r.op = "refresh" -> "createToken"
    [] r.op = "logout"  -> IF r.session = None THEN "finish" ELSE "endSession"
    [] OTHER            -> "revokeNext"

UpdateGet(h) ==
  /\ At(h, "updateGet")
  /\ tokens[req[h].cur] # None
  /\ ~Expired(req[h].cur)
  /\ Proceed(h, [req[h] EXCEPT
                  !.pc = "updateSet",
                  !.rec = [tokens[req[h].cur] EXCEPT !.status = NewStatus(req[h])]])

\* ErrRefreshTokenNotFound: refresh answers 401, the others carry on.
UpdateMissing(h) ==
  /\ At(h, "updateGet")
  /\ tokens[req[h].cur] = None \/ Expired(req[h].cur)
  /\ Proceed(h, IF req[h].op = "refresh"
               THEN Idle
               ELSE [req[h] EXCEPT !.pc = AfterUpdate(req[h]), !.cur = None])

UpdateSet(h) ==
  /\ At(h, "updateSet")
  /\ Set(req[h].cur, req[h].rec)
  /\ Become(h, [req[h] EXCEPT !.pc = AfterUpdate(req[h]), !.cur = None,
                              !.rec = None])
  /\ UNCHANGED <<sessions, audit, delivered>>

\* The Redis client sends a command again when its answer does not arrive in
\* time, although the command may have been executed.  (A pipeline whose
\* answer is lost is not sent again.)
UpdateResent(h) ==
  /\ At(h, "updateSet")
  /\ Set(req[h].cur, req[h].rec)
  /\ UNCHANGED <<sessions, req, audit, delivered>>

\* UpdateLastUsedAt, the end of a refresh: when it fails, the successor is
\* stored and the client never gets it.
TouchSession(h) ==
  /\ At(h, "touchSession")
  /\ Proceed(h, [req[h] EXCEPT !.pc = "finish"])

\* The end of a logout whose token was found.
EndSession(h) ==
  /\ At(h, "endSession")
  /\ RevokeById(req[h].session)
  /\ Become(h, [req[h] EXCEPT !.pc = "finish"])
  /\ UNCHANGED <<storeVars, audit, delivered>>

-----------------------------------------------------------------------------
(* Logout-all, reuse detection and session revocation: RevokeAllByUser or  *)
(* RevokeAllBySession, then the session rows.                              *)

\* A slip: the owner of the session is not compared.
FindSessionOfAnyone(h) ==
  /\ At(h, "findSession")
  /\ Proceed(h, IF sessions[req[h].session] # None
               THEN [req[h] EXCEPT !.pc = "listTokens"]
               ELSE Idle)

\* A session that does not exist, or is another user's, ends the request.
FindSession(h) ==
  /\ At(h, "findSession")
  /\ Proceed(h, IF /\ sessions[req[h].session] # None
                  /\ sessions[req[h].session].user = req[h].user
               THEN [req[h] EXCEPT !.pc = "listTokens"]
               ELSE Idle)

\* SMEMBERS of the index.
ListTokens(h) ==
  /\ At(h, "listTokens")
  /\ Proceed(h, [req[h] EXCEPT
                  !.pc = "revokeNext",
                  !.since = issued,
                  !.todo = IF req[h].op = "revokeSession"
                           THEN sessionTokens[req[h].session]
                           ELSE userTokens[req[h].user]])

\* A slip: ACTIVE is missing from the condition.
RevokeNextUsedOnly(h) ==
  /\ At(h, "revokeNext")
  /\ \E t \in req[h].todo :
       LET rest == [req[h] EXCEPT !.todo = @ \ {t}]
           hit  == tokens[t] # None /\ tokens[t].status = "USED"
       IN  Become(h, IF hit THEN [rest EXCEPT !.pc = "updateGet", !.cur = t]
                            ELSE rest)
  /\ UNCHANGED <<storeVars, sessions, audit, delivered>>

\* A slip: a token that was updated stays in the list.
RevokeNextAgain(h) ==
  /\ At(h, "revokeNext")
  /\ \E t \in req[h].todo :
       Become(h, IF tokens[t] # None
                 THEN [req[h] EXCEPT !.pc = "updateGet", !.cur = t]
                 ELSE [req[h] EXCEPT !.todo = @ \ {t}])
  /\ UNCHANGED <<storeVars, sessions, audit, delivered>>

\* One round of the loop, up to UpdateStatus: a token whose key is gone or
\* already REVOKED is skipped.
RevokeNext(h) ==
  /\ At(h, "revokeNext")
  /\ \E t \in req[h].todo :
       LET rest == [req[h] EXCEPT !.todo = @ \ {t}]
           hit  == tokens[t] # None /\ tokens[t].status \in {"ACTIVE", "USED"}
       IN  Become(h, IF hit THEN [rest EXCEPT !.pc = "updateGet", !.cur = t]
                            ELSE rest)
  /\ UNCHANGED <<storeVars, sessions, audit, delivered>>

\* A slip: the session rows are forgotten.
RevokeTokensOnly(h) ==
  /\ At(h, "revokeNext")
  /\ req[h].todo = {}
  /\ Proceed(h, [req[h] EXCEPT !.pc = "finish"])

\* The loop is over: the session rows follow.
RevokeSessions(h) ==
  /\ At(h, "revokeNext")
  /\ req[h].todo = {}
  /\ IF req[h].op = "revokeSession" THEN RevokeById(req[h].session)
                                    ELSE RevokeByUser(req[h].user)
  /\ Become(h, [req[h] EXCEPT !.pc = "finish"])
  /\ UNCHANGED <<storeVars, audit, delivered>>

-----------------------------------------------------------------------------
(* The response.                                                           *)

Event(op) ==
  CASE op = "login"     -> "login_success"
    [] op = "refresh"   -> "refresh_success"
    [] op = "rejected"  -> "refresh_failure"
    [] op = "reuse"     -> "token_reuse_detected"
    [] op = "logout"    -> "logout"
    [] op = "logoutAll" -> "logout_all"
    [] OTHER            -> "no event"

Row(r) == [event |-> Event(r.op), user |-> r.user, session |-> r.session]

\* logAuthEvent: the row is written, or the failure is logged and swallowed.
LogAuthEvent(r) ==
  \/ UNCHANGED audit
  \/ /\ Event(r.op) \in AuditEvents
     /\ audit' = audit \cup {Row(r)}

\* The client receives the answer (the new cookie and access token), or the
\* connection is gone by then.
Respond(r) ==
  \/ UNCHANGED delivered
  \/ /\ r.op \in {"login", "refresh"}
     /\ delivered' = delivered \cup {r.cur}

Finish(h) ==
  /\ At(h, "finish")
  /\ LogAuthEvent(req[h])
  /\ Respond(req[h])
  /\ Become(h, Idle)
  /\ UNCHANGED <<storeVars, sessions>>

\* A slip: a refresh that fails to store the successor puts its token back.
AbortRestoring(h) ==
  /\ req[h] # Idle
  /\ IF At(h, "createToken") /\ req[h].op = "refresh"
     THEN Set(req[h].token, [user |-> req[h].user, session |-> req[h].session,
                             status |-> "ACTIVE"])
     ELSE UNCHANGED storeVars
  /\ Become(h, Idle)
  /\ UNCHANGED <<sessions, audit, delivered>>

\* The request ends before its next call: the previous call returned an error
\* (whether or not it took effect), the request's context is over, or the
\* instance died.  Nothing is undone.
Abort(h) ==
  /\ req[h] # Idle
  /\ Proceed(h, Idle)

-----------------------------------------------------------------------------
(* Time: tokens pass their ExpiresAt, Redis drops their keys.              *)

Tick ==
  /\ \/ Lapse
     \/ \E t \in Token : Expire(t)
  /\ UNCHANGED <<sessions, req, audit, delivered>>

-----------------------------------------------------------------------------
Arrive(h) ==
  \/ \E u \in User : BeginLogin(h, u) \/ BeginLogoutAll(h, u)
  \/ \E t \in Token : BeginRefresh(h, t) \/ BeginLogout(h, t)
  \/ \E u \in User, s \in Session : BeginRevokeSession(h, u, s)
  \/ BeginLogoutNoCookie(h)

Serve(h) ==
  \/ InsertSession(h) \/ CreateToken(h)
  \/ RefreshUnknown(h) \/ RefreshReused(h)
  \/ RefreshRefused(h) \/ RefreshAccepted(h)
  \/ LogoutFind(h)
  \/ UpdateGet(h) \/ UpdateMissing(h) \/ UpdateSet(h)
  \/ TouchSession(h) \/ EndSession(h)
  \/ FindSession(h) \/ ListTokens(h) \/ RevokeNext(h) \/ RevokeSessions(h)
  \/ Finish(h)

Next ==
  \/ \E h \in Handler : Arrive(h) \/ Serve(h) \/ UpdateResent(h) \/ Abort(h)
  \/ Tick

Spec == Init /\ [][Next]_vars

(* Every call carries the request's context, which has a deadline, so a    *)
(* handler's next call completes or fails: no handler stays where it is.   *)
Fairness == \A h \in Handler : WF_vars(Serve(h) \/ Abort(h))

FairSpec == Spec /\ Fairness

-----------------------------------------------------------------------------
(* Safety.                                                                 *)

\* A stored token belongs to a session that exists and is the same user's:
\* revoking by session and revoking by user reach the same tokens.  The row
\* is in PostgreSQL, the token in Redis, written by different steps.
TokenOwned ==
  \A t \in Token :
    tokens[t] # None => /\ sessions[tokens[t].session] # None
                        /\ sessions[tokens[t].session].user = tokens[t].user

\* No stored token is missing from the indexes the Revoke... loops walk, even
\* after a SET that brought an expired key back.
TokensIndexed ==
  \A t \in Token :
    tokens[t] # None => /\ t \in userTokens[tokens[t].user]
                        /\ t \in sessionTokens[tokens[t].session]

\* The tokens that were stored when the request of h read the index.
Earlier(h) == 1..req[h].since

RevokedAll(h) ==
  /\ \A t \in Earlier(h) : ~(Usable(t) /\ tokens[t].user = req[h].user)
  /\ \A s \in Session :
       /\ sessions[s] # None
       /\ sessions[s].user = req[h].user
       /\ sessionTokens[s] \cap Earlier(h) # {}
       => sessions[s].status = "REVOKED"

RevokedSession(h) ==
  /\ \A t \in Earlier(h) : ~(Usable(t) /\ tokens[t].session = req[h].session)
  /\ sessions[req[h].session].status = "REVOKED"

LoggedOut(h) ==
  /\ req[h].token # None => ~Usable(req[h].token)
  /\ req[h].session # None => sessions[req[h].session].status = "REVOKED"

\* Whatever runs beside it, a revoking request that reaches its answer has put
\* out of use every token that was stored when it read the index (a logout: the
\* token it was given), and their sessions are REVOKED: neither the window
\* between GET and SET in UpdateStatus nor a rotation marking the same token
\* USED lets one of them through.
RevocationComplete ==
  \A h \in Handler :
    At(h, "finish") =>
      CASE req[h].op \in {"logoutAll", "reuse"} -> RevokedAll(h)
        [] req[h].op = "revokeSession"          -> RevokedSession(h)
        [] req[h].op = "logout"                 -> LoggedOut(h)
        [] OTHER                                -> TRUE

\* The old token is out of use before its successor exists, and for good:
\* RefreshAccessToken marks first and creates second.
RotationOrder ==
  \A h \in Handler :
    /\ req[h].op = "refresh"
    /\ req[h].pc \in {"createToken", "touchSession", "finish"}
    => ~Live(req[h].token)

\* A row of audit_logs tells what happened: the session of a successful login
\* exists and has a token, a successful refresh extended its session's chain,
\* and the session of a detected reuse or of a logout is REVOKED.
AuditTruthful ==
  \A row \in audit :
    /\ row.event \in {"login_success", "refresh_success"} =>
         /\ sessions[row.session] # None
         /\ sessions[row.session].user = row.user
    /\ row.event = "login_success" => sessionTokens[row.session] # {}
    /\ row.event = "refresh_success" =>
         \E t, n \in sessionTokens[row.session] : t < n /\ ~Live(t)
    /\ row.event \in {"token_reuse_detected", "logout"} /\ row.session # None =>
         sessions[row.session].status = "REVOKED"

\* A user's sessions and tokens change only while a request of that user runs:
\* the ids taken from cookies, paths and indexes never lead a handler to
\* another user's records.  (Expiry removes keys on its own.)
OwnRecordsOnly ==
  [][/\ \A s \in Session :
          sessions[s] # None /\ sessions'[s] # sessions[s] =>
            \E h \in Handler : req[h].user = sessions[s].user
     /\ \A t \in Token :
          tokens[t] # None /\ tokens'[t] \notin {tokens[t], None} =>
            \E h \in Handler : req[h].user = tokens[t].user]_vars

\* The promise of TokenLifecycle: the chain of a session is its index.
Lifecycle == INSTANCE TokenLifecycle
               WITH chain <- sessionTokens, usable <- {t \in Token : Usable(t)}
ImplementsLifecycle == Lifecycle!Spec

-----------------------------------------------------------------------------
(* With one request at a time.                                             *)

\* A session never has two usable tokens.
OneUsablePerSession ==
  \A t, n \in Token :
    Usable(t) /\ Usable(n) /\ tokens[t].session = tokens[n].session => t = n

-----------------------------------------------------------------------------
(* Liveness.                                                               *)

\* Every request ends: its loops are bounded by the index it read, which later
\* logins and refreshes do not extend.
RequestsEnd == \A h \in Handler : req[h] # Idle ~> req[h] = Idle

-----------------------------------------------------------------------------
(* What the documentation says and the code does not do.                   *)

\* auth_service.go:22: "refresh token reuse detected; all active sessions have
\* been revoked", and openapi.yaml:178, of logout-all: "All sessions revoked".
\* No token of a revoked session is usable when it is said.
RevokeAllIsFinal ==
  \A h \in Handler, t \in Token :
    At(h, "finish") /\ req[h].op \in {"reuse", "logoutAll"}
                   /\ Usable(t) /\ tokens[t].user = req[h].user =>
      sessions[tokens[t].session].status = "ACTIVE"
=============================================================================
