------------------------------- MODULE Browser ------------------------------
(***************************************************************************)
(* AuthService used by one browser: the refresh token is in its cookie     *)
(* jar, the access token in the localStorage of the page of                *)
(* docs/swagger-ui.  The page sends what its user clicks, also while       *)
(* earlier requests are under way; the network layer stores the cookie of  *)
(* an answer when its headers arrive, the page's script the access token   *)
(* when the body has been read, and answers arrive in any order or not at  *)
(* all.  Requests that concern neither (DELETE /auth/sessions/{id}, GET)   *)
(* are left out.                                                           *)
(*                                                                         *)
(* An access token is named by the refresh token it was issued with.       *)
(***************************************************************************)
EXTENDS AuthService

VARIABLES
  cookie,    \* the browser's refresh_token cookie, or None
  bearer,    \* the page's stored access token, or None
  fetch,     \* handler -> the page's view of the request it serves
  unsettled, \* history: tokens refreshed with, no new cookie received for them
  twice,     \* history: tokens refreshed with again while unsettled
  smooth     \* history: one request at a time so far, each answer read to its end

browserVars == <<cookie, bearer, fetch, unsettled, twice, smooth>>

\* stage: "waiting" for the answer; "answered", it is on its way; "received", its
\* headers have been.  sent: the cookie of a refresh.  got: the new tokens, or None
\* when the answer clears them.
NoFetch == [stage |-> "none", op |-> "none", sent |-> None, got |-> None]

BrowserInit ==
  /\ Init
  /\ cookie = None
  /\ bearer = None
  /\ fetch = [h \in Handler |-> NoFetch]
  /\ unsettled = {}
  /\ twice = {}
  /\ smooth = TRUE

Track(h, f) == fetch' = [fetch EXCEPT ![h] = f]

\* Nothing of this browser is under way, here or at the service.
Quiet == \A h \in Handler : fetch[h] = NoFetch /\ req[h] = Idle

-----------------------------------------------------------------------------
(* The page sends a request; the network layer adds the cookie.            *)

Sends(h) ==
  /\ fetch[h] = NoFetch
  /\ smooth' = (smooth /\ Quiet)
  /\ UNCHANGED <<cookie, bearer>>

SendPlain(h) ==
  /\ Sends(h)
  /\ Track(h, [NoFetch EXCEPT !.stage = "waiting"])
  /\ UNCHANGED <<unsettled, twice>>

SendRefresh(h) ==
  /\ cookie # None
  /\ BeginRefresh(h, cookie)
  /\ Sends(h)
  /\ Track(h, [NoFetch EXCEPT !.stage = "waiting", !.sent = cookie])
  /\ unsettled' = unsettled \cup {cookie}
  /\ twice' = twice \cup ({cookie} \cap unsettled)

SendLogout(h) ==
  /\ IF cookie = None THEN BeginLogoutNoCookie(h) ELSE BeginLogout(h, cookie)
  /\ SendPlain(h)

\* requestInterceptor adds the access token; u is its subject.
SendLogoutAll(h) ==
  /\ bearer # None
  /\ \E u \in User : bearer \in userTokens[u] /\ BeginLogoutAll(h, u)
  /\ SendPlain(h)

Send(h) ==
  \/ \E u \in User : BeginLogin(h, u) /\ SendPlain(h)
  \/ SendRefresh(h)
  \/ SendLogout(h)
  \/ SendLogoutAll(h)

-----------------------------------------------------------------------------
(* The service works on a request; it may end with an answer.              *)

\* An answer the page has to act on: a success of one of the four operations
\* that set or clear the cookie.  (Errors carry none, and the page ignores them.)
Answered(h) ==
  /\ At(h, "finish")
  /\ req[h].op \in {"login", "refresh", "logout", "logoutAll"}
  /\ req[h].op \in {"login", "refresh"} => req[h].cur \in delivered'

\* The request of h has ended; an answer may get lost.
Reply(h) ==
  \/ /\ Answered(h)
     /\ Track(h, [fetch[h] EXCEPT !.stage = "answered", !.op = req[h].op,
                                  !.got = req[h].cur])
  \/ /\ delivered' = delivered
     /\ Track(h, NoFetch)

Work(h) ==
  /\ Serve(h) \/ UpdateResent(h) \/ Abort(h)
  /\ IF req'[h] = Idle THEN Reply(h) ELSE UNCHANGED fetch
  /\ UNCHANGED <<cookie, bearer, unsettled, twice, smooth>>

-----------------------------------------------------------------------------
(* The browser receives an answer.                                         *)

\* A slip: logout-all leaves the cookie.
CookieAfterLogoutOnly(f) ==
  IF f.op = "logoutAll" THEN cookie ELSE f.got

\* A slip: the cookie is set by a login only.
CookieOfLogin(f) ==
  IF f.op = "refresh" THEN cookie ELSE f.got

\* setRefreshTokenCookie with the new token, or clearRefreshTokenCookie.
CookieAfter(f) == f.got

ReceiveHeaders(h) ==
  /\ fetch[h].stage = "answered"
  /\ cookie' = CookieAfter(fetch[h])
  /\ unsettled' = IF fetch[h].op = "refresh" THEN unsettled \ {fetch[h].sent}
                                             ELSE unsettled
  /\ Track(h, [fetch[h] EXCEPT !.stage = "received"])
  /\ UNCHANGED <<vars, bearer, twice, smooth>>

\* storeAccessToken and clearAccessToken, called by responseInterceptor.
ReadBody(h) ==
  /\ fetch[h].stage = "received"
  /\ bearer' = fetch[h].got
  /\ Track(h, NoFetch)
  /\ UNCHANGED <<vars, cookie, unsettled, twice, smooth>>

\* The rest of the answer never comes, or the page is closed meanwhile.
LoseBody(h) ==
  /\ fetch[h].stage = "received"
  /\ Track(h, NoFetch)
  /\ smooth' = FALSE
  /\ UNCHANGED <<vars, cookie, bearer, unsettled, twice>>

\* Max-Age runs from the answer, so it is over at or after ExpiresAt.
DropCookie ==
  /\ cookie # None
  /\ Expired(cookie)
  /\ cookie' = None
  /\ UNCHANGED <<vars, bearer, fetch, unsettled, twice, smooth>>

BrowserNext ==
  \/ \E h \in Handler :
       Send(h) \/ Work(h) \/ ReceiveHeaders(h) \/ ReadBody(h) \/ LoseBody(h)
  \/ Tick /\ UNCHANGED browserVars
  \/ DropCookie

BrowserSpec == BrowserInit /\ [][BrowserNext]_<<vars, browserVars>>

-----------------------------------------------------------------------------
\* Reuse is detected only when the browser did send a token twice, and the
\* second time before the new cookie had come back for the first: a click too
\* early, or an answer that was lost.  An honest client is never locked out of
\* all its sessions for another reason, however its requests overlap.
NoFalseAlarm ==
  \A h \in Handler :
    req[h].op = "reuse" /\ fetch[h].stage = "waiting" =>
      fetch[h].sent \in twice

\* A page that does one thing at a time never ends up with the cookie of one
\* answer and the access token of another, nor logged out in one place and
\* logged in in the other, whatever failed on the way.
StoragesAgree ==
  smooth /\ Quiet =>
    bearer = cookie \/ (cookie = None /\ bearer # None /\ Expired(bearer))

\* To a browser that does one thing at a time REVOKED means over: no token it
\* ever received can revive a revoked session.  (With overlapping requests one
\* can: see RevokeAllIsFinal.)
RevokedForGood ==
  smooth =>
    \A t \in delivered :
      Usable(t) => sessions[tokens[t].session].status = "ACTIVE"
=============================================================================
