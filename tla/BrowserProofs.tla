---------------------------- MODULE BrowserProofs ---------------------------
(***************************************************************************)
(* The three properties of Browser, for any number of users, sessions,     *)
(* handlers and tokens.                                                    *)
(*                                                                         *)
(* A new token is carried by exactly one request, then by its answer, until*)
(* the browser has it (Carries); it becomes the cookie then or never, so a *)
(* token the browser has refreshed with never comes back as its cookie     *)
(* once the answer replaced it (Trace).  As long as the page does one      *)
(* thing at a time there is one busy handler at most, and what that one    *)
(* knows of the storages (Storages) and of its session (Revival) nobody    *)
(* else changes.                                                           *)
(***************************************************************************)
EXTENDS Browser, AuthServiceRevocation

Fetch == [stage : {"none", "waiting", "answered", "received"},
          op : Operation, sent : Token \cup {None}, got : Token \cup {None}]

BrowserTypeOK ==
  /\ cookie \in Token \cup {None}
  /\ bearer \in Token \cup {None}
  /\ fetch \in [Handler -> Fetch]
  /\ unsettled \subseteq Token
  /\ twice \subseteq Token
  /\ smooth \in BOOLEAN

\* The page waits for exactly the requests that are served, and none of them
\* revokes a single session.
Linked(h) ==
  LET r == req[h]
  IN  /\ fetch[h].stage = "waiting" <=> r # Idle
      /\ r.op # "revokeSession"
      /\ r.op = "refresh" => fetch[h].sent = r.token /\ r.token \in delivered
      /\ r.op \in {"logout", "logoutAll"} /\ r.pc \notin {"updateGet", "updateSet"} =>
           r.cur = None

-----------------------------------------------------------------------------
(* The ways of a token.                                                    *)

\* The request or the answer of h is bringing t to the browser.
Carries(h, t) ==
  \/ fetch[h].stage = "answered" /\ fetch[h].got = t
  \/ /\ req[h].op \in {"login", "refresh"}
     /\ req[h].pc \in {"touchSession", "finish"}
     /\ req[h].cur = t

\* t was generated and nobody brings it (any more).
Landed(t) == t \in 1..issued /\ \A h \in Handler : ~Carries(h, t)

Used(t) == tokens[t] # None /\ tokens[t].status = "USED"

\* A request of the page has presented t to be refreshed.
Touched(t) == Used(t) \/ \E h \in Handler : fetch[h].sent = t

Trace ==
  /\ \A t \in Token, g, h \in Handler : Carries(g, t) /\ Carries(h, t) => g = h
  /\ \A t \in Token, h \in Handler : Carries(h, t) => t \in 1..issued
  /\ cookie # None => Landed(cookie)
  /\ \A t \in Token : Touched(t) \/ t \in unsettled => Landed(t)
  /\ \A t \in Token : Touched(t) /\ cookie = t => t \in unsettled
  /\ \A t \in Token \ twice, g, h \in Handler :
       fetch[g].sent = t /\ fetch[h].sent = t => g = h

Alarm(h) ==
  LET r == req[h]
  IN  /\ r.op = "refresh" /\ r.pc = "findToken" /\ Used(r.token) => r.token \in twice
      /\ r.op = "reuse" => fetch[h].sent \in twice
      /\ r.op # "refresh" /\ r.pc = "updateSet" => r.rec.status # "USED"

-----------------------------------------------------------------------------
(* One thing at a time.                                                    *)

OneBusy == \A g, h \in Handler : fetch[g] # NoFetch /\ fetch[h] # NoFetch => g = h

Agrees(b) == cookie = b \/ (cookie = None /\ b # None /\ Expired(b))

Storages ==
  /\ \A h \in Handler : fetch[h].stage = "received" => Agrees(fetch[h].got)
  /\ (\A h \in Handler : fetch[h].stage # "received") => Agrees(bearer)

\* The browser has received no token of the session of c that is younger.
Newest(c) ==
  \A s \in Session :
    c \in sessionTokens[s] => \A t \in delivered \cap sessionTokens[s] : t <= c

\* Of the tokens of a session the youngest alone may be usable.
ChainOrder == \A s \in Session : \A t, n \in sessionTokens[s] : t < n => ~Live(t)

\* What the one busy handler knows of its session.
Revival(h) ==
  LET r == req[h]
  IN  /\ r.op = "refresh" /\ r.pc \in {"updateGet", "updateSet"} =>
           \A t \in sessionTokens[r.session] : Live(t) => t = r.cur
      /\ r.pc = "createToken" => \A t \in sessionTokens[r.session] : ~Live(t)
      /\ r.op \in {"login", "refresh"} /\ r.pc \notin {"insertSession", "findToken"} =>
           sessions[r.session].status = "ACTIVE"
      /\ r.op \in {"login", "refresh"} /\ r.pc \in {"touchSession", "finish"} =>
           r.cur = issued
      /\ Walking(r) => delivered \subseteq 1..r.since
      /\ r.op = "logout" /\ r.token # None => Newest(r.token)
      /\ r.op = "logout" /\ r.session # None => r.token \in sessionTokens[r.session]
      /\ fetch[h].stage = "answered" /\ fetch[h].got # None => Newest(fetch[h].got)

Smooth ==
  /\ OneBusy
  /\ Storages
  /\ ChainOrder
  /\ \A h \in Handler : Revival(h)
  /\ cookie # None /\ (\A h \in Handler : fetch[h].stage # "answered") => Newest(cookie)

BrowserInv ==
  /\ HistoryInv
  /\ BrowserTypeOK
  /\ \A h \in Handler : Linked(h) /\ Alarm(h)
  /\ Trace
  /\ smooth => Smooth /\ RevokedForGood
-----------------------------------------------------------------------------
(* What the steps are to the service.                                      *)

\* The browser's part of a step leaves the service alone or is one of its own
\* steps: whatever the service promises, it promises to a browser.
LEMMA BrowserSteps ==
  ASSUME BrowserTypeOK, [BrowserNext]_<<vars, browserVars>>
  PROVE  [Next]_vars
<1>1. ASSUME NEW h \in Handler, Send(h) PROVE Arrive(h)
  <2>1. cookie # None => cookie \in Token
    BY DEF BrowserTypeOK
  <2> QED
    BY <1>1, <2>1 DEF Send, SendRefresh, SendLogout, SendLogoutAll, Arrive
<1>2. ASSUME NEW h \in Handler, Work(h)
      PROVE  Serve(h) \/ UpdateResent(h) \/ Abort(h)
  BY <1>2 DEF Work
<1>3. ASSUME NEW h \in Handler, ReceiveHeaders(h) \/ ReadBody(h) \/ LoseBody(h)
      PROVE  UNCHANGED vars
  BY <1>3 DEF ReceiveHeaders, ReadBody, LoseBody
<1>4. CASE DropCookie
  BY <1>4 DEF DropCookie
<1>5. CASE Tick \/ UNCHANGED <<vars, browserVars>>
  BY <1>5 DEF Next
<1> QED
  BY <1>1, <1>2, <1>3, <1>4, <1>5 DEF BrowserNext, Next

\* The request goes on with the same operation, token and session.
Keeps(r, q) ==
  q.op = r.op /\ q.token = r.token /\ q.session = r.session /\ q.since = r.since

\* Where a request is after a step of its handler.
Moves(h) ==
  LET r == req[h]
      q == req'[h]
  IN  \/ q = Idle /\ UNCHANGED <<storeVars, sessions>>
      \/ /\ UNCHANGED <<storeVars, sessions>>
         /\ r.op = "refresh" /\ q.op = "rejected" /\ q.pc = "finish"
      \/ RefreshReused(h) /\ q.op = "reuse" /\ q.pc = "listTokens"
      \/ /\ RefreshAccepted(h)
         /\ q.op = "refresh" /\ q.pc = "updateGet" /\ q.token = r.token
         /\ q.cur = r.token /\ q.session = Presented(h).session
      \/ /\ LogoutFind(h)
         /\ q.op = "logout" /\ q.pc = "updateGet" /\ q.token = r.token
         /\ q.session = IF Presented(h) = None THEN r.session ELSE Presented(h).session
      \/ InsertSession(h) /\ q.op = "login" /\ q.pc = "createToken"
      \/ /\ CreateToken(h) /\ Keeps(r, q) /\ q.cur = issued + 1
         /\ \/ r.op = "login" /\ q.pc = "finish"
            \/ r.op = "refresh" /\ q.pc = "touchSession"
      \/ /\ Keeps(r, q) /\ q.pc = "updateSet" /\ q.cur = r.cur
         /\ \/ UpdateGet(h) /\ r.pc = "updateGet" /\ q.rec.status = NewStatus(r)
            \/ UpdateResent(h) /\ q = r
      \/ /\ Keeps(r, q) /\ q.pc = AfterUpdate(r) /\ q.cur = None
         /\ r.op \in {"refresh", "logout"} \cup Revoking
         /\ \/ UpdateSet(h) /\ r.pc = "updateSet"
            \/ UpdateMissing(h) /\ r.pc = "updateGet" /\ r.op # "refresh"
      \/ /\ Keeps(r, q) /\ q.pc = "finish" /\ q.cur = r.cur
         /\ \/ TouchSession(h) /\ r.op = "refresh" /\ r.pc = "touchSession"
            \/ EndSession(h) /\ r.op = "logout" /\ r.pc = "endSession"
            \/ RevokeSessions(h) /\ r.op \in Revoking /\ r.pc = "revokeNext"
      \/ FindSession(h) /\ Keeps(r, q) /\ q.op = "revokeSession" /\ q.pc = "listTokens"
      \/ /\ ListTokens(h) /\ r.op \in Revoking /\ q.op = r.op /\ q.pc = "revokeNext"
         /\ q.cur = r.cur /\ q.since = issued /\ r.pc = "listTokens"
      \/ /\ RevokeNext(h) /\ Keeps(r, q) /\ r.op \in Revoking /\ r.pc = "revokeNext"
         /\ q.pc = "updateGet" \/ (q.pc = "revokeNext" /\ q.cur = r.cur)

\* That is where every one of its steps leads.
LEMMA WorkMoves ==
  ASSUME TypeInv, NEW h \in Handler, Serve(h) \/ UpdateResent(h) \/ Abort(h)
  PROVE  Moves(h) /\ OnlyActs(h) /\ req[h] # Idle /\ (Finish(h) \/ UNCHANGED delivered)
<1> USE DEF At, LookingUp
<1> DEFINE r == req[h]
           q == req'[h]
<1>0. /\ r \in Request /\ Shape(r)
      /\ \A p : Become(h, p) => q = p /\ OnlyActs(h)
  BY BecomeActs DEF TypeInv, TypeOK
<1>1. OnlyActs(h)
  BY <1>0
  DEF UpdateResent, Abort, Serve, InsertSession, CreateToken, RefreshUnknown,
      RefreshReused, RefreshRefused, RefreshAccepted, LogoutFind, UpdateGet,
      UpdateMissing, UpdateSet, TouchSession, EndSession, FindSession, ListTokens,
      RevokeNext, RevokeSessions, Finish, Proceed, OnlyActs
<1>2. req[h] # Idle
  <2>1. CASE Abort(h)
    BY <2>1 DEF Abort
  <2>2. CASE ~Abort(h)
    <3>1. r.pc # "idle"
      BY <2>2
      DEF UpdateResent, Serve, InsertSession, CreateToken, RefreshUnknown,
          RefreshReused, RefreshRefused, RefreshAccepted, LogoutFind, UpdateGet,
          UpdateMissing, UpdateSet, TouchSession, EndSession, FindSession,
          ListTokens, RevokeNext, RevokeSessions, Finish
    <3> QED
      BY <3>1 DEF Idle
  <2> QED
    BY <2>1, <2>2
<1>3. Finish(h) \/ UNCHANGED delivered
  BY DEF UpdateResent, Abort, Serve, InsertSession, CreateToken, RefreshUnknown,
         RefreshReused, RefreshRefused, RefreshAccepted, LogoutFind, UpdateGet,
         UpdateMissing, UpdateSet, TouchSession, EndSession, FindSession, ListTokens,
         RevokeNext, RevokeSessions, Proceed
<1>4. Moves(h)
  <2>1. CASE InsertSession(h)
    <3>1. PICK s \in Session : q = [r EXCEPT !.pc = "createToken", !.session = s]
      BY <1>0, <2>1 DEF InsertSession
    <3>2. r.op = "login"
      BY <1>0, <2>1
      DEF InsertSession, Shape, CallsOf, Loop, Revoking, Request, Operation
    <3>3. q.op = "login" /\ q.pc = "createToken"
      BY <1>0, <3>1, <3>2 DEF Request
    <3> QED
      BY <2>1, <3>3 DEF Moves
  <2>2. CASE CreateToken(h)
    <3>1. q = [r EXCEPT !.pc = IF r.op = "login" THEN "finish" ELSE "touchSession",
                        !.cur = issued + 1]
      BY <1>0, <2>2 DEF CreateToken
    <3>2. r.op \in {"login", "refresh"}
      BY <1>0, <2>2 DEF CreateToken, Shape, CallsOf, Loop, Request, Operation
    <3>3. /\ q.op = r.op /\ q.token = r.token /\ q.session = r.session
          /\ q.since = r.since /\ q.cur = issued + 1
          /\ q.pc = IF r.op = "login" THEN "finish" ELSE "touchSession"
      BY <1>0, <3>1 DEF Request
    <3> QED
      BY <2>2, <3>2, <3>3 DEF Moves, Keeps
  <2>3. CASE RefreshUnknown(h)
    <3>1. q = [r EXCEPT !.op = "rejected", !.pc = "finish"] /\ r.op = "refresh"
      BY <1>0, <2>3 DEF RefreshUnknown, Proceed
    <3>2. q.op = "rejected" /\ q.pc = "finish"
      BY <1>0, <3>1 DEF Request
    <3> QED
      BY <2>3, <3>1, <3>2 DEF Moves, RefreshUnknown, Proceed
  <2>4. CASE RefreshRefused(h) \/ RefreshReused(h) \/ RefreshAccepted(h)
    <3> DEFINE i == Identified(h)
    <3>1. Presented(h) # None
      BY <2>4
      DEF RefreshRefused, RefreshReused, RefreshAccepted, Usable, Live, Presented
    <3>2. /\ i \in Request /\ i.op = r.op /\ i.token = r.token
          /\ i.session = Presented(h).session /\ r.op = "refresh"
      BY <1>0, <2>4, <3>1, IdentifiedType
      DEF RefreshRefused, RefreshReused, RefreshAccepted, Identified, Request
    <3>3. \/ RefreshRefused(h) /\ q = [i EXCEPT !.op = "rejected", !.pc = "finish"]
          \/ /\ RefreshReused(h)
             /\ q = [i EXCEPT !.op = "reuse", !.pc = "listTokens", !.token = None]
          \/ RefreshAccepted(h) /\ q = [i EXCEPT !.pc = "updateGet", !.cur = r.token]
      BY <1>0, <2>4 DEF RefreshRefused, RefreshReused, RefreshAccepted, Proceed
    <3> HIDE DEF i
    <3>4. \/ RefreshRefused(h) /\ q.op = "rejected" /\ q.pc = "finish"
          \/ RefreshReused(h) /\ q.op = "reuse" /\ q.pc = "listTokens"
          \/ /\ RefreshAccepted(h)
             /\ q.op = "refresh" /\ q.pc = "updateGet" /\ q.token = r.token
             /\ q.cur = r.token /\ q.session = Presented(h).session
      BY <3>2, <3>3 DEF Request
    <3> QED
      BY <3>2, <3>4 DEF Moves, RefreshRefused, Proceed
  <2>5. CASE LogoutFind(h)
    <3> DEFINE i == IF Presented(h) = None THEN r ELSE Identified(h)
    <3>1. /\ i \in Request /\ i.op = "logout" /\ i.token = r.token
          /\ i.session = IF Presented(h) = None THEN r.session ELSE Presented(h).session
      BY <1>0, <2>5, IdentifiedType DEF LogoutFind, Identified, Request
    <3>2. q = [i EXCEPT !.pc = "updateGet", !.cur = r.token]
      BY <1>0, <2>5 DEF LogoutFind, Proceed
    <3> HIDE DEF i
    <3>3. /\ q.op = "logout" /\ q.pc = "updateGet" /\ q.token = r.token
          /\ q.session = i.session
      BY <3>1, <3>2 DEF Request
    <3> QED
      BY <2>5, <3>1, <3>3 DEF Moves
  <2>6. CASE UpdateGet(h)
    <3> DEFINE rec == [tokens[r.cur] EXCEPT !.status = NewStatus(r)]
    <3>1. r.cur \in Token /\ tokens[r.cur] # None
      BY <1>0, <2>6 DEF UpdateGet, Shape
    <3>2. tokens[r.cur] \in TokenRecord
      BY <3>1 DEF TypeInv, TypeOK, StoreTypeOK
    <3>3. rec.status = NewStatus(r)
      BY <3>2 DEF TokenRecord
    <3>4. q = [r EXCEPT !.pc = "updateSet", !.rec = rec] /\ r.pc = "updateGet"
      BY <1>0, <2>6 DEF UpdateGet, Proceed
    <3> HIDE DEF rec
    <3>5. /\ q.op = r.op /\ q.token = r.token /\ q.session = r.session
          /\ q.since = r.since /\ q.cur = r.cur /\ q.pc = "updateSet" /\ q.rec = rec
      BY <1>0, <3>4 DEF Request
    <3> QED
      BY <2>6, <3>3, <3>4, <3>5 DEF Moves, Keeps
  <2>7. CASE UpdateMissing(h) /\ r.op = "refresh"
    BY <1>0, <2>7 DEF UpdateMissing, Proceed, Moves
  <2>8. CASE UpdateSet(h) \/ (UpdateMissing(h) /\ r.op # "refresh")
    <3>1. /\ \/ q = [r EXCEPT !.pc = AfterUpdate(r), !.cur = None, !.rec = None]
             \/ q = [r EXCEPT !.pc = AfterUpdate(r), !.cur = None]
          /\ \/ UpdateSet(h) /\ r.pc = "updateSet"
             \/ UpdateMissing(h) /\ r.pc = "updateGet" /\ r.op # "refresh"
      BY <1>0, <2>8 DEF UpdateSet, UpdateMissing, Proceed
    <3>2. r.op \in {"refresh", "logout"} \cup Revoking
      BY <1>0, <3>1 DEF Shape, CallsOf, Request, Operation, Revoking
    <3>3. /\ q.op = r.op /\ q.token = r.token /\ q.session = r.session
          /\ q.since = r.since /\ q.cur = None /\ q.pc = AfterUpdate(r)
      BY <1>0, <3>1 DEF Request
    <3> QED
      BY <3>1, <3>2, <3>3 DEF Moves, Keeps
  <2>9. CASE UpdateResent(h)
    BY <2>9 DEF UpdateResent, Moves, Keeps
  <2>10. CASE TouchSession(h) \/ EndSession(h) \/ RevokeSessions(h)
    <3>1. /\ q = [r EXCEPT !.pc = "finish"]
          /\ \/ TouchSession(h) /\ r.op = "refresh" /\ r.pc = "touchSession"
             \/ EndSession(h) /\ r.op = "logout" /\ r.pc = "endSession"
             \/ RevokeSessions(h) /\ r.op \in Revoking /\ r.pc = "revokeNext"
      BY <1>0, <2>10
      DEF TouchSession, EndSession, RevokeSessions, Proceed, Shape, CallsOf, Loop,
          Revoking, Request, Operation
    <3>2. /\ q.op = r.op /\ q.token = r.token /\ q.session = r.session
          /\ q.since = r.since /\ q.cur = r.cur /\ q.pc = "finish"
      BY <1>0, <3>1 DEF Request
    <3> QED
      BY <3>1, <3>2 DEF Moves, Keeps
  <2>11. CASE FindSession(h)
    <3>1. r.op = "revokeSession"
      BY <1>0, <2>11 DEF FindSession, Shape, CallsOf, Loop, Revoking, Request, Operation
    <3>2. q = Idle \/ q = [r EXCEPT !.pc = "listTokens"]
      BY <1>0, <2>11 DEF FindSession, Proceed
    <3>3. q # Idle => /\ q.op = r.op /\ q.token = r.token /\ q.session = r.session
                      /\ q.since = r.since /\ q.pc = "listTokens"
      BY <1>0, <3>2 DEF Request
    <3>4. UNCHANGED <<storeVars, sessions>>
      BY <2>11 DEF FindSession, Proceed
    <3> QED
      BY <2>11, <3>1, <3>3, <3>4 DEF Moves, Keeps
  <2>12. CASE ListTokens(h)
    <3> DEFINE l == IF r.op = "revokeSession" THEN sessionTokens[r.session]
                                              ELSE userTokens[r.user]
    <3>1. /\ q = [r EXCEPT !.pc = "revokeNext", !.since = issued, !.todo = l]
          /\ r.pc = "listTokens" /\ r.op \in Revoking
      BY <1>0, <2>12
      DEF ListTokens, Proceed, Shape, CallsOf, Loop, Revoking, Request, Operation
    <3> HIDE DEF l
    <3>2. q.op = r.op /\ q.pc = "revokeNext" /\ q.cur = r.cur /\ q.since = issued
      BY <1>0, <3>1 DEF Request
    <3> QED
      BY <2>12, <3>1, <3>2 DEF Moves
  <2>13. CASE RevokeNext(h)
    <3>1. PICK t \in r.todo :
            \/ q = [r EXCEPT !.todo = @ \ {t}, !.pc = "updateGet", !.cur = t]
            \/ q = [r EXCEPT !.todo = @ \ {t}]
      BY <1>0, <2>13 DEF RevokeNext
    <3>2. r.op \in Revoking /\ r.pc = "revokeNext"
      BY <1>0, <2>13 DEF RevokeNext, Shape, CallsOf, Loop, Revoking, Request, Operation
    <3>3. /\ q.op = r.op /\ q.token = r.token /\ q.session = r.session
          /\ q.since = r.since
          /\ q.pc = "updateGet" \/ (q.pc = "revokeNext" /\ q.cur = r.cur)
      BY <1>0, <3>1, <3>2 DEF Request
    <3> QED
      BY <2>13, <3>2, <3>3 DEF Moves, Keeps
  <2>14. CASE Finish(h) \/ Abort(h)
    BY <1>0, <2>14 DEF Finish, Abort, Proceed, Moves
  <2> QED
    BY <2>1, <2>2, <2>3, <2>4, <2>5, <2>6, <2>7, <2>8, <2>9, <2>10, <2>11, <2>12,
       <2>13, <2>14 DEF Serve
<1> QED
  BY <1>1, <1>2, <1>3, <1>4

\* The answer of h is on its way, or there is none.
Ends(h) ==
  LET r == req[h]
      f == fetch'[h]
  IN  \/ f = NoFetch /\ UNCHANGED delivered
      \/ /\ r.pc = "finish" /\ r.op \in {"login", "refresh", "logout", "logoutAll"}
         /\ f.stage = "answered" /\ f.op = r.op /\ f.sent = fetch[h].sent
         /\ f.got = r.cur
         /\ \/ r.op \in {"login", "refresh"} /\ delivered' = delivered \cup {r.cur}
            \/ r.op \in {"logout", "logoutAll"} /\ UNCHANGED delivered

OnlyTracks(h) == \A g \in Handler : g # h => fetch'[g] = fetch[g]

\* A step of the service as the page sees it.
LEMMA WorkDoes ==
  ASSUME TypeInv, BrowserTypeOK, NEW h \in Handler, Work(h)
  PROVE  /\ Moves(h) /\ OnlyActs(h) /\ OnlyTracks(h) /\ req[h] # Idle
         /\ IF req'[h] = Idle THEN Ends(h) ELSE UNCHANGED <<fetch, delivered>>
         /\ UNCHANGED <<cookie, bearer, unsettled, twice, smooth>>
<1>1. /\ Moves(h) /\ OnlyActs(h) /\ req[h] # Idle
      /\ Finish(h) \/ UNCHANGED delivered
  BY WorkMoves DEF Work
<1>2. Finish(h) => req'[h] = Idle
  BY BecomeActs DEF Finish
<1>3. UNCHANGED <<cookie, bearer, unsettled, twice, smooth>>
  BY DEF Work
<1>4. CASE req'[h] # Idle
  BY <1>1, <1>2, <1>3, <1>4 DEF Work, OnlyTracks
<1>5. CASE req'[h] = Idle
  <2>1. Reply(h)
    BY <1>5 DEF Work
  <2>2. fetch[h] \in Fetch /\ (\A f : Track(h, f) => fetch'[h] = f /\ OnlyTracks(h))
    BY DEF BrowserTypeOK, Track, OnlyTracks
  <2>3. CASE delivered' = delivered /\ Track(h, NoFetch)
    BY <1>1, <1>3, <1>5, <2>2, <2>3 DEF Ends
  <2>4. CASE Answered(h) /\ Track(h, [fetch[h] EXCEPT !.stage = "answered",
                                        !.op = req[h].op, !.got = req[h].cur])
    <3>0. /\ fetch'[h] = [fetch[h] EXCEPT !.stage = "answered", !.op = req[h].op,
                                           !.got = req[h].cur]
          /\ OnlyTracks(h)
      BY <2>2, <2>4
    <3>1. /\ fetch'[h].stage = "answered" /\ fetch'[h].op = req[h].op
          /\ fetch'[h].sent = fetch[h].sent /\ fetch'[h].got = req[h].cur
      BY <2>2, <3>0 DEF Fetch
    <3>2. /\ req[h].op \in {"login", "refresh"} => delivered' = delivered \cup {req[h].cur}
          /\ req[h].op \notin {"login", "refresh"} => UNCHANGED delivered
      BY <1>1, <2>4 DEF Answered, Finish, Respond
    <3> QED
      BY <1>1, <1>3, <1>5, <2>4, <3>0, <3>1, <3>2 DEF Ends, Answered, At
  <2> QED
    BY <2>1, <2>3, <2>4 DEF Reply
<1> QED
  BY <1>4, <1>5

\* How a request begins.
Begins(h) ==
  LET q == req'[h]
      f == fetch'[h]
  IN  /\ f.stage = "waiting" /\ f.got = None /\ f \in Fetch
      /\ q.cur = None
      /\ \/ /\ q.op = "refresh" /\ q.pc = "findToken"
            /\ q.token = cookie /\ cookie \in delivered \cap Token /\ f.sent = cookie
            /\ unsettled' = unsettled \cup {cookie}
            /\ twice' = twice \cup ({cookie} \cap unsettled)
         \/ /\ UNCHANGED <<unsettled, twice>> /\ f.sent = None
            /\ \/ q.op = "login" /\ q.pc = "insertSession"
               \/ q.op = "logoutAll" /\ q.pc = "listTokens"
               \/ /\ q.op = "logout" /\ q.session = None
                  /\ \/ q.pc = "finish" /\ q.token = None
                     \/ q.pc = "findToken" /\ q.token = cookie /\ cookie # None

\* What the page does when it sends one.
LEMMA SendDoes ==
  ASSUME TypeInv, BrowserTypeOK, NEW h \in Handler, Send(h)
  PROVE  /\ Begins(h) /\ OnlyActs(h) /\ OnlyTracks(h)
         /\ req[h] = Idle /\ req'[h] # Idle /\ fetch[h] = NoFetch
         /\ smooth' = (smooth /\ Quiet)
         /\ UNCHANGED <<storeVars, sessions, delivered, cookie, bearer>>
<1> DEFINE q == req'[h]
<1>0. \A f : Track(h, f) => fetch'[h] = f /\ OnlyTracks(h)
  BY DEF BrowserTypeOK, Track, OnlyTracks
<1>1. /\ req[h] = Idle /\ OnlyActs(h)
      /\ UNCHANGED <<storeVars, sessions, delivered>>
      /\ \A p : Become(h, p) => q = p
  BY BecomeActs
  DEF Send, SendRefresh, SendLogout, SendLogoutAll, BeginLogin, BeginLogoutAll,
      BeginRefresh, BeginLogout, BeginLogoutNoCookie, Begin, Proceed
<1>2. Sends(h)
  BY DEF Send, SendPlain, SendRefresh, SendLogout, SendLogoutAll
<1>3. None \notin Token /\ NoFetch \in Fetch
  BY NoneAssumption DEF NoFetch, Fetch, Operation
<1>4. SendPlain(h) => /\ fetch'[h].stage = "waiting" /\ fetch'[h].got = None
                      /\ fetch'[h] \in Fetch /\ OnlyTracks(h) /\ fetch'[h].sent = None
                      /\ UNCHANGED <<unsettled, twice>>
  BY <1>0, <1>3 DEF SendPlain, NoFetch, Fetch
<1>5. Begins(h) /\ OnlyTracks(h) /\ q # Idle
  <2>1. CASE SendRefresh(h)
    <3>1. q = [Idle EXCEPT !.pc = "findToken", !.op = "refresh", !.token = cookie]
      BY <1>1, <2>1 DEF SendRefresh, BeginRefresh, Begin, Proceed
    <3>2. /\ q.op = "refresh" /\ q.pc = "findToken" /\ q.token = cookie
          /\ q.cur = None
      BY <3>1 DEF Idle
    <3>3. cookie \in delivered \cap Token
      BY <2>1 DEF SendRefresh, BeginRefresh, BrowserTypeOK
    <3>4. fetch'[h] = [NoFetch EXCEPT !.stage = "waiting", !.sent = cookie] /\ OnlyTracks(h)
      BY <1>0, <2>1 DEF SendRefresh
    <3>5. /\ fetch'[h].stage = "waiting" /\ fetch'[h].got = None
          /\ fetch'[h].sent = cookie /\ fetch'[h] \in Fetch
      BY <1>3, <3>3, <3>4 DEF NoFetch, Fetch
    <3>6. /\ unsettled' = unsettled \cup {cookie}
          /\ twice' = twice \cup ({cookie} \cap unsettled)
      BY <2>1 DEF SendRefresh
    <3>7. q # Idle
      BY <3>2 DEF Idle
    <3> QED
      BY <3>2, <3>3, <3>4, <3>5, <3>6, <3>7 DEF Begins
  <2>2. ASSUME NEW u \in User, BeginLogin(h, u) \/ BeginLogoutAll(h, u), SendPlain(h)
        PROVE  Begins(h) /\ OnlyTracks(h) /\ q # Idle
    <3>1. \/ q = [Idle EXCEPT !.pc = "insertSession", !.op = "login", !.user = u]
          \/ q = [Idle EXCEPT !.pc = "listTokens", !.op = "logoutAll", !.user = u]
      BY <1>1, <2>2 DEF BeginLogin, BeginLogoutAll, Begin, Proceed
    <3>2. /\ \/ q.op = "login" /\ q.pc = "insertSession"
             \/ q.op = "logoutAll" /\ q.pc = "listTokens"
          /\ q.cur = None
      BY <3>1 DEF Idle
    <3>3. q # Idle
      BY <3>2 DEF Idle
    <3> QED
      BY <1>4, <2>2, <3>2, <3>3 DEF Begins
  <2>3. CASE SendLogout(h)
    <3>1. \/ q = [Idle EXCEPT !.pc = "finish", !.op = "logout"]
          \/ /\ q = [Idle EXCEPT !.pc = "findToken", !.op = "logout", !.token = cookie]
             /\ cookie # None
      BY <1>1, <2>3
      DEF SendLogout, BeginLogout, BeginLogoutNoCookie, Begin, Proceed
    <3>2. /\ q.op = "logout" /\ q.session = None /\ q.cur = None
          /\ \/ q.pc = "finish" /\ q.token = None
             \/ q.pc = "findToken" /\ q.token = cookie /\ cookie # None
      BY <3>1 DEF Idle
    <3>3. q # Idle
      BY <3>2 DEF Idle
    <3>4. SendPlain(h)
      BY <2>3 DEF SendLogout
    <3> QED
      BY <1>4, <3>2, <3>3, <3>4 DEF Begins
  <2> QED
    BY <2>1, <2>2, <2>3 DEF Send, SendLogoutAll
<1> QED
  BY <1>1, <1>2, <1>5 DEF Sends

-----------------------------------------------------------------------------
(* Types, and the two views of a request.                                  *)

\* The page's records stay well formed.
LEMMA BrowserTypes ==
  ASSUME TypeInv, BrowserTypeOK, [BrowserNext]_<<vars, browserVars>>
  PROVE  BrowserTypeOK'
<1>1. ASSUME NEW h \in Handler, Send(h) PROVE BrowserTypeOK'
  <2>1. fetch'[h] \in Fetch /\ unsettled' \subseteq Token /\ twice' \subseteq Token
    BY <1>1, SendDoes DEF Begins, BrowserTypeOK
  <2>2. \E f : fetch' = [fetch EXCEPT ![h] = f]
    BY <1>1 DEF Send, SendPlain, SendRefresh, SendLogout, SendLogoutAll, Track
  <2>3. fetch' \in [Handler -> Fetch]
    BY <2>1, <2>2 DEF BrowserTypeOK
  <2>4. smooth' \in BOOLEAN
    BY <1>1 DEF Send, SendPlain, SendRefresh, SendLogout, SendLogoutAll, Sends
  <2>5. UNCHANGED <<cookie, bearer>>
    BY <1>1, SendDoes
  <2> QED
    BY <2>1, <2>3, <2>4, <2>5 DEF BrowserTypeOK
<1>2. ASSUME NEW h \in Handler, Work(h) PROVE BrowserTypeOK'
  <2>1. req[h].op \in Operation /\ req[h].cur \in Token \cup {None} /\ NoFetch \in Fetch
    BY DEF TypeInv, TypeOK, Request, NoFetch, Fetch, Operation
  <2>2. ASSUME Track(h, [fetch[h] EXCEPT !.stage = "answered", !.op = req[h].op,
                                         !.got = req[h].cur])
        PROVE  fetch' \in [Handler -> Fetch]
    BY <2>1, <2>2 DEF BrowserTypeOK, Fetch, Track
  <2>3. Track(h, NoFetch) => fetch' \in [Handler -> Fetch]
    BY <2>1 DEF BrowserTypeOK, Track
  <2>4. fetch' \in [Handler -> Fetch]
    BY <1>2, <2>2, <2>3 DEF Work, Reply, BrowserTypeOK
  <2> QED
    BY <1>2, <2>4 DEF Work, BrowserTypeOK
<1>3. ASSUME NEW h \in Handler, ReceiveHeaders(h) \/ ReadBody(h) \/ LoseBody(h)
      PROVE  BrowserTypeOK'
  <2>1. fetch[h] \in Fetch /\ NoFetch \in Fetch
    BY DEF NoFetch, Fetch, Operation, BrowserTypeOK
  <2>2. fetch[h].got \in Token \cup {None} /\ [fetch[h] EXCEPT !.stage = "received"] \in Fetch
    BY <2>1 DEF Fetch
  <2> QED
    BY <1>3, <2>1, <2>2
    DEF ReceiveHeaders, ReadBody, LoseBody, Track, CookieAfter, BrowserTypeOK
<1>4. CASE (Tick /\ UNCHANGED browserVars) \/ UNCHANGED <<vars, browserVars>>
  BY <1>4 DEF browserVars, BrowserTypeOK
<1>5. CASE DropCookie
  BY <1>5 DEF DropCookie, BrowserTypeOK
<1> QED
  BY <1>1, <1>2, <1>3, <1>4, <1>5 DEF BrowserNext

\* A request the step does not concern is seen as before.
LEMMA LinkedStays ==
  ASSUME NEW h \in Handler, Linked(h), req'[h] = req[h],
         (fetch'[h].stage = "waiting") <=> (fetch[h].stage = "waiting"),
         fetch[h].stage = "waiting" => fetch'[h].sent = fetch[h].sent,
         delivered \subseteq delivered'
  PROVE  Linked(h)'
BY DEF Linked, Idle

\* The page waits for the requests that are served.
LEMMA LinkedNext ==
  ASSUME TypeInv, TypeInv', BrowserTypeOK, \A h \in Handler : Linked(h),
         [BrowserNext]_<<vars, browserVars>>, NEW h \in Handler
  PROVE  Linked(h)'
<1> DEFINE r == req[h]
           q == req'[h]
<1>1. ASSUME NEW g \in Handler, Send(g) PROVE Linked(h)'
  <2>1. CASE g # h
    BY <1>1, <2>1, SendDoes, LinkedStays DEF OnlyActs, OnlyTracks
  <2>2. CASE g = h
    <3>1. Begins(h) /\ req'[h] # Idle /\ UNCHANGED delivered
      BY <1>1, <2>2, SendDoes
    <3> QED
      BY <3>1 DEF Begins, Linked
  <2> QED
    BY <2>1, <2>2
<1>2. ASSUME NEW g \in Handler, Work(g) PROVE Linked(h)'
  <2>0. Moves(g) /\ OnlyActs(g) /\ OnlyTracks(g) /\ req[g] # Idle
        /\ delivered \subseteq delivered'
    BY <1>2, WorkDoes DEF Ends
  <2>1. CASE g # h
    BY <2>0, <2>1, LinkedStays DEF OnlyActs, OnlyTracks
  <2>2. CASE g = h /\ q = Idle
    <3>1. Ends(h)
      BY <1>2, <2>2, WorkDoes
    <3> QED
      BY <2>2, <3>1 DEF Ends, Linked, Idle, NoFetch
  <2>3. CASE g = h /\ q # Idle
    <3>1. UNCHANGED fetch
      BY <1>2, <2>3, WorkDoes
    <3>2. fetch'[h].stage = "waiting"
      BY <2>0, <2>3, <3>1 DEF Linked
    <3>3. /\ q.op # "revokeSession"
          /\ q.op = "refresh" => r.op = "refresh" /\ q.token = r.token
      BY <2>0, <2>3 DEF Moves, Linked, Keeps, RefreshAccepted, At, LookingUp, Revoking
    <3>4. q.op \in {"logout", "logoutAll"} /\ q.pc \notin {"updateGet", "updateSet"} =>
            q.cur = None
      BY <2>0, <2>3 DEF Moves, Linked, Keeps, Revoking
    <3>5. q.op = "refresh" => fetch'[h].sent = q.token /\ q.token \in delivered'
      BY <2>0, <3>1, <3>3 DEF Linked
    <3> QED
      BY <2>3, <3>2, <3>3, <3>4, <3>5 DEF Linked
  <2> QED
    BY <2>1, <2>2, <2>3
<1>3. ASSUME NEW g \in Handler, ReceiveHeaders(g) \/ ReadBody(g) \/ LoseBody(g)
      PROVE  Linked(h)'
  <2>1. UNCHANGED <<req, delivered>>
    BY <1>3 DEF ReceiveHeaders, ReadBody, LoseBody, vars
  <2>2. /\ fetch \in [Handler -> Fetch] /\ fetch[g] \in Fetch
        /\ fetch[g].stage \in {"answered", "received"}
    BY <1>3 DEF ReceiveHeaders, ReadBody, LoseBody, BrowserTypeOK
  <2>3. fetch'[g].stage # "waiting" /\ OnlyTracks(g)
    BY <1>3, <2>2
    DEF ReceiveHeaders, ReadBody, LoseBody, Track, Fetch, NoFetch, OnlyTracks
  <2> QED
    BY <2>1, <2>2, <2>3, LinkedStays DEF OnlyTracks
<1>4. CASE (Tick /\ UNCHANGED browserVars) \/ DropCookie \/ UNCHANGED <<vars, browserVars>>
  <2>1. UNCHANGED <<req, delivered, fetch>>
    BY <1>4 DEF Tick, DropCookie, vars, browserVars
  <2> QED
    BY <2>1, LinkedStays
<1> QED
  BY <1>1, <1>2, <1>3, <1>4 DEF BrowserNext

-----------------------------------------------------------------------------
(* The ways of a token.                                                    *)

Receives(h) == ReceiveHeaders(h) \/ ReadBody(h) \/ LoseBody(h)

\* The page changes its view of one answer and the service does nothing.
LEMMA ReceivesDoes ==
  ASSUME BrowserTypeOK, \A k \in Handler : Linked(k), NEW h \in Handler, Receives(h)
  PROVE  /\ UNCHANGED vars /\ UNCHANGED twice /\ OnlyTracks(h)
         /\ req[h] = Idle /\ fetch'[h].sent \in {fetch[h].sent, None}
         /\ \/ fetch'[h] = NoFetch
            \/ /\ ReceiveHeaders(h) /\ fetch'[h].stage = "received"
               /\ fetch'[h].got = fetch[h].got
<1>1. /\ fetch \in [Handler -> Fetch] /\ fetch[h] \in Fetch
      /\ fetch[h].stage \in {"answered", "received"}
  BY DEF Receives, ReceiveHeaders, ReadBody, LoseBody, BrowserTypeOK
<1>2. req[h] = Idle
  BY <1>1 DEF Linked
<1>3. \/ fetch' = [fetch EXCEPT ![h] = NoFetch]
      \/ /\ ReceiveHeaders(h)
         /\ fetch' = [fetch EXCEPT ![h] = [fetch[h] EXCEPT !.stage = "received"]]
  BY DEF Receives, ReceiveHeaders, ReadBody, LoseBody, Track
<1>4. /\ OnlyTracks(h)
      /\ \/ fetch'[h] = NoFetch
         \/ /\ ReceiveHeaders(h)
            /\ fetch'[h] = [fetch[h] EXCEPT !.stage = "received"]
  BY <1>1, <1>3 DEF OnlyTracks
<1>5. /\ fetch'[h].sent \in {fetch[h].sent, None}
      /\ \/ fetch'[h] = NoFetch
         \/ /\ ReceiveHeaders(h) /\ fetch'[h].stage = "received"
            /\ fetch'[h].got = fetch[h].got
  BY <1>1, <1>4 DEF Fetch, NoFetch
<1> QED
  BY <1>2, <1>4, <1>5 DEF Receives, ReceiveHeaders, ReadBody, LoseBody

\* Between two states a handler is where it was, or it has made a step.
LEMMA OneMoves ==
  ASSUME TypeInv, BrowserTypeOK, \A k \in Handler : Linked(k),
         [BrowserNext]_<<vars, browserVars>>
  PROVE  \/ \E h \in Handler : Send(h) \/ Work(h) \/ Receives(h)
         \/ /\ UNCHANGED <<req, delivered, fetch, sessions, bearer, unsettled, twice,
                           smooth, sessionTokens, issued>>
            /\ cookie' \in {cookie, None}
BY DEF BrowserNext, Receives, Tick, Lapse, Expire, DropCookie, vars, browserVars

\* A token becomes USED by a refresh that has presented it.
LEMMA UsedGrowth ==
  ASSUME SafeInv, \A h \in Handler : Linked(h) /\ Alarm(h), [Next]_vars,
         NEW t \in Token, Used(t)'
  PROVE  \/ Used(t)
         \/ \E h \in Handler : /\ req[h].op = "refresh" /\ req[h].pc = "updateSet"
                               /\ fetch[h].sent = t
<1> SUFFICES ASSUME ~Used(t)
             PROVE  \E h \in Handler : /\ req[h].op = "refresh" /\ req[h].pc = "updateSet"
                                       /\ fetch[h].sent = t
  OBVIOUS
<1>1. tokens \in [Token -> TokenRecord \cup {None}]
  BY DEF SafeInv, TypeInv, TypeOK, StoreTypeOK
<1>2. tokens'[t] # tokens[t] /\ tokens'[t] # None /\ tokens'[t].status = "USED"
  BY DEF Used
<1>3. ~Tick /\ ~UNCHANGED storeVars
  BY <1>1, <1>2 DEF Tick, Lapse, Expire, storeVars
<1>4. ASSUME NEW h \in Handler, CreateToken(h) PROVE FALSE
  BY <1>1, <1>2, <1>4 DEF CreateToken, Create
<1>5. PICK h \in Handler : UpdateSet(h) \/ UpdateResent(h)
  BY <1>3, <1>4, WhoWrites DEF InsertSession, EndSession, RevokeSessions
<1>6. req[h].pc = "updateSet" /\ tokens' = [tokens EXCEPT ![req[h].cur] = req[h].rec]
  BY <1>5 DEF UpdateSet, UpdateResent, Set, At
<1>7. t = req[h].cur /\ req[h].rec.status = "USED"
  BY <1>1, <1>2, <1>6
<1>8. req[h].op = "refresh"
  BY <1>6, <1>7 DEF Alarm
<1> QED
  BY <1>6, <1>7, <1>8 DEF Linked, SafeInv, Knows

\* Nothing new is presented, and what is brought was brought before or is new.
LEMMA TraceStays ==
  ASSUME TypeInv, BrowserTypeOK, Trace, UNCHANGED <<unsettled, twice>>,
         issued' \in Nat, issued <= issued', cookie' \in {cookie, None},
         NEW g,
         \A h \in Handler, t \in Token :
           Carries(h, t)' => \/ Carries(h, t)
                             \/ h = g /\ t = issued + 1 /\ issued' = issued + 1,
         \A h \in Handler, t \in Token : fetch'[h].sent = t => fetch[h].sent = t,
         \A t \in Token : Used(t)' => Touched(t)
  PROVE  Trace'
<1>1. issued \in Nat /\ 1..issued \subseteq 1..issued'
  BY BoundsAssumption DEF TypeInv, TypeOK, StoreTypeOK
<1>2. \A h \in Handler, t \in 1..issued : t \in Token /\ Carries(h, t)' => Carries(h, t)
  BY <1>1
<1>3. \A t \in Token : Landed(t) => Landed(t)'
  BY <1>1, <1>2 DEF Landed
<1>4. \A t \in Token : Touched(t)' => Touched(t)
  BY DEF Touched
<1>5. cookie # None => cookie \in Token
  BY DEF BrowserTypeOK
<1>6. \A t \in Token, h \in Handler : Carries(h, t)' => t \in 1..issued'
  BY <1>1 DEF Trace
<1>7. \A t \in Token, k, h \in Handler : Carries(k, t)' /\ Carries(h, t)' => k = h
  BY <1>1 DEF Trace
<1>8. cookie' # None => Landed(cookie)'
  BY <1>3, <1>5 DEF Trace, Landed, Carries
<1>9. \A t \in Token : Touched(t)' \/ t \in unsettled' => Landed(t)'
  BY <1>3, <1>4 DEF Trace
<1>10. \A t \in Token : Touched(t)' /\ cookie' = t => t \in unsettled'
  BY <1>4, NoneAssumption DEF Trace
<1>11. \A t \in Token \ twice', k, h \in Handler :
         fetch'[k].sent = t /\ fetch'[h].sent = t => k = h
  BY DEF Trace
<1> QED
  BY <1>6, <1>7, <1>8, <1>9, <1>10, <1>11 DEF Trace

\* A refresh presents the cookie, which nobody brings.
LEMMA SendTrace ==
  ASSUME TypeInv, BrowserTypeOK, Trace, NEW g \in Handler, Send(g)
  PROVE  Trace'
<1>1. /\ Begins(g) /\ OnlyActs(g) /\ OnlyTracks(g)
      /\ UNCHANGED <<storeVars, sessions, delivered, cookie, bearer>>
      /\ fetch[g] = NoFetch /\ None \notin Token
  BY SendDoes, NoneAssumption
<1>2. \A h \in Handler, t \in Token : Carries(h, t)' => Carries(h, t)
  BY <1>1 DEF Begins, OnlyActs, OnlyTracks, Carries
<1>3. UNCHANGED <<tokens, issued>> /\ issued \in Nat
  BY <1>1, BoundsAssumption DEF storeVars, TypeInv, TypeOK, StoreTypeOK
<1>4. \A t \in Token : Used(t)' => Used(t)
  BY <1>3 DEF Used
<1>5. CASE fetch'[g].sent = None /\ UNCHANGED <<unsettled, twice>>
  <2>1. \A h \in Handler, t \in Token : fetch'[h].sent = t => fetch[h].sent = t
    BY <1>1, <1>5 DEF OnlyTracks
  <2> QED
    BY <1>1, <1>2, <1>3, <1>4, <1>5, <2>1, TraceStays DEF Touched
<1>6. CASE /\ fetch'[g].sent = cookie /\ cookie \in Token
           /\ unsettled' = unsettled \cup {cookie}
           /\ twice' = twice \cup ({cookie} \cap unsettled)
  <2>1. \A t \in Token : Landed(t) => Landed(t)'
    BY <1>2, <1>3 DEF Landed
  <2>2. Landed(cookie)
    BY <1>6, NoneAssumption DEF Trace
  <2>3. \A h \in Handler, t \in Token :
          fetch'[h].sent = t => fetch[h].sent = t \/ (h = g /\ t = cookie)
    BY <1>1, <1>6 DEF OnlyTracks
  <2>4. \A t \in Token : Touched(t)' => Touched(t) \/ t = cookie
    BY <1>4, <2>3 DEF Touched
  <2>5. \A t \in Token : Touched(t)' \/ t \in unsettled' => Landed(t)'
    BY <1>6, <2>1, <2>2, <2>4 DEF Trace
  <2>6. cookie' # None => Landed(cookie)'
    BY <1>1, <1>6, <2>1, <2>2 DEF Landed, Carries
  <2>7. \A t \in Token : Touched(t)' /\ cookie' = t => t \in unsettled'
    BY <1>1, <1>6
  <2>8. ASSUME NEW t \in Token \ twice', NEW k \in Handler, NEW h \in Handler,
               fetch'[k].sent = t, fetch'[h].sent = t
        PROVE  k = h
    <3>1. CASE t # cookie
      BY <1>6, <2>3, <2>8, <3>1 DEF Trace
    <3>2. CASE t = cookie
      <4>1. ~Touched(t)
        BY <1>6, <2>8, <3>2 DEF Trace
      <4> QED
        BY <2>3, <2>8, <4>1 DEF Touched
    <3> QED
      BY <3>1, <3>2
  <2>9. /\ \A t \in Token, k, h \in Handler : Carries(k, t)' /\ Carries(h, t)' => k = h
        /\ \A t \in Token, h \in Handler : Carries(h, t)' => t \in 1..issued'
    BY <1>2, <1>3 DEF Trace
  <2> QED
    BY <2>5, <2>6, <2>7, <2>8, <2>9 DEF Trace
<1> QED
  BY <1>1, <1>5, <1>6 DEF Begins

\* A step of the service brings at most the token it generates.
LEMMA WorkCarries ==
  ASSUME TypeInv, BrowserTypeOK, \A k \in Handler : Linked(k), NEW g \in Handler, Work(g),
         NEW h \in Handler, NEW t \in Token, Carries(h, t)'
  PROVE  \/ Carries(h, t)
         \/ h = g /\ t = issued + 1 /\ issued' = issued + 1
<1> DEFINE r == req[g]
           q == req'[g]
<1>1. /\ Moves(g) /\ OnlyActs(g) /\ OnlyTracks(g) /\ r # Idle
      /\ fetch[g].stage = "waiting" /\ None \notin Token
  BY WorkDoes, NoneAssumption DEF Linked
<1>2. CASE h # g
  BY <1>1, <1>2 DEF OnlyActs, OnlyTracks, Carries
<1>3. CASE h = g /\ q = Idle
  <2>1. Ends(g)
    BY <1>3, WorkDoes
  <2>2. fetch'[g] # NoFetch
    BY <1>3 DEF Carries, Idle, NoFetch
  <2>3. /\ r.pc = "finish" /\ r.op \in {"login", "refresh", "logout", "logoutAll"}
        /\ r.cur = t
    BY <1>3, <2>1, <2>2 DEF Ends, Carries, Idle
  <2>4. r.op \in {"login", "refresh"}
    BY <1>1, <2>3 DEF Linked
  <2> QED
    BY <1>3, <2>3, <2>4 DEF Carries
<1>4. CASE h = g /\ q # Idle
  <2>1. UNCHANGED fetch
    BY <1>4, WorkDoes
  <2>2. q.op \in {"login", "refresh"} /\ q.pc \in {"touchSession", "finish"} /\ q.cur = t
    BY <1>1, <1>4, <2>1 DEF Carries
  <2>3. \/ CreateToken(g) /\ q.cur = issued + 1
        \/ r.op = "refresh" /\ r.pc = "touchSession" /\ q.cur = r.cur
    BY <1>1, <1>4, <2>2 DEF Moves, Keeps, AfterUpdate, Revoking
  <2> QED
    BY <1>4, <2>2, <2>3 DEF Carries, CreateToken, Create
<1> QED
  BY <1>2, <1>3, <1>4

\* The headers make the cookie of a token that was under way until now.
LEMMA HeadersTrace ==
  ASSUME TypeInv, BrowserTypeOK, \A k \in Handler : Linked(k), Trace,
         NEW g \in Handler, ReceiveHeaders(g)
  PROVE  Trace'
<1>1. /\ UNCHANGED vars /\ UNCHANGED twice /\ OnlyTracks(g)
      /\ req[g] = Idle /\ fetch'[g].stage = "received"
      /\ fetch'[g].sent \in {fetch[g].sent, None} /\ None \notin Token
  <2>1. /\ fetch[g] \in Fetch
        /\ fetch' = [fetch EXCEPT ![g] = [fetch[g] EXCEPT !.stage = "received"]]
    BY DEF ReceiveHeaders, Track, BrowserTypeOK
  <2>2. fetch'[g] = [fetch[g] EXCEPT !.stage = "received"]
    BY <2>1 DEF BrowserTypeOK
  <2>3. fetch'[g].stage = "received"
    BY <2>1, <2>2 DEF Fetch
  <2> QED
    BY <2>3, ReceivesDoes, NoneAssumption DEF Receives
<1>2. /\ cookie' = fetch[g].got /\ fetch[g].stage = "answered"
      /\ unsettled' \in {unsettled, unsettled \ {fetch[g].sent}}
      /\ UNCHANGED <<tokens, issued, req>>
  BY DEF ReceiveHeaders, CookieAfter, vars
<1>3. \A h \in Handler, t \in Token : Carries(h, t)' => h # g /\ Carries(h, t)
  BY <1>1, <1>2 DEF Carries, OnlyTracks, Idle
<1>4. \A t \in Token : Landed(t) => Landed(t)'
  BY <1>2, <1>3 DEF Landed
<1>5. \A h \in Handler, t \in Token : fetch'[h].sent = t => fetch[h].sent = t
  BY <1>1 DEF OnlyTracks
<1>6. \A t \in Token : Touched(t)' => Touched(t)
  BY <1>2, <1>5 DEF Touched, Used
<1>7. \A t \in Token : cookie' = t => Carries(g, t)
  BY <1>2 DEF Carries
<1>8. cookie' # None => cookie' \in Token
  BY <1>2 DEF BrowserTypeOK, Fetch
<1>9. cookie' # None => Landed(cookie)'
  BY <1>2, <1>3, <1>7, <1>8 DEF Trace, Landed, Carries
<1>10. \A t \in Token : Touched(t)' \/ t \in unsettled' => Landed(t)'
  BY <1>2, <1>4, <1>6 DEF Trace
<1>11. \A t \in Token : Touched(t)' => cookie' # t
  BY <1>6, <1>7 DEF Trace, Landed
<1>12. /\ \A t \in Token, k, h \in Handler : Carries(k, t)' /\ Carries(h, t)' => k = h
       /\ \A t \in Token, h \in Handler : Carries(h, t)' => t \in 1..issued'
  BY <1>2, <1>3 DEF Trace
<1>13. \A t \in Token \ twice', k, h \in Handler :
         fetch'[k].sent = t /\ fetch'[h].sent = t => k = h
  BY <1>1, <1>5 DEF Trace
<1> QED
  BY <1>9, <1>10, <1>11, <1>12, <1>13 DEF Trace

\* A token the browser is rid of never comes back to it.
LEMMA TraceNext ==
  ASSUME SafeInv, BrowserTypeOK, \A k \in Handler : Linked(k) /\ Alarm(k), Trace,
         [BrowserNext]_<<vars, browserVars>>, TypeInv'
  PROVE  Trace'
<1>0. TypeInv /\ [Next]_vars /\ Monotone
  BY BrowserSteps, NextMonotone DEF SafeInv
<1>1. issued' \in Nat /\ issued <= issued'
  BY <1>0, BoundsAssumption DEF TypeInv, TypeOK, StoreTypeOK, Monotone
<1>2. \A t \in Token : Used(t)' => Touched(t)
  BY <1>0, UsedGrowth DEF Touched
<1>3. ASSUME NEW g \in Handler, Work(g) PROVE Trace'
  <2>1. \A h \in Handler, t \in Token : fetch'[h].sent = t => fetch[h].sent = t
    <3>1. OnlyTracks(g) /\ (fetch'[g] = fetch[g] \/ Ends(g))
      BY <1>0, <1>3, WorkDoes
    <3>2. fetch'[g].sent \in {fetch[g].sent, None}
      BY <3>1 DEF Ends, NoFetch
    <3> QED
      BY <3>1, <3>2, NoneAssumption DEF OnlyTracks
  <2>2. \A h \in Handler, t \in Token :
          Carries(h, t)' => \/ Carries(h, t)
                            \/ h = g /\ t = issued + 1 /\ issued' = issued + 1
    BY <1>0, <1>3, WorkCarries
  <2>3. UNCHANGED <<cookie, unsettled, twice>>
    BY <1>3 DEF Work
  <2> QED
    BY <1>0, <1>1, <1>2, <2>1, <2>2, <2>3, TraceStays
<1>4. ASSUME NEW g \in Handler, ReadBody(g) \/ LoseBody(g) PROVE Trace'
  <2>1. /\ UNCHANGED vars /\ OnlyTracks(g) /\ fetch'[g].sent \in {fetch[g].sent, None}
        /\ fetch'[g] = NoFetch /\ req[g] = Idle /\ UNCHANGED <<cookie, unsettled, twice>>
    BY <1>4, ReceivesDoes DEF Receives, ReadBody, LoseBody, Track, BrowserTypeOK
  <2>2. \A h \in Handler, t \in Token : Carries(h, t)' => Carries(h, t)
    BY <2>1 DEF Carries, OnlyTracks, NoFetch, vars
  <2>3. \A h \in Handler, t \in Token : fetch'[h].sent = t => fetch[h].sent = t
    BY <2>1, NoneAssumption DEF OnlyTracks
  <2> QED
    BY <1>0, <1>1, <1>2, <2>1, <2>2, <2>3, TraceStays
<1>5. CASE /\ UNCHANGED <<req, fetch, unsettled, twice, issued>>
           /\ cookie' \in {cookie, None}
  <2>1. \A h \in Handler, t \in Token : Carries(h, t)' => Carries(h, t)
    BY <1>5 DEF Carries
  <2> QED
    BY <1>0, <1>1, <1>2, <1>5, <2>1, TraceStays
<1> QED
  BY <1>0, <1>3, <1>4, <1>5, SendTrace, HeadersTrace, OneMoves DEF Receives

-----------------------------------------------------------------------------
(* Reuse detection.                                                        *)

\* A request that is at the same point cannot have lost its reason to be there.
LEMMA AlarmStays ==
  ASSUME SafeInv, \A k \in Handler : Linked(k) /\ Alarm(k), Trace, [Next]_vars,
         twice \subseteq twice', NEW h \in Handler, req'[h] = req[h],
         req[h] # Idle => fetch'[h].sent = fetch[h].sent
  PROVE  Alarm(h)'
<1> DEFINE r == req[h]
<1>1. ASSUME r.op = "refresh", r.pc = "findToken", Used(r.token)'
      PROVE  r.token \in twice'
  <2>1. r.token \in Token /\ fetch[h].sent = r.token
    BY <1>1 DEF SafeInv, TypeInv, Shape, Linked
  <2>2. CASE Used(r.token)
    BY <1>1, <2>2 DEF Alarm
  <2>3. CASE \E k \in Handler : /\ req[k].op = "refresh" /\ req[k].pc = "updateSet"
                                /\ fetch[k].sent = r.token
    <3>1. PICK k \in Handler : /\ req[k].op = "refresh" /\ req[k].pc = "updateSet"
                               /\ fetch[k].sent = r.token
      BY <2>3
    <3>2. k # h
      BY <1>1, <3>1
    <3> QED
      BY <2>1, <3>1, <3>2 DEF Trace
  <2> QED
    BY <1>1, <2>1, <2>2, <2>3, UsedGrowth
<1>2. r.op = "reuse" => r # Idle
  BY DEF Idle
<1> QED
  BY <1>1, <1>2 DEF Alarm, Used

\* The alarm is raised by the second refresh with a token only.
LEMMA AlarmNext ==
  ASSUME SafeInv, BrowserTypeOK, \A k \in Handler : Linked(k) /\ Alarm(k), Trace,
         [BrowserNext]_<<vars, browserVars>>, NEW h \in Handler
  PROVE  Alarm(h)'
<1> DEFINE r == req[h]
           q == req'[h]
<1>0. TypeInv /\ [Next]_vars
  BY BrowserSteps DEF SafeInv
<1>1. ASSUME NEW g \in Handler, Send(g) PROVE Alarm(h)'
  <2>0. /\ Begins(g) /\ OnlyActs(g) /\ OnlyTracks(g) /\ UNCHANGED <<storeVars, cookie>>
        /\ twice \subseteq twice'
    BY <1>0, <1>1, SendDoes DEF Begins
  <2>1. CASE g # h
    BY <1>0, <2>0, <2>1, AlarmStays DEF OnlyActs, OnlyTracks
  <2>2. CASE g = h
    <3>1. ASSUME q.op = "refresh",
                 tokens'[q.token] # None, tokens'[q.token].status = "USED"
          PROVE  q.token \in twice'
      <4>1. /\ q.token = cookie /\ cookie \in Token
            /\ twice' = twice \cup ({cookie} \cap unsettled)
        BY <2>0, <2>2, <3>1 DEF Begins
      <4>2. Used(cookie)
        BY <2>0, <3>1, <4>1 DEF Used, storeVars
      <4> QED
        BY <4>1, <4>2 DEF Trace, Touched
    <3>2. q.op # "reuse" /\ q.pc # "updateSet"
      BY <2>0, <2>2 DEF Begins
    <3> QED
      BY <3>1, <3>2 DEF Alarm, Used
  <2> QED
    BY <2>1, <2>2
<1>2. ASSUME NEW g \in Handler, Work(g) PROVE Alarm(h)'
  <2>0. Moves(g) /\ OnlyActs(g) /\ OnlyTracks(g) /\ UNCHANGED twice
    BY <1>0, <1>2, WorkDoes
  <2>1. CASE g # h
    BY <1>0, <2>0, <2>1, AlarmStays DEF OnlyActs, OnlyTracks
  <2>2. CASE g = h /\ q = Idle
    BY <2>2 DEF Alarm, Idle
  <2>3. CASE g = h /\ q # Idle
    <3>0. UNCHANGED <<fetch, twice>>
      BY <1>0, <1>2, <2>3, WorkDoes
    <3>1. ~(q.op = "refresh" /\ q.pc = "findToken")
      BY <2>0, <2>3 DEF Moves, Keeps, AfterUpdate, Revoking
    <3>2. ASSUME q.op = "reuse" PROVE fetch[h].sent \in twice
      <4>1. CASE RefreshReused(h)
        <5>1. /\ r.op = "refresh" /\ r.pc = "findToken" /\ Used(r.token)
          BY <4>1 DEF RefreshReused, LookingUp, At, Presented, Used
        <5> QED
          BY <5>1 DEF Alarm, Linked
      <4>2. CASE r.op = "reuse"
        BY <4>2 DEF Alarm
      <4> QED
        BY <2>0, <2>3, <3>2, <4>1, <4>2 DEF Moves, Keeps
    <3>3. ASSUME q.op # "refresh", q.pc = "updateSet" PROVE q.rec.status # "USED"
      <4>1. /\ q.op = r.op
            /\ \/ q.rec.status = NewStatus(r)
               \/ UpdateResent(h) /\ q = r
        BY <2>0, <2>3, <3>3 DEF Moves, Keeps, AfterUpdate, Revoking
      <4> QED
        BY <3>3, <4>1 DEF Alarm, NewStatus
    <3> QED
      BY <3>0, <3>1, <3>2, <3>3 DEF Alarm
  <2> QED
    BY <2>1, <2>2, <2>3
<1>3. ASSUME NEW g \in Handler, Receives(g) PROVE Alarm(h)'
  <2>0. /\ UNCHANGED vars /\ UNCHANGED twice /\ OnlyTracks(g) /\ req[g] = Idle
    BY <1>3, ReceivesDoes
  <2> QED
    BY <1>0, <2>0, AlarmStays DEF OnlyTracks, vars
<1>4. CASE UNCHANGED <<req, fetch, twice>>
  BY <1>0, <1>4, AlarmStays
<1> QED
  BY <1>0, <1>1, <1>2, <1>3, <1>4, OneMoves

-----------------------------------------------------------------------------
(* One thing at a time.                                                    *)

\* While one handler is busy, no other has anything to do with the browser.
LEMMA Alone ==
  ASSUME OneBusy, \A k \in Handler : Linked(k), NEW g \in Handler,
         fetch[g] # NoFetch, NEW h \in Handler, h # g
  PROVE  fetch[h] = NoFetch /\ req[h] = Idle
<1>1. fetch[h] = NoFetch
  BY DEF OneBusy
<1> QED
  BY <1>1 DEF Linked, NoFetch

\* Who acts was busy, or everything was quiet; nobody else is busy afterwards.
LEMMA Undisturbed ==
  ASSUME TypeInv, BrowserTypeOK, \A k \in Handler : Linked(k), OneBusy, smooth',
         NEW g \in Handler, Send(g) \/ Work(g) \/ Receives(g)
  PROVE  /\ smooth /\ ~LoseBody(g)
         /\ \A h \in Handler : h # g => /\ fetch[h] = NoFetch /\ req[h] = Idle
                                        /\ fetch'[h] = NoFetch /\ req'[h] = Idle
<1>1. CASE Send(g)
  <2>1. smooth /\ Quiet /\ OnlyActs(g) /\ OnlyTracks(g)
    BY <1>1, SendDoes
  <2>2. ~LoseBody(g)
    BY <1>1, SendDoes DEF LoseBody, NoFetch
  <2> QED
    BY <2>1, <2>2 DEF Quiet, OnlyActs, OnlyTracks
<1>2. CASE Work(g)
  <2>1. /\ fetch[g].stage = "waiting" /\ OnlyActs(g) /\ OnlyTracks(g) /\ smooth
    BY <1>2, WorkDoes DEF Linked
  <2>2. fetch[g] # NoFetch /\ ~LoseBody(g)
    BY <2>1 DEF NoFetch, LoseBody
  <2> QED
    BY <2>1, <2>2, Alone DEF OnlyActs, OnlyTracks
<1>3. CASE Receives(g)
  <2>0. fetch[g].stage \in {"answered", "received"}
    BY <1>3 DEF Receives, ReceiveHeaders, ReadBody, LoseBody
  <2>1. fetch[g] # NoFetch
    BY <2>0 DEF NoFetch
  <2>2. OnlyTracks(g) /\ UNCHANGED req
    BY <1>3, ReceivesDoes DEF vars
  <2>3. smooth /\ ~LoseBody(g)
    BY <1>3 DEF Receives, ReceiveHeaders, ReadBody, LoseBody
  <2> QED
    BY <2>1, <2>2, <2>3, Alone DEF OnlyTracks
<1> QED
  BY <1>1, <1>2, <1>3

\* What the service and the page have in common at the start of such a step.
SmoothStep ==
  /\ BrowserInv /\ HistoryInv' /\ BrowserTypeOK' /\ (\A h \in Handler : Linked(h)')
  /\ [BrowserNext]_<<vars, browserVars>>
  /\ smooth /\ smooth'

\* The facts every part of the proof starts from.
LEMMA SmoothFacts ==
  ASSUME SmoothStep
  PROVE  /\ SafeInv /\ SafeInv' /\ TypeInv /\ TypeInv' /\ BrowserTypeOK /\ Smooth
         /\ RevokedForGood /\ (\A h \in Handler : Linked(h)) /\ [Next]_vars
         /\ Monotone /\ IndexGrowth /\ OneBusy
         /\ issued \in Nat /\ lapsed \in Nat /\ lapsed' \in Nat /\ lapsed <= lapsed'
         /\ delivered \subseteq 1..issued /\ 1..issued \subseteq Token
         /\ \A s \in Session : sessionTokens[s] \subseteq 1..issued
         /\ \A t \in 1..issued : Live(t)' => Live(t)
<1>1. /\ SafeInv /\ SafeInv' /\ TypeInv /\ TypeInv' /\ BrowserTypeOK /\ Smooth /\ OneBusy
      /\ RevokedForGood /\ (\A h \in Handler : Linked(h)) /\ delivered \subseteq 1..issued
  BY DEF SmoothStep, BrowserInv, HistoryInv, RevocationInv, SafeInv, Smooth
<1>2. [Next]_vars
  BY <1>1, BrowserSteps DEF SmoothStep
<1>3. Monotone /\ IndexGrowth
  BY <1>1, <1>2, NextMonotone
<1>4. /\ issued \in Nat /\ lapsed \in Nat /\ lapsed' \in Nat /\ 1..issued \subseteq Token
  BY <1>1, BoundsAssumption DEF TypeInv, TypeOK, StoreTypeOK, Token
<1> QED
  BY <1>1, <1>2, <1>3, <1>4 DEF Monotone, SafeInv, StoresAgree

\* At most one handler is busy.
LEMMA OneBusyNext ==
  ASSUME SmoothStep
  PROVE  OneBusy'
<1>1. ASSUME NEW g \in Handler, Send(g) \/ Work(g) \/ Receives(g) PROVE OneBusy'
  BY <1>1, SmoothFacts, Undisturbed DEF OneBusy, SmoothStep
<1>2. UNCHANGED fetch => OneBusy'
  BY SmoothFacts DEF OneBusy
<1> QED
  BY <1>1, <1>2, SmoothFacts, OneMoves DEF SmoothStep


\* b agrees with the cookie after the step.
AgreesNow(b) == cookie' = b \/ (cookie' = None /\ b # None /\ b <= lapsed')

\* Time takes no agreement away.
LEMMA AgreesStays ==
  ASSUME SmoothStep, NEW b \in Token \cup {None}, Agrees(b), UNCHANGED cookie \/ DropCookie
  PROVE  AgreesNow(b)
<1>1. (b # None => b \in Nat) /\ (cookie # None => cookie \in Nat)
  BY SmoothFacts, BoundsAssumption DEF Token, BrowserTypeOK
<1>2. lapsed \in Nat /\ lapsed' \in Nat /\ lapsed <= lapsed'
  BY SmoothFacts
<1>3. b # None /\ b <= lapsed => b <= lapsed'
  BY <1>1, <1>2
<1> QED
  BY <1>3 DEF Agrees, AgreesNow, Expired, DropCookie

\* The two storages agree between an answer's headers and its body about the
\* answer, otherwise with each other.
LEMMA StoragesNext ==
  ASSUME SmoothStep
  PROVE  Storages'
<1>0. /\ Storages /\ TypeInv /\ BrowserTypeOK /\ (\A h \in Handler : Linked(h))
      /\ smooth' /\ OneBusy /\ bearer \in Token \cup {None}
      /\ \A h \in Handler : fetch[h] \in Fetch /\ fetch[h].got \in Token \cup {None}
  BY SmoothFacts DEF Smooth, SmoothStep, BrowserTypeOK, Fetch
<1>1. ASSUME \A h \in Handler : fetch'[h].stage = "received" => AgreesNow(fetch'[h].got),
             (\A h \in Handler : fetch'[h].stage # "received") => AgreesNow(bearer')
      PROVE  Storages'
  BY <1>1 DEF Storages, Agrees, AgreesNow, Expired
<1>2. ASSUME UNCHANGED cookie \/ DropCookie, UNCHANGED bearer,
             \A h \in Handler : (fetch[h].stage = "received" \/ fetch'[h].stage = "received")
                                  => fetch'[h] = fetch[h]
      PROVE  Storages'
  <2>1. ASSUME NEW h \in Handler, fetch'[h].stage = "received"
        PROVE  AgreesNow(fetch'[h].got)
    <3>1. Agrees(fetch[h].got) /\ fetch'[h] = fetch[h]
      BY <1>0, <1>2, <2>1 DEF Storages
    <3> QED
      BY <1>0, <1>2, <3>1, AgreesStays
  <2>2. ASSUME \A h \in Handler : fetch'[h].stage # "received" PROVE AgreesNow(bearer')
    <3>1. Agrees(bearer)
      BY <1>0, <1>2, <2>2 DEF Storages
    <3> QED
      BY <1>0, <1>2, <3>1, AgreesStays
  <2> QED
    BY <1>1, <2>1, <2>2
<1>3. ASSUME NEW g \in Handler, Send(g) PROVE Storages'
  <2>1. /\ fetch[g] = NoFetch /\ fetch'[g].stage = "waiting" /\ OnlyTracks(g)
        /\ UNCHANGED <<cookie, bearer>>
    BY <1>0, <1>3, SendDoes DEF Begins
  <2> QED
    BY <1>2, <2>1 DEF OnlyTracks, NoFetch
<1>4. ASSUME NEW g \in Handler, Work(g) PROVE Storages'
  <2>1. /\ fetch[g].stage = "waiting" /\ OnlyTracks(g) /\ UNCHANGED <<cookie, bearer>>
        /\ fetch'[g] = fetch[g] \/ Ends(g)
    BY <1>0, <1>4, WorkDoes DEF Linked
  <2>2. fetch'[g].stage # "received"
    BY <2>1 DEF Ends, NoFetch
  <2> QED
    BY <1>2, <2>1, <2>2 DEF OnlyTracks
<1>5. ASSUME NEW g \in Handler, ReceiveHeaders(g) PROVE Storages'
  <2>1. /\ \/ fetch'[g] = NoFetch
           \/ fetch'[g].stage = "received" /\ fetch'[g].got = fetch[g].got
        /\ cookie' = fetch[g].got
        /\ fetch' = [fetch EXCEPT ![g] = [fetch[g] EXCEPT !.stage = "received"]]
    BY <1>0, <1>5, ReceivesDoes DEF Receives, ReceiveHeaders, CookieAfter, Track
  <2>2. \A h \in Handler : h # g => fetch'[h].stage # "received"
    BY <1>0, <1>5, Undisturbed DEF Receives, NoFetch
  <2>3. fetch'[g].stage = "received"
    BY <1>0, <2>1 DEF BrowserTypeOK, Fetch
  <2>4. fetch'[g].got = cookie'
    BY <2>1, <2>3 DEF NoFetch
  <2> QED
    BY <1>1, <2>2, <2>3, <2>4 DEF AgreesNow
<1>6. ASSUME NEW g \in Handler, ReadBody(g) PROVE Storages'
  <2>1. \A h \in Handler : fetch'[h].stage # "received"
    <3>1. \A h \in Handler : h # g => fetch'[h] = NoFetch
      BY <1>0, <1>6, Undisturbed DEF Receives
    <3>2. fetch'[g] = NoFetch
      BY <1>0, <1>6 DEF ReadBody, Track, BrowserTypeOK
    <3> QED
      BY <3>1, <3>2 DEF NoFetch
  <2>2. /\ Agrees(fetch[g].got) /\ bearer' = fetch[g].got /\ UNCHANGED cookie
    BY <1>0, <1>6 DEF ReadBody, Storages
  <2> QED
    BY <1>0, <1>1, <2>1, <2>2, AgreesStays
<1>7. ASSUME NEW g \in Handler, LoseBody(g) PROVE Storages'
  BY <1>0, <1>7 DEF LoseBody
<1>8. CASE \/ DropCookie \/ UNCHANGED <<vars, browserVars>>
           \/ Tick /\ UNCHANGED browserVars
  BY <1>2, <1>8 DEF DropCookie, browserVars
<1> QED
  BY <1>3, <1>4, <1>5, <1>6, <1>7, <1>8 DEF SmoothStep, BrowserNext

\* An index grows by the token a handler creates for its session.
LEMMA IndexOf ==
  ASSUME TypeInv, [Next]_vars, NEW s \in Session, NEW n \in sessionTokens'[s],
         n \notin sessionTokens[s]
  PROVE  \E g \in Handler : /\ CreateToken(g) /\ req[g].pc = "createToken"
                            /\ s = req[g].session /\ n = issued + 1
<1>1. ~UNCHANGED sessionTokens
  OBVIOUS
<1>2. PICK g \in Handler : CreateToken(g)
  BY <1>1, WhoWrites
  DEF Tick, Lapse, Expire, storeVars, InsertSession, EndSession, RevokeSessions,
      UpdateSet, UpdateResent, Set
<1>3. /\ req[g].pc = "createToken"
      /\ sessionTokens' = [sessionTokens EXCEPT ![req[g].session] = @ \cup {issued + 1}]
  BY <1>2 DEF CreateToken, Create, At
<1>4. s = req[g].session /\ n = issued + 1
  BY <1>3 DEF TypeInv, TypeOK, StoreTypeOK
<1> QED
  BY <1>2, <1>3, <1>4

\* A session gets a token when the others of its chain are out of use.
LEMMA ChainOrderNext ==
  ASSUME SmoothStep
  PROVE  ChainOrder'
<1> SUFFICES ASSUME NEW s \in Session, NEW t \in sessionTokens'[s],
                    NEW n \in sessionTokens'[s], t < n, Live(t)'
             PROVE  FALSE
  BY DEF ChainOrder, Live
<1>0. /\ TypeInv /\ [Next]_vars /\ ChainOrder /\ issued \in Nat
      /\ \A h \in Handler : Revival(h)
      /\ sessionTokens[s] \subseteq 1..issued
      /\ \A c \in sessionTokens'[s] : c \in sessionTokens[s] \/ c = issued + 1
      /\ \A c \in 1..issued : Live(c)' => Live(c)
  BY SmoothFacts DEF Smooth, IndexGrowth
<1>1. t \in sessionTokens[s] /\ Live(t)
  <2>1. t # issued + 1
    BY <1>0
  <2> QED
    BY <1>0, <2>1
<1>2. CASE n \in sessionTokens[s]
  BY <1>0, <1>1, <1>2 DEF ChainOrder
<1>3. CASE n \notin sessionTokens[s]
  <2>1. PICK g \in Handler : req[g].pc = "createToken" /\ s = req[g].session
    BY <1>0, <1>3, IndexOf
  <2> QED
    BY <1>0, <1>1, <2>1 DEF Revival
<1> QED
  BY <1>2, <1>3

\* c is the newest token of its session after the step.
NewestNow(c) ==
  \A s \in Session :
    c \in sessionTokens'[s] => \A t \in delivered' \cap sessionTokens'[s] : t <= c

\* What the browser does not hear of does not make its token older.
LEMMA NewestStays ==
  ASSUME SmoothStep, NEW c \in 1..issued, Newest(c), UNCHANGED delivered
  PROVE  NewestNow(c)
<1>1. /\ issued \in Nat /\ delivered \subseteq 1..issued
      /\ \A s \in Session : \A t \in sessionTokens'[s] :
           t \in sessionTokens[s] \/ t = issued + 1
  BY SmoothFacts DEF IndexGrowth
<1>2. \A s \in Session : \A t \in 1..issued :
        t \in sessionTokens'[s] => t \in sessionTokens[s]
  BY <1>1
<1> QED
  BY <1>1, <1>2 DEF Newest, NewestNow

\* Outside an answer's way the cookie is the newest token of its session.
LEMMA CookieNewest ==
  ASSUME SmoothStep, cookie' # None, \A h \in Handler : fetch'[h].stage # "answered"
  PROVE  NewestNow(cookie')
<1>0. /\ TypeInv /\ BrowserTypeOK /\ (\A h \in Handler : Linked(h)) /\ OneBusy
      /\ smooth' /\ Trace
      /\ cookie # None => cookie \in Token /\ cookie \in 1..issued
      /\ cookie # None /\ (\A h \in Handler : fetch[h].stage # "answered") =>
           Newest(cookie)
  BY SmoothFacts DEF Smooth, SmoothStep, BrowserInv, Trace, Landed, BrowserTypeOK
<1>1. ASSUME UNCHANGED <<cookie, delivered>>,
             \A h \in Handler : fetch[h].stage # "answered"
      PROVE  NewestNow(cookie')
  <2>1. cookie \in 1..issued /\ Newest(cookie)
    BY <1>0, <1>1
  <2>2. NewestNow(cookie)
    BY <1>1, <2>1, NewestStays
  <2> QED
    BY <1>1, <2>2
<1>2. ASSUME NEW g \in Handler, Send(g) PROVE NewestNow(cookie')
  <2>1. fetch[g] = NoFetch /\ OnlyTracks(g) /\ UNCHANGED <<cookie, delivered>>
    BY <1>0, <1>2, SendDoes
  <2>2. \A h \in Handler : fetch[h].stage # "answered"
    BY <2>1 DEF OnlyTracks, NoFetch
  <2> QED
    BY <1>1, <2>1, <2>2
<1>3. ASSUME NEW g \in Handler, Work(g) PROVE NewestNow(cookie')
  <2>1. /\ fetch[g].stage = "waiting" /\ OnlyTracks(g) /\ UNCHANGED cookie
        /\ UNCHANGED <<fetch, delivered>> \/ Ends(g)
    BY <1>0, <1>3, WorkDoes DEF Linked
  <2>2. UNCHANGED delivered
    BY <2>1 DEF Ends
  <2>3. \A h \in Handler : fetch[h].stage # "answered"
    BY <2>1 DEF OnlyTracks
  <2> QED
    BY <1>1, <2>1, <2>2, <2>3
<1>4. ASSUME NEW g \in Handler, ReceiveHeaders(g) PROVE NewestNow(cookie')
  <2>1. /\ fetch[g].stage = "answered" /\ cookie' = fetch[g].got /\ UNCHANGED vars
    BY <1>4 DEF ReceiveHeaders, CookieAfter
  <2>2. Newest(cookie') /\ UNCHANGED <<sessionTokens, delivered>>
    BY <2>1, SmoothFacts DEF Smooth, Revival, vars
  <2> QED
    BY <2>2 DEF Newest, NewestNow
<1>5. ASSUME NEW g \in Handler, ReadBody(g) \/ LoseBody(g) PROVE NewestNow(cookie')
  <2>1. /\ fetch[g].stage = "received" /\ UNCHANGED <<cookie, delivered>>
        /\ \A h \in Handler : h # g => fetch[h] = NoFetch
    BY <1>0, <1>5, Undisturbed DEF Receives, ReadBody, LoseBody, vars
  <2>2. \A h \in Handler : fetch[h].stage # "answered"
    BY <2>1 DEF NoFetch
  <2> QED
    BY <1>1, <2>1, <2>2
<1>6. CASE UNCHANGED <<fetch, delivered>> /\ cookie' \in {cookie, None}
  BY <1>1, <1>6
<1> QED
  BY <1>0, <1>2, <1>3, <1>4, <1>5, <1>6, OneMoves DEF SmoothStep, Receives

\* Neither logout nor reuse detection takes a session from under a token the
\* browser could still use, and it is handed tokens of running sessions only.
LEMMA ForGood ==
  ASSUME SmoothStep
  PROVE  RevokedForGood'
<1> SUFFICES ASSUME NEW t \in delivered', Usable(t)'
             PROVE  sessions'[tokens'[t].session].status = "ACTIVE"
  BY DEF RevokedForGood, Usable, Live, Expired
<1>0. /\ SafeInv /\ SafeInv' /\ TypeInv /\ BrowserTypeOK /\ Monotone /\ [Next]_vars
      /\ (\A h \in Handler : Linked(h) /\ Revival(h)) /\ issued \in Nat
      /\ RevokedForGood /\ delivered \subseteq 1..issued /\ 1..issued \subseteq Token
      /\ ChainOrder /\ smooth
      /\ \A h \in Handler : Stored(h) /\ LogsOut(h) /\ RevokesAll(h) /\ Claims(h)
      /\ IndexesFit
  BY SmoothFacts
  DEF Smooth, SmoothStep, BrowserInv, HistoryInv, RevocationInv
<1>1. /\ t \in 1..issued
      /\ \/ t \in delivered
         \/ /\ UNCHANGED <<tokens, sessions>>
            /\ \E h \in Handler : /\ req[h].pc = "finish" /\ t = req[h].cur
                                  /\ req[h].op \in {"login", "refresh"}
  <2>1. CASE t \in delivered
    BY <1>0, <2>1
  <2>2. CASE t \notin delivered
    <3>1. PICK h \in Handler : Work(h)
      BY <1>0, <2>2, OneMoves, SendDoes, ReceivesDoes DEF SmoothStep, vars
    <3>2. Ends(h) /\ req'[h] = Idle /\ Moves(h)
      BY <1>0, <2>2, <3>1, WorkDoes
    <3>3. req[h].pc = "finish" /\ t = req[h].cur /\ req[h].op \in {"login", "refresh"}
      BY <2>2, <3>2 DEF Ends
    <3>4. UNCHANGED <<storeVars, sessions>>
      BY <3>2, <3>3 DEF Moves, Idle, Keeps, AfterUpdate
    <3> QED
      BY <1>0, <3>3, <3>4 DEF Stored, storeVars
  <2> QED
    BY <2>1, <2>2
<1>2. /\ Usable(t) /\ tokens'[t] = tokens[t] /\ tokens[t] # None /\ tokens[t] \in TokenRecord
      /\ tokens[t].session \in Session /\ t \in sessionTokens[tokens[t].session]
  <2>1. Usable(t) /\ tokens'[t] = tokens[t]
    BY <1>0, <1>1, UseStays
  <2>2. t \in Token /\ tokens[t] # None
    BY <1>0, <1>1, <2>1 DEF Usable, Live
  <2>3. tokens[t] \in TokenRecord /\ TokensIndexed
    BY <1>0, <2>2 DEF SafeInv, StoresAgree, TypeInv, TypeOK, StoreTypeOK
  <2> QED
    BY <2>1, <2>2, <2>3 DEF TokenRecord, TokensIndexed
<1> DEFINE s == tokens[t].session
<1>3. CASE t \notin delivered
  <2>1. PICK h \in Handler : /\ req[h].pc = "finish" /\ t = req[h].cur
                             /\ req[h].op \in {"login", "refresh"}
    BY <1>1, <1>3
  <2>2. req[h].session \in Session /\ t \in sessionTokens[req[h].session]
    BY <1>0, <2>1 DEF Claims, TypeInv, Shape, Found
  <2>3. req[h].session = s
    BY <1>0, <1>2, <2>2 DEF IndexesFit
  <2>4. sessions[s].status = "ACTIVE"
    BY <1>0, <2>1, <2>3 DEF Revival
  <2> QED
    BY <1>1, <1>2, <1>3, <2>4
<1>4. CASE t \in delivered
  <2>1. /\ sessions[s].status = "ACTIVE" /\ sessions[s] # None
        /\ sessions[s].user = tokens[t].user
    BY <1>0, <1>1, <1>2, <1>4 DEF RevokedForGood, SafeInv, StoresAgree, TokenOwned
  <2>2. CASE sessions'[s] = sessions[s]
    BY <1>2, <2>1, <2>2
  <2>3. ASSUME NEW h \in Handler, EndSession(h), sessions'[s] # sessions[s] PROVE FALSE
    <3>1. req[h].pc = "endSession" /\ s = req[h].session
      BY <1>2, <2>3 DEF EndSession, At, RevokeById, Revoke
    <3>2. req[h].op = "logout" /\ s # None
      BY <1>0, <1>2, <3>1, NoneAssumption
      DEF TypeInv, TypeOK, Shape, CallsOf, Loop, Revoking, Request, Operation
    <3>3. req[h].token \in sessionTokens[s]
      BY <1>0, <3>1, <3>2 DEF Revival
    <3>4. req[h].token \in Token /\ req[h].token # None
      BY <1>0, <1>2, <3>3, NoneAssumption DEF TypeInv, TypeOK, StoreTypeOK
    <3>5. t <= req[h].token /\ ~Usable(req[h].token)
      BY <1>0, <1>2, <1>4, <3>1, <3>2, <3>3, <3>4 DEF Revival, Newest, LogsOut
    <3>6. t < req[h].token
      BY <1>1, <1>2, <3>4, <3>5, BoundsAssumption DEF Token
    <3> QED
      BY <1>0, <1>2, <3>3, <3>6 DEF ChainOrder, Usable
  <2>4. ASSUME NEW h \in Handler, RevokeSessions(h), sessions'[s] # sessions[s] PROVE FALSE
    <3>1. req[h].pc = "revokeNext" /\ req[h].todo = {} /\ req[h].op # "revokeSession"
      BY <1>0, <2>4 DEF RevokeSessions, At, Linked
    <3>2. req[h].user = tokens[t].user
      BY <1>2, <2>1, <2>4, <3>1 DEF RevokeSessions, RevokeByUser, Revoke
    <3>3. Walking(req[h])
      BY <1>0, <3>1
      DEF Walking, TypeInv, TypeOK, Shape, CallsOf, Loop, Revoking, Request, Operation
    <3>4. t \in 1..req[h].since /\ Concerns(req[h], t)
      BY <1>0, <1>4, <3>1, <3>2, <3>3 DEF Revival, Concerns
    <3> QED
      BY <1>0, <1>2, <3>1, <3>3, <3>4 DEF RevokesAll, InHand
  <2>5. ASSUME NEW h \in Handler, InsertSession(h) PROVE sessions'[s] = sessions[s]
    BY <1>0, <1>2, <2>1, <2>5
    DEF InsertSession, Insert, TypeInv, TypeOK, SessionsTypeOK
  <2> QED
    BY <1>0, <2>2, <2>3, <2>4, <2>5, WhoWrites
    DEF Tick, CreateToken, UpdateSet, UpdateResent
<1> QED
  BY <1>3, <1>4

-----------------------------------------------------------------------------
(* What the busy handler knows.                                            *)

\* A handler with nothing to do and no answer under way knows nothing.
LEMMA IdleRevival ==
  ASSUME NEW h, req'[h] = Idle, fetch'[h].stage # "answered"
  PROVE  Revival(h)'
BY DEF Revival, Idle, Walking, Revoking

\* Time leaves the busy handler what it knows.
LEMMA RevivalStays ==
  ASSUME SmoothStep, NEW h \in Handler, req'[h] = req[h], fetch'[h] = fetch[h],
         UNCHANGED <<sessionTokens, sessions, issued, delivered>>
  PROVE  Revival(h)'
<1>1. /\ Revival(h) /\ Shape(req[h])
      /\ \A s \in Session : \A t \in sessionTokens[s] : Live(t)' => Live(t)
  BY SmoothFacts DEF Smooth, TypeInv
<1>2. req[h].pc = "createToken" => req[h].session \in Session
  BY <1>1 DEF Shape
<1>3. req[h].op = "refresh" /\ req[h].pc \in {"updateGet", "updateSet"} =>
        req[h].session \in Session
  BY <1>1 DEF Shape, Found
<1> QED
  BY <1>1, <1>2, <1>3 DEF Revival, Newest, Live

\* A logout presents the cookie.
LEMMA SendRevival ==
  ASSUME SmoothStep, NEW h \in Handler, Send(h)
  PROVE  Revival(h)'
<1> DEFINE q == req'[h]
<1>1. /\ Begins(h) /\ UNCHANGED <<storeVars, delivered, cookie>> /\ Quiet
      /\ smooth' = (smooth /\ Quiet)
  BY SmoothFacts, SendDoes DEF SmoothStep
<1>2. \A k \in Handler : fetch[k].stage # "answered"
  BY <1>1 DEF Quiet, NoFetch
<1>3. q.op = "logout" /\ q.token # None => NewestNow(q.token) /\ q.session = None
  <2> SUFFICES ASSUME q.op = "logout", q.token # None
               PROVE  NewestNow(q.token) /\ q.session = None
    OBVIOUS
  <2>1. q.token = cookie /\ q.session = None
    BY <1>1 DEF Begins
  <2>2. Newest(cookie)
    BY <1>2, <2>1, SmoothFacts DEF Smooth
  <2>3. UNCHANGED <<sessionTokens, delivered>>
    BY <1>1 DEF storeVars
  <2> QED
    BY <2>1, <2>2, <2>3 DEF Newest, NewestNow
<1>4. q.op = "logout" => q.session = None
  BY <1>1 DEF Begins
<1>5. /\ fetch'[h].stage = "waiting" /\ q.pc # "createToken"
      /\ q.op \in {"login", "refresh"} => q.pc \in {"insertSession", "findToken"}
      /\ ~Walking(q)
  BY <1>1 DEF Begins, Walking, Loop, Revoking
<1> QED
  BY <1>3, <1>4, <1>5 DEF Revival, Newest, NewestNow

\* The answer of a login or refresh brings the youngest of all tokens.
LEMMA EndsRevival ==
  ASSUME SmoothStep, NEW h \in Handler, Work(h), req'[h] = Idle
  PROVE  Revival(h)'
<1>1. Ends(h) /\ Revival(h) /\ Linked(h) /\ delivered \subseteq 1..issued /\ issued \in Nat
  BY SmoothFacts, WorkDoes DEF Smooth
<1>2. CASE fetch'[h].stage # "answered"
  BY <1>2, IdleRevival
<1>3. CASE fetch'[h].stage = "answered" /\ fetch'[h].got = None
  BY <1>3 DEF Revival, Idle, Walking, Revoking
<1>4. CASE fetch'[h].stage = "answered" /\ fetch'[h].got # None
  <2>1. /\ req[h].pc = "finish" /\ req[h].op \in {"login", "refresh"}
        /\ fetch'[h].got = req[h].cur /\ delivered' = delivered \cup {req[h].cur}
    BY <1>1, <1>4 DEF Ends, Linked, NoFetch
  <2>2. req[h].cur = issued
    BY <1>1, <2>1 DEF Revival
  <2>3. ASSUME NEW t \in delivered' PROVE t <= issued
    <3>1. CASE t = issued
      BY <1>1, <3>1
    <3>2. CASE t \in delivered
      <4>1. t \in 1..issued
        BY <1>1, <3>2
      <4> QED
        BY <1>1, <4>1
    <3> QED
      BY <2>1, <2>2, <3>1, <3>2
  <2>4. NewestNow(fetch'[h].got)
    BY <2>1, <2>2, <2>3 DEF NewestNow
  <2> QED
    BY <2>4 DEF Revival, Newest, NewestNow, Idle, Walking, Revoking
<1> QED
  BY <1>2, <1>3, <1>4

\* The token of a logout, and its session, while the logout goes on.
LEMMA LogoutRevival ==
  ASSUME SmoothStep, NEW h \in Handler, Work(h), req'[h] # Idle, req'[h].op = "logout"
  PROVE  /\ req'[h].token # None => NewestNow(req'[h].token)
         /\ req'[h].session # None =>
              req'[h].session \in Session /\ req'[h].token \in sessionTokens'[req'[h].session]
<1> DEFINE r == req[h]
           q == req'[h]
<1>1. /\ Moves(h) /\ Revival(h) /\ Stored(h) /\ UNCHANGED delivered /\ r \in Request
      /\ SafeInv /\ SafeInv' /\ Monotone
  BY SmoothFacts, WorkDoes
  DEF Smooth, SmoothStep, BrowserInv, HistoryInv, RevocationInv, TypeInv, TypeOK
<1>2. r.op = "logout" /\ q.token = r.token
  BY <1>1 DEF Moves, Keeps, Revoking, LogoutFind, LookingUp
<1>3. q.token # None => NewestNow(q.token)
  <2>1. q.token # None => r.token \in 1..issued /\ Newest(r.token)
    BY <1>1, <1>2 DEF Stored, Revival
  <2> QED
    BY <1>1, <1>2, <2>1, NewestStays
<1>4. r.session # None => r.session \in Session /\ r.token \in sessionTokens'[r.session]
  BY <1>1, <1>2 DEF Request, Revival, Monotone
<1>5. CASE LogoutFind(h)
  <2>1. /\ r.token \in Token /\ r.pc = "findToken" /\ UNCHANGED storeVars
        /\ tokens \in [Token -> TokenRecord \cup {None}] /\ TokensIndexed
    BY <1>1, <1>5
    DEF LogoutFind, LookingUp, At, Proceed, SafeInv, StoresAgree, TypeInv, TypeOK, Shape,
        StoreTypeOK
  <2>2. Presented(h) # None => /\ Presented(h).session \in Session
                               /\ r.token \in sessionTokens'[Presented(h).session]
    BY <2>1 DEF Presented, TokensIndexed, TokenRecord, storeVars
  <2>3. q.session = IF Presented(h) = None THEN r.session ELSE Presented(h).session
    BY <1>1, <1>5, <2>1 DEF Moves, LogoutFind, Keeps
  <2> QED
    BY <1>2, <1>3, <1>4, <2>2, <2>3
<1>6. CASE ~LogoutFind(h)
  <2>1. q.session = r.session
    BY <1>1, <1>2, <1>6 DEF Moves, Keeps, Revoking
  <2> QED
    BY <1>2, <1>3, <1>4, <2>1
<1> QED
  BY <1>5, <1>6

\* The token of a refresh is the only one of its session in use until it is
\* USED, then there is none until the next one is created.
LEMMA RefreshRevival ==
  ASSUME SmoothStep, NEW h \in Handler, Work(h), req'[h] # Idle
  PROVE  /\ req'[h].op = "refresh" /\ req'[h].pc \in {"updateGet", "updateSet"} =>
              \A t \in sessionTokens'[req'[h].session] : Live(t)' => t = req'[h].cur
         /\ req'[h].pc = "createToken" =>
              \A t \in sessionTokens'[req'[h].session] : ~Live(t)'
<1> DEFINE r == req[h]
           q == req'[h]
<1>0. /\ Moves(h) /\ Revival(h) /\ Linked(h) /\ r \in Request /\ Shape(r) /\ Knows(h)
      /\ SafeInv /\ SafeInv' /\ Monotone /\ ChainOrder /\ TypeInv
      /\ tokens \in [Token -> TokenRecord \cup {None}]
      /\ issued \in Nat /\ 1..issued \subseteq Token
      /\ \A s \in Session : sessionTokens[s] \subseteq 1..issued
      /\ \A s \in Session : \A t \in sessionTokens[s] : Live(t)' => Live(t)
  BY SmoothFacts, WorkDoes
  DEF Smooth, SafeInv, TypeInv, TypeOK, StoreTypeOK
<1>1. CASE q.op = "refresh" /\ q.pc \in {"updateGet", "updateSet"}
  <2>1. CASE RefreshAccepted(h)
    <3>1. /\ r.token \in Token /\ Usable(r.token) /\ UNCHANGED <<tokens, sessionTokens>>
          /\ r.op = "refresh" /\ r.pc = "findToken"
      BY <1>0, <2>1 DEF RefreshAccepted, LookingUp, At, Proceed, storeVars, Shape
    <3>2. q.cur = r.token /\ q.session = tokens[r.token].session
      BY <1>0, <1>1, <2>1, <3>1 DEF Moves, Keeps, Presented
    <3>3. /\ q.session \in Session /\ r.token \in sessionTokens[q.session]
          /\ Live(r.token)
      BY <1>0, <3>1, <3>2
      DEF Usable, Live, TokenRecord, SafeInv, StoresAgree, TokensIndexed
    <3>4. ASSUME NEW t \in sessionTokens[q.session], Live(t) PROVE t = r.token
      <4>1. ~(t < r.token) /\ ~(r.token < t)
        BY <1>0, <3>3, <3>4 DEF ChainOrder
      <4>2. t \in Nat /\ r.token \in Nat
        BY <1>0, <3>3
      <4> QED
        BY <4>1, <4>2
    <3> QED
      BY <1>1, <3>1, <3>2, <3>4 DEF Live
  <2>2. CASE ~RefreshAccepted(h)
    <3>1. /\ r.op = "refresh" /\ r.pc \in {"updateGet", "updateSet"} /\ q.cur = r.cur
          /\ q.session = r.session /\ UNCHANGED sessionTokens
      BY <1>0, <1>1, <2>2
      DEF Moves, Keeps, Revoking, AfterUpdate, UpdateGet, UpdateResent, Proceed,
          storeVars, Set, At
    <3>2. r.session \in Session
      BY <1>0, <3>1 DEF Shape, Found
    <3> QED
      BY <1>0, <1>1, <3>1, <3>2 DEF Revival
  <2> QED
    BY <2>1, <2>2
<1>2. CASE q.pc = "createToken"
  <2>1. CASE InsertSession(h)
    <3>1. q.op = "login"
      BY <1>0, <1>2, <2>1 DEF Moves, Keeps, AfterUpdate, Revoking, InsertSession, At
    <3>2. sessionTokens'[q.session] = {}
      BY <1>0, <1>2, <3>1 DEF SafeInv, SessionsFresh, FreshLogin, At
    <3> QED
      BY <1>2, <3>2
  <2>2. CASE ~InsertSession(h)
    <3>1. /\ r.op = "refresh" /\ UpdateSet(h) /\ r.pc = "updateSet"
          /\ q.session = r.session
      BY <1>0, <1>2, <2>2 DEF Moves, Keeps, AfterUpdate, Revoking
    <3>2. /\ r.session \in Session /\ r.cur \in Token /\ r.rec.status # "ACTIVE"
      BY <1>0, <3>1 DEF Shape, Found, Knows
    <3>3. /\ tokens' = [tokens EXCEPT ![r.cur] = r.rec] /\ UNCHANGED sessionTokens
      BY <3>1 DEF UpdateSet, Set
    <3>4. ASSUME NEW t \in sessionTokens[r.session], tokens'[t] # None,
                 tokens'[t].status = "ACTIVE"
          PROVE  FALSE
      <4>1. t = r.cur
        BY <1>0, <3>1, <3>2, <3>4 DEF Revival, Live
      <4>2. tokens'[r.cur] = r.rec
        BY <1>0, <3>2, <3>3
      <4> QED
        BY <3>2, <3>4, <4>1, <4>2
    <3> QED
      BY <1>2, <3>1, <3>3, <3>4 DEF Live
  <2> QED
    BY <2>1, <2>2
<1> QED
  BY <1>1, <1>2

\* The session of a login or refresh is ACTIVE, its new token the youngest, and
\* a Revoke... loop has every token of the browser before it.
LEMMA GrantRevival ==
  ASSUME SmoothStep, NEW h \in Handler, Work(h), req'[h] # Idle
  PROVE  LET q == req'[h]
         IN  /\ q.op \in {"login", "refresh"} /\ q.pc \notin {"insertSession", "findToken"} =>
                  sessions'[q.session].status = "ACTIVE"
             /\ q.op \in {"login", "refresh"} /\ q.pc \in {"touchSession", "finish"} =>
                  q.cur = issued'
             /\ Walking(q) => delivered' \subseteq 1..q.since
<1> DEFINE r == req[h]
           q == req'[h]
<1>0. /\ Moves(h) /\ Revival(h) /\ Linked(h) /\ r \in Request /\ Shape(r)
      /\ SafeInv /\ TypeInv /\ RevokedForGood /\ UNCHANGED delivered
      /\ delivered \subseteq 1..issued /\ tokens \in [Token -> TokenRecord \cup {None}]
      /\ sessions \in [Session -> SessionRow \cup {None}] /\ smooth
  BY SmoothFacts, WorkDoes
  DEF Smooth, SmoothStep, SafeInv, TypeInv, TypeOK, StoreTypeOK, SessionsTypeOK
<1>1. CASE q.op \in {"login", "refresh"}
  <2>0. ~Walking(q)
    BY <1>1 DEF Walking, Revoking
  <2>1. CASE RefreshAccepted(h)
    <3>1. /\ r.token \in delivered /\ Usable(r.token) /\ UNCHANGED sessions
          /\ r.op = "refresh" /\ r.pc = "findToken"
      BY <1>0, <2>1 DEF RefreshAccepted, LookingUp, At, Proceed, Linked
    <3>2. q.session = tokens[r.token].session /\ q.pc = "updateGet"
      BY <1>0, <1>1, <2>1, <3>1 
      DEF Moves, Keeps, Presented, InsertSession, CreateToken, At, Revoking
    <3> QED
      BY <1>0, <2>0, <3>1, <3>2 DEF RevokedForGood
  <2>2. CASE InsertSession(h)
    <3>1. PICK s \in Session : /\ Insert(s, r.user)
                               /\ q = [r EXCEPT !.pc = "createToken", !.session = s]
      BY <1>0, <2>2, BecomeActs DEF InsertSession
    <3>2. q.session = s /\ q.pc = "createToken"
      BY <1>0, <3>1 DEF Request
    <3>3. sessions'[s].status = "ACTIVE"
      BY <1>0, <3>1 DEF Insert
    <3> QED
      BY <2>0, <3>2, <3>3
  <2>3. CASE CreateToken(h)
    <3>1. /\ q.op = r.op /\ q.session = r.session /\ r.pc = "createToken"
          /\ q.cur = issued + 1 /\ issued' = issued + 1 /\ UNCHANGED sessions
      BY <1>0, <1>1, <2>3
      DEF Moves, Keeps, CreateToken, Create, At, UpdateSet, UpdateGet, UpdateMissing,
          UpdateResent, LookingUp, RefreshAccepted, InsertSession, LogoutFind
    <3> QED
      BY <1>0, <1>1, <2>0, <3>1 DEF Revival
  <2>4. CASE ~RefreshAccepted(h) /\ ~InsertSession(h) /\ ~CreateToken(h)
    <3>1. /\ q.op = r.op /\ q.session = r.session
          /\ r.pc \notin {"insertSession", "findToken"}
          /\ UNCHANGED <<sessions, issued>>
          /\ q.pc \in {"touchSession", "finish"} =>
               r.pc \in {"touchSession", "finish"} /\ q.cur = r.cur
      BY <1>0, <1>1, <2>4
      DEF Moves, Keeps, Revoking, AfterUpdate, UpdateGet, UpdateSet, UpdateResent,
          UpdateMissing, TouchSession, Proceed, storeVars, Set, At
    <3> QED
      BY <1>0, <1>1, <2>0, <3>1 DEF Revival
  <2> QED
    BY <2>1, <2>2, <2>3, <2>4
<1>2. CASE q.op \notin {"login", "refresh"}
  <2>1. ASSUME Walking(q) PROVE delivered' \subseteq 1..q.since
    <3>1. CASE ListTokens(h)
      <4>1. q.since = issued
        BY <1>0, <2>1, <3>1
        DEF Moves, Keeps, ListTokens, At, Walking, Loop, Revoking, RefreshReused,
            LookingUp, LogoutFind, InsertSession, CreateToken, RefreshAccepted,
            RevokeNext, FindSession
      <4> QED
        BY <1>0, <4>1
    <3>2. CASE ~ListTokens(h)
      <4>1. Walking(r) /\ q.since = r.since
        BY <1>0, <2>1, <3>2 DEF Moves, Keeps, Walking, Loop, Revoking, AfterUpdate
      <4> QED
        BY <1>0, <4>1 DEF Revival
    <3> QED
      BY <3>1, <3>2
  <2> QED
    BY <1>2, <2>1
<1> QED
  BY <1>1, <1>2

\* Every step leaves the handlers knowing what they should.
LEMMA RevivalNext ==
  ASSUME SmoothStep, NEW h \in Handler
  PROVE  Revival(h)'
<1>0. /\ TypeInv /\ BrowserTypeOK /\ (\A k \in Handler : Linked(k)) /\ OneBusy /\ smooth'
  BY SmoothFacts DEF SmoothStep
<1>1. ASSUME NEW g \in Handler, Send(g) \/ Work(g) \/ Receives(g), g # h
      PROVE  Revival(h)'
  BY <1>0, <1>1, Undisturbed, IdleRevival DEF NoFetch
<1>2. CASE Work(h) /\ req'[h] # Idle
  <2>1. fetch'[h].stage # "answered"
    BY <1>0, <1>2, WorkDoes DEF Linked
  <2> QED
    BY <1>2, <2>1, LogoutRevival, RefreshRevival, GrantRevival
    DEF Revival, Newest, NewestNow
<1>3. CASE Receives(h)
  <2>1. /\ UNCHANGED vars /\ req[h] = Idle /\ fetch'[h].stage # "answered"
    BY <1>0, <1>3, ReceivesDoes DEF NoFetch
  <2> QED
    BY <2>1, IdleRevival DEF vars
<1>4. CASE UNCHANGED <<req, delivered, fetch, sessions, sessionTokens, issued>>
  BY <1>4, RevivalStays
<1> QED
  BY <1>0, <1>1, <1>2, <1>3, <1>4, SendRevival, EndsRevival, OneMoves DEF SmoothStep

-----------------------------------------------------------------------------
\* An empty jar, an idle page and an idle service.
LEMMA InitBrowser == BrowserInit => BrowserInv
<1> SUFFICES ASSUME BrowserInit PROVE BrowserInv
  OBVIOUS
<1>1. HistoryInv
  BY InitHistory DEF BrowserInit
<1>2. /\ \A h \in Handler : req[h] = Idle /\ fetch[h] = NoFetch
      /\ cookie = None /\ bearer = None /\ unsettled = {} /\ twice = {} /\ smooth = TRUE
      /\ delivered = {} /\ \A s \in Session : sessionTokens[s] = {}
      /\ \A t \in Token : tokens[t] = None
  BY DEF BrowserInit, Init, StoreInit
<1>3. BrowserTypeOK
  BY <1>2 DEF BrowserInit, BrowserTypeOK, Fetch, NoFetch, Operation
<1>4. \A h \in Handler : Linked(h) /\ Alarm(h)
  BY <1>2 DEF Linked, Alarm, NoFetch, Idle
<1>5. Trace
  <2>1. \A h \in Handler, t \in Token : ~Carries(h, t) /\ fetch[h].sent # t
    BY <1>2, NoneAssumption DEF Carries, NoFetch, Idle
  <2>2. \A t \in Token : ~Touched(t)
    BY <1>2, <2>1 DEF Touched, Used
  <2> QED
    BY <1>2, <2>1, <2>2 DEF Trace
<1>6. Smooth
  <2>1. \A h \in Handler : Revival(h)
    BY <1>2 DEF Revival, Idle, NoFetch, Walking, Revoking
  <2>2. OneBusy /\ ChainOrder
    BY <1>2 DEF OneBusy, ChainOrder
  <2>3. Storages
    BY <1>2 DEF Storages, Agrees, NoFetch
  <2> QED
    BY <1>2, <2>1, <2>2, <2>3 DEF Smooth
<1>7. RevokedForGood
  BY <1>2 DEF RevokedForGood
<1> QED
  BY <1>1, <1>3, <1>4, <1>5, <1>6, <1>7 DEF BrowserInv

\* Every step of the browser or of the service keeps all of it.
LEMMA NextBrowser == BrowserInv /\ [BrowserNext]_<<vars, browserVars>> => BrowserInv'
<1> SUFFICES ASSUME BrowserInv, [BrowserNext]_<<vars, browserVars>> PROVE BrowserInv'
  OBVIOUS
<1>1. /\ HistoryInv /\ SafeInv /\ TypeInv /\ BrowserTypeOK /\ Trace
      /\ \A h \in Handler : Linked(h) /\ Alarm(h)
  BY DEF BrowserInv, HistoryInv, RevocationInv, SafeInv
<1>2. HistoryInv' /\ TypeInv'
  BY <1>1, BrowserSteps, NextHistory DEF HistoryInv, RevocationInv, SafeInv
<1>3. BrowserTypeOK'
  BY <1>1, BrowserTypes
<1>4. \A h \in Handler : Linked(h)' /\ Alarm(h)'
  BY <1>1, <1>2, LinkedNext, AlarmNext
<1>5. Trace'
  BY <1>1, <1>2, TraceNext
<1>6. ASSUME smooth' PROVE Smooth' /\ RevokedForGood'
  <2>1. smooth
    <3>1. smooth' \in {smooth, FALSE} \/ smooth' = (smooth /\ Quiet)
      BY DEF BrowserNext, Send, SendPlain, SendRefresh, SendLogout, SendLogoutAll, Sends,
             Work, ReceiveHeaders, ReadBody, LoseBody, DropCookie, browserVars
    <3> QED
      BY <1>1, <1>6, <3>1 DEF BrowserTypeOK
  <2>2. SmoothStep
    BY <1>2, <1>3, <1>4, <1>6, <2>1 DEF SmoothStep
  <2>3. /\ cookie' # None /\ (\A h \in Handler : fetch'[h].stage # "answered") =>
             NewestNow(cookie')
    BY <2>2, CookieNewest
  <2> QED
    BY <2>2, <2>3, OneBusyNext, StoragesNext, ChainOrderNext, RevivalNext, ForGood
    DEF Smooth, Newest, NewestNow
<1> QED
  BY <1>2, <1>3, <1>4, <1>5, <1>6 DEF BrowserInv

\* The service, the page and the answers between them stay in agreement.
LEMMA BrowserAlways == BrowserSpec => []BrowserInv
BY InitBrowser, NextBrowser, PTL DEF BrowserSpec

\* RefreshAccessToken detects reuse only when the browser did send a token a
\* second time before it had the new cookie.
THEOREM AlarmsAreTrue == BrowserSpec => []NoFalseAlarm
<1>1. BrowserInv => NoFalseAlarm
  BY DEF BrowserInv, Alarm, NoFalseAlarm
<1> QED
  BY <1>1, BrowserAlways, PTL

\* setRefreshTokenCookie and storeAccessToken leave a page that does one thing
\* at a time with a cookie and an access token that belong together.
THEOREM StoragesStayTogether == BrowserSpec => []StoragesAgree
<1>1. BrowserInv => StoragesAgree
  <2> SUFFICES ASSUME BrowserInv, smooth, Quiet PROVE Agrees(bearer)
    BY DEF StoragesAgree, Agrees
  <2>1. Storages
    BY DEF BrowserInv, Smooth
  <2> QED
    BY <2>1 DEF Storages, Quiet, NoFetch
<1> QED
  BY <1>1, BrowserAlways, PTL

\* A session that was revoked stays closed to a page that does one thing at a
\* time: no token the page ever received opens it again.
THEOREM RevokedMeansOver == BrowserSpec => []RevokedForGood
<1>1. BrowserInv => RevokedForGood
  BY DEF BrowserInv, RevokedForGood
<1> QED
  BY <1>1, BrowserAlways, PTL
=============================================================================
