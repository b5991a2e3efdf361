---------------------------- MODULE HttpPipeline ----------------------------
(***************************************************************************)
(* One HTTP exchange: the middlewares in the order Routes chains them, the *)
(* router, the limiter or RequireAuth in front of a handler, the handler,  *)
(* the service call, and the answer.                                       *)
(*                                                                         *)
(* The Timeout middleware runs what is below it in a goroutine of its own  *)
(* ("worker") with a buffered response; the goroutine of the connection    *)
(* waits for it or for the end of the request's context.  The service is   *)
(* reduced to what a call returns (AuthService and Accounts say how).      *)
(***************************************************************************)
EXTENDS Configuration, AccessTokens, Sequences

CONSTANTS
  Environment,   \* environments the service may be started in
  Exchange       \* requests a client may send

\* An access token this service issued: the issuer's clock showed "issued";
\* "signing" ticks later expires_in was computed, "delay" ticks after the issue
\* the answer arrived.  The token is checked "elapsed" ticks after its issue, on
\* a clock that is "ahead" of the issuer's.
ASSUME ExchangeAssumption ==
  \A x \in Exchange :
    x.auth.kind = "token" => /\ x.auth.issued \in Nat
                             /\ x.auth.signing \in 1..(AccessTTL * TicksPerSecond)
                             /\ x.auth.delay \in Nat
                             /\ x.auth.elapsed \in Nat
                             /\ x.auth.ahead \in Int

VARIABLES
  env,     \* the environment the instance was started in
  r,       \* the request: path, method, origin, body, cookie, auth
  layer,   \* how many middlewares have been entered
  at,      \* where the running goroutine is: in the chain or below it
  conn,    \* goroutine of the connection: "serving", "waiting", "answered"
  worker,  \* goroutine of Timeout: "none", "serving", "done", "crashed"
  out,     \* the response of the connection
  buf,     \* the buffered response of the worker
  over,    \* the request's context has ended
  result   \* history: what the service call returned

vars == <<env, r, layer, at, conn, worker, out, buf, over, result>>

cfg == Load(env)

Blank == [status |-> 0, headers |-> {}, cookie |-> "untouched"]

Init ==
  /\ env \in {e \in Environment : validate(Load(e))}
  /\ r \in Exchange
  /\ layer = 0
  /\ at = "chain"
  /\ conn = "serving"
  /\ worker = "none"
  /\ out = Blank
  /\ buf = Blank
  /\ over = FALSE
  /\ result = "none"

-----------------------------------------------------------------------------
(* Writing.  The running goroutine is the worker once there is one.        *)

Current == IF worker = "none" THEN out ELSE buf

\* w.Header().Set of the running goroutine.
SetHeaders(H) ==
  IF worker = "none"
  THEN out' = [out EXCEPT !.headers = @ \cup H] /\ UNCHANGED buf
  ELSE buf' = [buf EXCEPT !.headers = @ \cup H] /\ UNCHANGED out

\* The running goroutine has its response and returns through the layers.
Return(response) ==
  IF worker = "none"
  THEN out' = response /\ conn' = "answered" /\ UNCHANGED <<buf, worker>>
  ELSE buf' = response /\ worker' = "done" /\ UNCHANGED <<out, conn>>

Answer(status, H, ck) ==
  Return([status |-> status, headers |-> Current.headers \cup H, cookie |-> ck])

JSON == {"Content-Type"}

\* writeError.
Refuse(status) ==
  /\ Answer(status, JSON, "untouched")
  /\ at' = "end"
  /\ UNCHANGED <<env, r, layer, over, result>>

GoTo(place) ==
  /\ at' = place
  /\ UNCHANGED <<env, r, layer, conn, worker, out, buf, over, result>>

-----------------------------------------------------------------------------
(* The middlewares.                                                        *)

\* A slip: the panic of a worker is awaited in another goroutine.
ChainRecovererOutside ==
  <<"RequestID", "InstanceHeader", "SecurityHeaders", "CORS", "RequestLogger",
    "Recoverer", "Timeout">>

\* A slip: the headers for other origins are left to the worker.
ChainTimeoutFirst ==
  <<"RequestID", "InstanceHeader", "SecurityHeaders", "Timeout", "CORS",
    "RequestLogger", "Recoverer">>

Chain ==
  <<"RequestID", "InstanceHeader", "SecurityHeaders", "CORS", "RequestLogger",
    "Timeout", "Recoverer">>

Entering(name) ==
  /\ at = "chain"
  /\ layer < Len(Chain)
  /\ Chain[layer + 1] = name
  /\ layer' = layer + 1

Inner == UNCHANGED <<env, r, at, conn, worker, over, result>>

Tag(name, H) == Entering(name) /\ SetHeaders(H) /\ Inner

OnAuthPath == r.path \notin {"root", "health", "other"}

SecurityHeaders ==
  Tag("SecurityHeaders",
      {"security"} \cup (IF OnAuthPath THEN {"Cache-Control"} ELSE {}))

\* Recoverer and RequestLogger do their work on the way back.
PassThrough == Tag("RequestLogger", {}) \/ Tag("Recoverer", {})

\* isOriginAllowed; a request without an Origin is none of CORS' business.
OriginAllowed == {r.origin, "*"} \cap cfg.CORSAllowedOrigins # {}

CORSConcerned == r.origin # "none" /\ cfg.CORSAllowedOrigins # {}

CORSDenied ==
  /\ Entering("CORS")
  /\ CORSConcerned /\ ~OriginAllowed /\ r.method = "OPTIONS"
  /\ Answer(403, JSON, "untouched")
  /\ at' = "end"
  /\ UNCHANGED <<env, r, over, result>>

CORSPreflight ==
  /\ Entering("CORS")
  /\ CORSConcerned /\ OriginAllowed /\ r.method = "OPTIONS"
  /\ Answer(204, {"Allow-Origin"}, "untouched")
  /\ at' = "end"
  /\ UNCHANGED <<env, r, over, result>>

CORSPass ==
  /\ ~(CORSConcerned /\ r.method = "OPTIONS")
  /\ Tag("CORS", IF CORSConcerned /\ OriginAllowed THEN {"Allow-Origin"} ELSE {})

\* Timeout: the rest runs in a goroutine, on a response of its own.
Spawn ==
  /\ Entering("Timeout")
  /\ worker' = "serving"
  /\ conn' = "waiting"
  /\ UNCHANGED <<env, r, at, out, buf, over, result>>

-----------------------------------------------------------------------------
(* Routes: the list of paths, then the mux.                                *)

Limited   == {"register", "login", "refresh"}
Protected == {"logout-all", "sessions", "session", "session-blank", "me"}

Routing == at = "chain" /\ layer = Len(Chain)

RouteNotFound == Routing /\ r.path = "other" /\ Refuse(404)

\* A slip: a protected path is registered without RequireAuth.
RouteOpen ==
  /\ Routing /\ r.path # "other"
  /\ GoTo(CASE r.path \in Limited                  -> "limiter"
            [] r.path \in Protected \ {"sessions"} -> "auth"
            [] OTHER                               -> "handler")

Route ==
  /\ Routing /\ r.path # "other"
  /\ GoTo(CASE r.path \in Limited   -> "limiter"
            [] r.path \in Protected -> "auth"
            [] OTHER                -> "handler")

\* RateLimit: the limiter fails, refuses or lets the request pass.
LimitFailed  == at = "limiter" /\ Refuse(500)
LimitPassed  == at = "limiter" /\ GoTo("handler")
LimitReached ==
  /\ at = "limiter"
  /\ Answer(429, JSON \cup {"Retry-After"}, "untouched")
  /\ at' = "end"
  /\ UNCHANGED <<env, r, layer, over, result>>

\* RequireAuth.  What a client sends instead of a token is "missing", "malformed"
\* or "forged".
HasToken == r.auth.kind = "token"

Identified ==
  /\ HasToken
  /\ ValidNow(Claims(r.auth.issued),
              r.auth.issued + r.auth.elapsed + r.auth.ahead)

AuthRefused == at = "auth" /\ ~Identified /\ Refuse(401)
AuthPassed  == at = "auth" /\ Identified /\ GoTo("handler")

-----------------------------------------------------------------------------
(* The handlers.                                                           *)

Method(path) ==
  CASE path \in Limited \cup {"logout", "logout-all"} -> "POST"
    [] path \in {"session", "session-blank"}          -> "DELETE"
    [] OTHER                                          -> "GET"

\* What the handler finds wrong with its input: the status, or 0.
Objection ==
  CASE r.path \in {"register", "login"} /\ r.body # "complete"  -> 400
    [] r.path = "refresh" /\ r.cookie \in {"none", "blank"}     -> 401
    [] r.path = "session-blank"                                 -> 400
    [] OTHER                                                    -> 0

\* Answered without the service.
Local == {"root", "health", "me"}

MethodNotAllowed ==
  at = "handler" /\ r.method # Method(r.path) /\ Refuse(405)

InputRefused ==
  /\ at = "handler"
  /\ r.method = Method(r.path) /\ Objection # 0
  /\ Refuse(Objection)

AnsweredLocally ==
  /\ at = "handler"
  /\ r.method = Method(r.path) /\ Objection = 0 /\ r.path \in Local
  /\ Answer(200, JSON, "untouched")
  /\ at' = "end"
  /\ UNCHANGED <<env, r, layer, over, result>>

CallService ==
  /\ at = "handler"
  /\ r.method = Method(r.path) /\ Objection = 0 /\ r.path \notin Local
  /\ GoTo("service")

\* The errors of the service the handlers tell apart; any other is "failed".
Errors(path) ==
  {"failed"} \cup
  CASE path = "register" -> {"ErrEmailAlreadyExists"}
    [] path = "login"    -> {"ErrInvalidCredentials"}
    [] path = "refresh"  -> {"ErrInvalidRefreshToken", "ErrRefreshTokenReuseDetected"}
    [] path = "session"  -> {"ErrInvalidRefreshToken"}
    [] OTHER             -> {}

\* A slip: an unexpected error writes no status, which makes it 200.
ErrorStatusKnown(e) ==
  CASE e = "ErrEmailAlreadyExists" -> 409
    [] e = "failed"                -> 200
    [] OTHER                       -> 401

ErrorStatus(e) ==
  CASE e = "ErrEmailAlreadyExists" -> 409
    [] e = "failed"                -> 500
    [] OTHER                       -> 401

\* What setRefreshTokenCookie and clearRefreshTokenCookie do to the response.
CookieOf(path) ==
  CASE path \in {"login", "refresh"}     -> "set"
    [] path \in {"logout", "logout-all"} -> "cleared"
    [] OTHER                             -> "untouched"

parseSameSite(v) ==
  CASE Normalized(v) = "strict" -> "Strict"
    [] Normalized(v) = "none"   -> "None"
    [] OTHER                    -> "Lax"

\* The attributes of a cookie the service sets.
Attributes ==
  [Secure   |-> cfg.CookieSecure,
   SameSite |-> parseSameSite(cfg.CookieSameSite),
   MaxAge   |-> cfg.RefreshTokenTTLHours * 60 * 60]

ServiceFailed ==
  /\ at = "service"
  /\ \E e \in Errors(r.path) :
       /\ result' = e
       /\ Answer(ErrorStatus(e), JSON, "untouched")
  /\ at' = "end"
  /\ UNCHANGED <<env, r, layer, over>>

ServiceDone ==
  /\ at = "service"
  /\ result' = "ok"
  /\ Answer(IF r.path = "register" THEN 201 ELSE 200, JSON, CookieOf(r.path))
  /\ at' = "end"
  /\ UNCHANGED <<env, r, layer, over>>

\* A call into Redis, PostgreSQL or the service panics.  Recoverer catches it
\* when it runs in the same goroutine, that is, below Timeout; otherwise the
\* runtime ends the process.
Recovered == \E i \in 1..layer : /\ Chain[i] = "Recoverer"
                                 /\ \E j \in 1..(i - 1) : Chain[j] = "Timeout"

Panic ==
  /\ at \in {"limiter", "service"}
  /\ at' = "end"
  /\ result' = "panic"
  /\ IF Recovered THEN Answer(500, JSON, "untouched")
                  ELSE worker' = "crashed" /\ UNCHANGED <<conn, out, buf>>
  /\ UNCHANGED <<env, r, layer, over>>

-----------------------------------------------------------------------------
(* The connection's goroutine, in the select of Timeout.                   *)

\* The deadline has passed, or the client is gone.
ContextEnds ==
  /\ conn = "waiting" /\ ~over
  /\ over' = TRUE
  /\ UNCHANGED <<env, r, layer, at, conn, worker, out, buf, result>>

\* copyHeader, WriteHeader, Write.
AnswerOfWorker ==
  /\ conn = "waiting" /\ worker = "done"
  /\ conn' = "answered"
  /\ out' = [buf EXCEPT !.headers = @ \cup out.headers]
  /\ UNCHANGED <<env, r, layer, at, worker, buf, over, result>>

\* A slip: the worker's headers so far are sent with the 504.
AnswerTimeoutMixed ==
  /\ conn = "waiting" /\ over
  /\ conn' = "answered"
  /\ out' = [buf EXCEPT !.status = 504, !.headers = @ \cup out.headers \cup JSON]
  /\ UNCHANGED <<env, r, layer, at, worker, buf, over, result>>

AnswerTimeout ==
  /\ conn = "waiting" /\ over
  /\ conn' = "answered"
  /\ out' = [out EXCEPT !.status = 504, !.headers = @ \cup JSON]
  /\ UNCHANGED <<env, r, layer, at, worker, buf, over, result>>

-----------------------------------------------------------------------------
Middleware ==
  \/ Tag("RequestID", {"X-Request-ID"})
  \/ Tag("InstanceHeader", {"X-App-Instance"})
  \/ SecurityHeaders \/ PassThrough
  \/ CORSDenied \/ CORSPreflight \/ CORSPass
  \/ Spawn

Below ==
  \/ RouteNotFound \/ Route
  \/ LimitFailed \/ LimitReached \/ LimitPassed
  \/ AuthRefused \/ AuthPassed
  \/ MethodNotAllowed \/ InputRefused \/ AnsweredLocally \/ CallService
  \/ ServiceFailed \/ ServiceDone \/ Panic

Connection == ContextEnds \/ AnswerOfWorker \/ AnswerTimeout

Next == Middleware \/ Below \/ Connection

Spec == Init /\ [][Next]_vars

-----------------------------------------------------------------------------
Answered == conn = "answered"

\* No answer leaves without what the clients and operators rely on, the ones the
\* middlewares give themselves (404, 429, 504, a preflight) included: the id of
\* the request, the instance, the security headers and, for a configured origin,
\* leave to read it.  The 504 is written by another goroutine than the one that
\* ran the handler, so this depends on the order of Chain.
EveryAnswerTagged ==
  Answered =>
    /\ {"X-Request-ID", "X-App-Instance", "security"} \subseteq out.headers
    /\ OnAuthPath => "Cache-Control" \in out.headers
    /\ CORSConcerned /\ OriginAllowed => "Allow-Origin" \in out.headers

\* A panic is answered with 500 and never ends the process.
PanicContained ==
  /\ worker # "crashed"
  /\ Answered /\ result = "panic" => out.status \in {500, 504}

\* The client's cookie changes exactly when it is told that the operation
\* succeeded: not with an error, and not with a 504 although the worker it gave
\* up on succeeds.
CookieAsTold ==
  Answered =>
    out.cookie = IF out.status = 200 THEN CookieOf(r.path) ELSE "untouched"

\* What was done is not reported as refused, nor what failed as done.  (A 504
\* says neither.)
OutcomeAsTold ==
  Answered /\ out.status # 504 =>
    (result = "ok" <=> /\ out.status \in {200, 201}
                       /\ r.path \notin Local)

\* Browsers drop a cookie with SameSite=None that is not Secure, and one whose
\* Max-Age is over: the login would be lost at the first refresh.  validate and
\* parseSameSite read the setting separately, one to refuse it, one to send it.
\* In production, however that is spelled, every cookie is Secure.
CookieAcceptable ==
  Answered /\ out.cookie # "untouched" =>
    /\ Attributes.SameSite = "None" => Attributes.Secure
    /\ Attributes.MaxAge > 0
    /\ env.APP_ENV # Unset /\ env.APP_ENV.word \in {"prod", "production"} =>
         Attributes.Secure

\* A client that counts expires_in from the arrival of its answer is served until
\* then by every instance, if the answer's delay and the difference of clocks are
\* at most the leeway together.
ServedAsPromised ==
  /\ at = "end"
  /\ HasToken
  /\ r.auth.elapsed <= r.auth.delay + ExpiresIn(r.auth.signing) * TicksPerSecond
  /\ -Leeway <= r.auth.ahead
  /\ r.auth.ahead + r.auth.delay <= Leeway
  /\ r.path \in Protected
  => Current.status # 401 \/ result # "none"

\* No request is served with a token older than its ttl and the leeway, but for
\* the difference of clocks.
NotServedLater ==
  r.path \in Protected /\ at \in {"handler", "service"} =>
    /\ HasToken
    /\ r.auth.elapsed < AccessTTL * TicksPerSecond + Leeway - r.auth.ahead
=============================================================================
