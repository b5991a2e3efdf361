------------------------- MODULE HttpPipelineProofs -------------------------
(***************************************************************************)
(* Every property of HttpPipeline, and of the access tokens it checks, for *)
(* every set of environments and requests, every ttl and every resolution  *)
(* of the clocks.                                                          *)
(*                                                                         *)
(* One inductive invariant carries the properties of the pipeline.  It     *)
(* says where the two goroutines can be (Shape), what the answers written  *)
(* so far say (Written) and which headers the layers entered so far have   *)
(* left (Tags).                                                            *)
(***************************************************************************)
EXTENDS HttpPipeline, TLAPS

-----------------------------------------------------------------------------
(* AccessTokens: what the truncation of the claims to seconds, the leeway  *)
(* and the difference of the instances' clocks add up to.                  *)

\* Truncation to whole seconds loses less than a second.
LEMMA UnixBounds ==
  ASSUME NEW c \in Nat
  PROVE  /\ Unix(c) \in Nat
         /\ Unix(c) * TicksPerSecond <= c
         /\ c < Unix(c) * TicksPerSecond + TicksPerSecond
  BY ResolutionAssumption, SMT DEF Unix

\* exp is a whole ttl after nbf: both are truncated from the same instant.
LEMMA ExpAfterNbf ==
  ASSUME NEW c \in Nat
  PROVE  Unix(c + AccessTTL * TicksPerSecond) = Unix(c) + AccessTTL
  BY ResolutionAssumption, AccessTTLAssumption, SMT DEF Unix

\* Signing takes time, so expires_in is at least a second less than the ttl.
LEMMA PromiseBelowTTL ==
  ASSUME NEW signing \in Nat, signing > 0
  PROVE  /\ ExpiresIn(signing) \in Int
         /\ ExpiresIn(signing) <= AccessTTL - 1
         /\ ExpiresIn(signing) * TicksPerSecond
              <= AccessTTL * TicksPerSecond - TicksPerSecond
  BY ResolutionAssumption, AccessTTLAssumption, SMT DEF ExpiresIn

\* An access token is accepted by every instance for as long as its client was
\* told, counted from the arrival of the answer, when the delay of the answer and
\* the difference of the clocks are at most the leeway together.
THEOREM ValidAsPromised ==
  ASSUME NEW issuedAt \in Nat,          \* clock of the issuer
         NEW signing \in Nat, signing > 0,
         NEW delay \in Nat,
         NEW elapsed \in Nat,
         NEW ahead \in Int,             \* clock here minus clock of the issuer
         elapsed <= delay + ExpiresIn(signing) * TicksPerSecond,
         -Leeway <= ahead,
         ahead + delay <= Leeway
  PROVE  ValidNow(Claims(issuedAt), issuedAt + elapsed + ahead)
<1> DEFINE nbf == Unix(issuedAt)
           ticks == nbf * TicksPerSecond
           ttl == AccessTTL * TicksPerSecond
           now == issuedAt + elapsed + ahead
<1>1. /\ ticks \in Nat /\ ticks <= issuedAt
      /\ issuedAt < ticks + TicksPerSecond
  BY UnixBounds, ResolutionAssumption
<1>2. ttl \in Nat /\ Leeway \in Nat
  BY ResolutionAssumption, AccessTTLAssumption DEF Leeway
<1>3. Claims(issuedAt).exp * TicksPerSecond = ticks + ttl
  BY ExpAfterNbf, UnixBounds, ResolutionAssumption, AccessTTLAssumption
     DEF Claims
<1>4. elapsed <= delay + (ttl - TicksPerSecond)
  <2>1. ExpiresIn(signing) * TicksPerSecond <= ttl - TicksPerSecond
    BY PromiseBelowTTL
  <2>2. ExpiresIn(signing) * TicksPerSecond \in Int
    BY PromiseBelowTTL, ResolutionAssumption
  <2> HIDE DEF ttl
  <2> QED
    BY <1>2, <2>1, <2>2, ResolutionAssumption
<1>5. now < ticks + ttl + Leeway
  <2> HIDE DEF ticks, ttl
  <2> QED
    BY <1>1, <1>2, <1>4, ResolutionAssumption
<1>6. now >= ticks - Leeway
  <2> HIDE DEF ticks
  <2> QED
    BY <1>1, <1>2
<1>7. Claims(issuedAt).nbf * TicksPerSecond = ticks
  BY DEF Claims
<1> QED
  BY <1>3, <1>5, <1>6, <1>7 DEF ValidNow

\* No instance accepts a token once its ttl and the leeway are over, but for the
\* difference of the clocks.
THEOREM RefusedInTime ==
  ASSUME NEW issuedAt \in Nat,
         NEW elapsed \in Nat,
         NEW ahead \in Int,
         ValidNow(Claims(issuedAt), issuedAt + elapsed + ahead)
  PROVE  elapsed < AccessTTL * TicksPerSecond + Leeway - ahead
<1> DEFINE ticks == Unix(issuedAt) * TicksPerSecond
           ttl == AccessTTL * TicksPerSecond
<1>1. ticks \in Nat /\ ticks <= issuedAt
  BY UnixBounds, ResolutionAssumption
<1>2. ttl \in Nat /\ Leeway \in Nat
  BY ResolutionAssumption, AccessTTLAssumption DEF Leeway
<1>3. Claims(issuedAt).exp * TicksPerSecond = ticks + ttl
  BY ExpAfterNbf, UnixBounds, ResolutionAssumption, AccessTTLAssumption
     DEF Claims
<1>4. issuedAt + elapsed + ahead < ticks + ttl + Leeway
  BY <1>3 DEF ValidNow
<1> HIDE DEF ticks, ttl
<1>5. elapsed < ttl + Leeway - ahead
  BY <1>1, <1>2, <1>4
<1> QED
  BY <1>5 DEF ttl

-----------------------------------------------------------------------------
(* HttpPipeline: the invariant.                                            *)

HeaderName == {"X-Request-ID", "X-App-Instance", "security", "Cache-Control",
               "Allow-Origin", "Content-Type", "Retry-After"}

Response == [status : Nat, headers : SUBSET HeaderName,
             cookie : {"untouched", "set", "cleared"}]

Typed ==
  /\ env \in {e \in Environment : validate(Load(e))}
  /\ r \in Exchange
  /\ layer \in 0..7
  /\ at \in {"chain", "limiter", "auth", "handler", "service", "end"}
  /\ conn \in {"serving", "waiting", "answered"}
  /\ worker \in {"none", "serving", "done"}
  /\ out \in Response
  /\ buf \in Response

\* The worker exists below Timeout only; a goroutine that has its response is
\* at the end; what is behind the limiter and RequireAuth has passed them.
Shape ==
  /\ layer <= 5 <=> worker = "none"
  /\ at \notin {"chain", "end"} => layer = 7
  /\ at = "end" => layer >= 4
  /\ worker = "none" => /\ buf = Blank
                        /\ conn = IF at = "end" THEN "answered" ELSE "serving"
  /\ worker # "none" => /\ conn # "serving"
                        /\ worker = "done" <=> at = "end"
  /\ result # "none" => at = "end"
  /\ at = "limiter" => r.path \in Limited
  /\ at = "service" => r.path \notin Local
  /\ r.path \in Protected /\ at \in {"handler", "service"} => Identified

\* A status and a cookie that fit what the service call returned.
Tells(status, ck, res) ==
  /\ ck = IF status = 200 THEN CookieOf(r.path) ELSE "untouched"
  /\ res = "ok" <=> status \in {200, 201} /\ r.path \notin Local
  /\ res = "panic" => status = 500
  /\ res = "none" /\ r.path \in Protected /\ status = 401 => ~Identified

Written ==
  /\ at = "end" => Tells(Current.status, Current.cookie, result)
  /\ conn # "answered" => out.cookie = "untouched"
  /\ conn = "answered" /\ worker # "none" =>
       \/ out.status = 504 /\ out.cookie = "untouched"
       \/ at = "end" /\ Tells(out.status, out.cookie, result)

Tags ==
  /\ layer >= 1 => "X-Request-ID" \in out.headers
  /\ layer >= 2 => "X-App-Instance" \in out.headers
  /\ layer >= 3 => /\ "security" \in out.headers
                   /\ OnAuthPath => "Cache-Control" \in out.headers
  /\ layer >= 4 => (CORSConcerned /\ OriginAllowed =>
                      "Allow-Origin" \in out.headers)

IInv == Typed /\ Shape /\ Written /\ Tags

-----------------------------------------------------------------------------
(* Facts about the operators.                                              *)

\* What a step that leaves the environment and the request alone does not change.
LEMMA SameRequest ==
  ASSUME UNCHANGED <<env, r>>
  PROVE  /\ cfg' = cfg
         /\ OnAuthPath' = OnAuthPath
         /\ CORSConcerned' = CORSConcerned
         /\ OriginAllowed' = OriginAllowed
         /\ Identified' = Identified
         /\ \A s, c, e : Tells(s, c, e)' = Tells(s, c, e)
  BY DEF cfg, OnAuthPath, CORSConcerned, OriginAllowed, Identified, HasToken,
         Tells

\* Where each middleware is in the chain.
LEMMA Positions ==
  ASSUME NEW name, Entering(name), layer \in 0..7
  PROVE  /\ layer' = layer + 1 /\ layer' \in 1..7 /\ at = "chain"
         /\ name = "RequestID" <=> layer = 0
         /\ name = "InstanceHeader" <=> layer = 1
         /\ name = "SecurityHeaders" <=> layer = 2
         /\ name = "CORS" <=> layer = 3
         /\ name = "RequestLogger" <=> layer = 4
         /\ name = "Timeout" <=> layer = 5
         /\ name = "Recoverer" <=> layer = 6
<1>1. layer \in 0..6
  BY DEF Entering, Chain
<1>2. CASE layer = 0
  BY <1>2 DEF Entering, Chain
<1>3. CASE layer = 1
  BY <1>3 DEF Entering, Chain
<1>4. CASE layer = 2
  BY <1>4 DEF Entering, Chain
<1>5. CASE layer = 3
  BY <1>5 DEF Entering, Chain
<1>6. CASE layer = 4
  BY <1>6 DEF Entering, Chain
<1>7. CASE layer = 5
  BY <1>7 DEF Entering, Chain
<1>8. CASE layer = 6
  BY <1>8 DEF Entering, Chain
<1> QED
  BY <1>1, <1>2, <1>3, <1>4, <1>5, <1>6, <1>7, <1>8

\* The errors of the service are not what the history calls a success, a panic or
\* nothing, and none is reported as a success.
LEMMA ErrorsAreErrors ==
  ASSUME NEW path, NEW e \in Errors(path)
  PROVE  /\ e \notin {"ok", "panic", "none"}
         /\ ErrorStatus(e) \in {401, 409, 500}
  BY DEF Errors, ErrorStatus

\* A handler objects to its input with 400, or 401 where no token is required.
LEMMA Objections ==
  /\ Objection \in {0, 400, 401}
  /\ Objection = 401 => r.path \notin Protected
  BY DEF Objection, Protected

\* Cookies are set or cleared by operations of the service that answer with 200.
LEMMA Cookies ==
  /\ CookieOf(r.path) \in {"untouched", "set", "cleared"}
  /\ r.path \in Local \cup {"register"} => CookieOf(r.path) = "untouched"
<1>1. ASSUME r.path \in {"login", "refresh"}
      PROVE  CookieOf(r.path) = "set"
  BY <1>1, Zenon DEF CookieOf
<1>2. ASSUME r.path \in {"logout", "logout-all"}
      PROVE  CookieOf(r.path) = "cleared"
  BY <1>2, Zenon DEF CookieOf
<1>3. ASSUME r.path \notin {"login", "refresh", "logout", "logout-all"}
      PROVE  CookieOf(r.path) = "untouched"
  BY <1>3, Zenon DEF CookieOf
<1>4. CookieOf(r.path) \in {"set", "cleared", "untouched"}
  BY <1>1, <1>2, <1>3, Zenon
<1>5. r.path \in Local \cup {"register"} =>
        r.path \notin {"login", "refresh", "logout", "logout-all"}
  BY DEF Local
<1> QED
  BY <1>3, <1>4, <1>5, Zenon

-----------------------------------------------------------------------------
(* The three kinds of steps of the running goroutine.                      *)

\* Passing control on below the chain.
LEMMA GoToKeeps ==
  ASSUME IInv, NEW place \in {"limiter", "auth", "handler", "service"},
         GoTo(place), at # "end", layer = 7,
         place = "limiter" => r.path \in Limited,
         place = "service" => r.path \notin Local,
         r.path \in Protected /\ place \in {"handler", "service"} => Identified
  PROVE  IInv'
<1>1. UNCHANGED <<env, r, layer, conn, worker, out, buf, over, result>>
  BY DEF GoTo
<1>2. at' = place
  BY DEF GoTo
<1>3. Typed'
  BY <1>1, <1>2 DEF IInv, Typed
<1>4. Shape'
  BY <1>1, <1>2, SameRequest DEF IInv, Shape
<1>5. Written'
  BY <1>1, <1>2, SameRequest DEF IInv, Written
<1>6. Tags'
  BY <1>1, SameRequest DEF IInv, Tags
<1> QED
  BY <1>3, <1>4, <1>5, <1>6 DEF IInv

\* Entering a middleware that sets headers.
LEMMA TagKeeps ==
  ASSUME IInv, NEW name, NEW H \in SUBSET HeaderName, Tag(name, H),
         name # "Timeout",
         name = "RequestID" => "X-Request-ID" \in H,
         name = "InstanceHeader" => "X-App-Instance" \in H,
         name = "SecurityHeaders" =>
            "security" \in H /\ (OnAuthPath => "Cache-Control" \in H),
         name = "CORS" =>
            (CORSConcerned /\ OriginAllowed => "Allow-Origin" \in H)
  PROVE  IInv'
<1>1. Entering(name) /\ SetHeaders(H) /\ UNCHANGED <<env, r, at, conn, worker, result>>
  BY DEF Tag, Inner
<1>2. /\ layer' = layer + 1 /\ layer' \in 1..7 /\ at = "chain" /\ layer # 5
      /\ name = "RequestID" <=> layer = 0
      /\ name = "InstanceHeader" <=> layer = 1
      /\ name = "SecurityHeaders" <=> layer = 2
      /\ name = "CORS" <=> layer = 3
  BY <1>1, Positions DEF IInv, Typed
<1>3. CASE worker = "none"
  <2>1. /\ out' = [out EXCEPT !.headers = @ \cup H] /\ UNCHANGED buf
    BY <1>1, <1>3 DEF SetHeaders
  <2>2. /\ out' \in Response /\ out'.headers = out.headers \cup H
        /\ out'.status = out.status /\ out'.cookie = out.cookie
    BY <2>1 DEF IInv, Typed, Response
  <2>3. layer <= 4 /\ layer' <= 5
    BY <1>2, <1>3 DEF IInv, Shape, Typed
  <2>4. Typed'
    BY <1>1, <1>2, <2>1, <2>2 DEF IInv, Typed
  <2>5. Shape'
    BY <1>1, <1>2, <1>3, <2>1, <2>3, SameRequest DEF IInv, Shape
  <2>6. Written'
    BY <1>1, <1>2, <1>3, <2>2 DEF IInv, Shape, Written
  <2>7. Tags'
    BY <1>1, <1>2, <2>2, SameRequest DEF IInv, Typed, Tags
  <2> QED
    BY <2>4, <2>5, <2>6, <2>7 DEF IInv
<1>4. CASE worker # "none"
  <2>1. /\ buf' = [buf EXCEPT !.headers = @ \cup H] /\ UNCHANGED out
    BY <1>1, <1>4 DEF SetHeaders
  <2>2. buf' \in Response
    BY <2>1 DEF IInv, Typed, Response
  <2>3. layer = 6 /\ layer' = 7
    BY <1>2, <1>4 DEF IInv, Shape, Typed
  <2>4. Typed'
    BY <1>1, <1>2, <2>1, <2>2 DEF IInv, Typed
  <2>5. Shape'
    BY <1>1, <1>2, <1>4, <2>3, SameRequest DEF IInv, Shape
  <2>6. Written'
    BY <1>1, <1>2, <1>4, <2>1 DEF IInv, Shape, Written
  <2>7. Tags'
    BY <1>1, <1>2, <2>1, <2>3, SameRequest DEF IInv, Typed, Tags
  <2> QED
    BY <2>4, <2>5, <2>6, <2>7 DEF IInv
<1> QED
  BY <1>3, <1>4

\* Answering, from below the chain or from CORS.
LEMMA AnswerKeeps ==
  ASSUME IInv, NEW status \in Nat, NEW H \in SUBSET HeaderName,
         NEW ck \in {"untouched", "set", "cleared"},
         Answer(status, H, ck), at # "end", at' = "end",
         UNCHANGED <<env, r, over>>,
         Tells(status, ck, result'),
         \/ layer' = layer /\ layer >= 4
         \/ /\ layer = 3 /\ layer' = 4
            /\ CORSConcerned /\ OriginAllowed => "Allow-Origin" \in H
  PROVE  IInv'
<1> DEFINE response == [status |-> status, headers |-> Current.headers \cup H,
                        cookie |-> ck]
<1>1. Return(response)
  BY DEF Answer
<1>2. Current \in Response
  BY DEF IInv, Typed, Current
<1>3. /\ response \in Response
      /\ response.status = status /\ response.cookie = ck
      /\ response.headers = Current.headers \cup H
  BY <1>2 DEF Response
<1> HIDE DEF response
<1>4. layer' \in 4..7
  BY DEF IInv, Typed
<1>5. CASE worker = "none"
  <2>1. /\ out' = response /\ conn' = "answered" /\ UNCHANGED <<buf, worker>>
    BY <1>1, <1>5 DEF Return
  <2>2. out'.headers = out.headers \cup H
    BY <1>3, <1>5, <2>1 DEF Current
  <2>3. layer' <= 5
    BY <1>4, <1>5 DEF IInv, Shape, Typed
  <2>4. Typed'
    BY <1>3, <1>4, <2>1 DEF IInv, Typed
  <2>5. Shape'
    BY <1>4, <1>5, <2>1, <2>3, SameRequest DEF IInv, Shape
  <2>6. Current' = out'
    BY <1>5, <2>1 DEF Current
  <2>7. Written'
    BY <1>3, <1>5, <2>1, <2>6, SameRequest DEF Written
  <2>8. Tags'
    BY <1>4, <2>2, SameRequest DEF IInv, Typed, Tags
  <2> QED
    BY <2>4, <2>5, <2>7, <2>8 DEF IInv
<1>6. CASE worker # "none"
  <2>1. /\ buf' = response /\ worker' = "done" /\ UNCHANGED <<out, conn>>
    BY <1>1, <1>6 DEF Return
  <2>2. layer' >= 6 /\ layer' = layer
    BY <1>4, <1>6 DEF IInv, Shape, Typed
  <2>3. Typed'
    BY <1>3, <1>4, <2>1 DEF IInv, Typed
  <2>4. Shape'
    BY <1>4, <1>6, <2>1, <2>2, SameRequest DEF IInv, Shape
  <2>5. Current' = buf'
    BY <2>1 DEF Current
  <2>6. Written'
    BY <1>3, <1>6, <2>1, <2>5, SameRequest DEF IInv, Written
  <2>7. Tags'
    BY <2>1, <2>2, SameRequest DEF IInv, Tags
  <2> QED
    BY <2>3, <2>4, <2>6, <2>7 DEF IInv
<1> QED
  BY <1>5, <1>6

-----------------------------------------------------------------------------
(* One lemma per group of actions.                                         *)

\* An accepted configuration and a request not yet looked at.
LEMMA InitEstablishes == Init => IInv
<1> SUFFICES ASSUME Init PROVE IInv
  OBVIOUS
<1>1. Blank \in Response /\ Blank.cookie = "untouched"
  BY DEF Blank, Response, HeaderName
<1>2. Typed
  BY <1>1 DEF Init, Typed
<1>3. Shape
  BY DEF Init, Shape
<1>4. Written
  BY <1>1 DEF Init, Written
<1>5. Tags
  BY DEF Init, Tags
<1> QED
  BY <1>2, <1>3, <1>4, <1>5 DEF IInv

\* Each middleware adds its headers in the order of Chain, or answers itself
\* (CORS).
LEMMA MiddlewareKeeps ==
  ASSUME IInv, Middleware
  PROVE  IInv'
<1>1. CASE Tag("RequestID", {"X-Request-ID"})
  <2>1. {"X-Request-ID"} \in SUBSET HeaderName
    BY DEF HeaderName
  <2> QED
    BY <1>1, <2>1, TagKeeps
<1>2. CASE Tag("InstanceHeader", {"X-App-Instance"})
  <2>1. {"X-App-Instance"} \in SUBSET HeaderName
    BY DEF HeaderName
  <2> QED
    BY <1>2, <2>1, TagKeeps
<1>3. CASE SecurityHeaders
  <2> DEFINE H == {"security"} \cup (IF OnAuthPath THEN {"Cache-Control"} ELSE {})
  <2>1. H \in SUBSET HeaderName
    BY DEF HeaderName
  <2>2. "security" \in H /\ (OnAuthPath => "Cache-Control" \in H)
    OBVIOUS
  <2>3. Tag("SecurityHeaders", H)
    BY <1>3 DEF SecurityHeaders
  <2> HIDE DEF H
  <2> QED
    BY <2>1, <2>2, <2>3, TagKeeps
<1>4. CASE PassThrough
  <2>1. {} \in SUBSET HeaderName
    BY DEF HeaderName
  <2>2. CASE Tag("RequestLogger", {})
    BY <2>1, <2>2, TagKeeps
  <2>3. CASE Tag("Recoverer", {})
    BY <2>1, <2>3, TagKeeps
  <2> QED
    BY <1>4, <2>2, <2>3 DEF PassThrough
<1>5. CASE CORSDenied
  <2>1. /\ layer = 3 /\ layer' = 4 /\ at = "chain" /\ at' = "end"
        /\ UNCHANGED <<env, r, over>> /\ result' = "none"
    BY <1>5, Positions DEF CORSDenied, IInv, Typed, Shape
  <2>2. JSON \in SUBSET HeaderName
    BY DEF JSON, HeaderName
  <2>3. Answer(403, JSON, "untouched") /\ ~OriginAllowed
    BY <1>5 DEF CORSDenied
  <2>4. Tells(403, "untouched", result')
    BY <2>1 DEF Tells
  <2> QED
    BY <2>1, <2>2, <2>3, <2>4, AnswerKeeps
<1>6. CASE CORSPreflight
  <2>1. /\ layer = 3 /\ layer' = 4 /\ at = "chain" /\ at' = "end"
        /\ UNCHANGED <<env, r, over>> /\ result' = "none"
    BY <1>6, Positions DEF CORSPreflight, IInv, Typed, Shape
  <2>2. {"Allow-Origin"} \in SUBSET HeaderName
    BY DEF HeaderName
  <2>3. Answer(204, {"Allow-Origin"}, "untouched")
    BY <1>6 DEF CORSPreflight
  <2>4. Tells(204, "untouched", result')
    BY <2>1 DEF Tells
  <2> QED
    BY <2>1, <2>2, <2>3, <2>4, AnswerKeeps
<1>7. CASE CORSPass
  <2> DEFINE H == IF CORSConcerned /\ OriginAllowed THEN {"Allow-Origin"} ELSE {}
  <2>1. H \in SUBSET HeaderName
    BY DEF HeaderName
  <2>2. CORSConcerned /\ OriginAllowed => "Allow-Origin" \in H
    OBVIOUS
  <2>3. Tag("CORS", H)
    BY <1>7 DEF CORSPass
  <2> HIDE DEF H
  <2> QED
    BY <2>1, <2>2, <2>3, TagKeeps
<1>8. CASE Spawn
  <2>1. /\ worker' = "serving" /\ conn' = "waiting"
        /\ UNCHANGED <<env, r, at, out, buf, result>>
    BY <1>8 DEF Spawn
  <2>2. layer = 5 /\ layer' = 6 /\ at = "chain"
    BY <1>8, Positions DEF Spawn, IInv, Typed
  <2>3. worker = "none" /\ conn = "serving"
    BY <2>2 DEF IInv, Typed, Shape
  <2>4. Typed'
    BY <2>1, <2>2 DEF IInv, Typed
  <2>5. Shape'
    BY <2>1, <2>2, <2>3, SameRequest DEF IInv, Shape
  <2>6. Written'
    BY <2>1, <2>2, <2>3 DEF IInv, Written
  <2>7. Tags'
    BY <2>1, <2>2, SameRequest DEF IInv, Tags
  <2> QED
    BY <2>4, <2>5, <2>6, <2>7 DEF IInv
<1> QED
  BY <1>1, <1>2, <1>3, <1>4, <1>5, <1>6, <1>7, <1>8 DEF Middleware

\* Errors written below the chain, before the service has been called.
LEMMA RefuseKeeps ==
  ASSUME IInv, NEW status \in Nat, Refuse(status), at # "end", layer >= 4,
         status \notin {200, 201},
         r.path \in Protected /\ status = 401 => ~Identified
  PROVE  IInv'
<1>1. /\ at' = "end" /\ UNCHANGED <<env, r, layer, over>>
      /\ result' = "none" /\ Answer(status, JSON, "untouched")
  BY DEF Refuse, IInv, Shape
<1>2. JSON \in SUBSET HeaderName
  BY DEF JSON, HeaderName
<1>3. Tells(status, "untouched", result')
  BY <1>1 DEF Tells
<1> QED
  BY <1>1, <1>2, <1>3, AnswerKeeps

\* Routes, RateLimit and RequireAuth let a request pass or answer it without a
\* cookie.
LEMMA RoutingKeeps ==
  ASSUME IInv, RouteNotFound \/ Route \/ LimitFailed \/ LimitReached
               \/ LimitPassed \/ AuthRefused \/ AuthPassed
  PROVE  IInv'
<1>0. Limited \cap Protected = {} /\ Limited \cap Local = {}
  BY DEF Limited, Protected, Local
<1>1. CASE RouteNotFound
  <2>1. Refuse(404) /\ at # "end" /\ layer = 7
    BY <1>1 DEF RouteNotFound, Routing, Chain
  <2> QED
    BY <2>1, RefuseKeeps
<1>2. CASE Route
  <2>1. at # "end" /\ layer = 7
    BY <1>2 DEF Route, Routing, Chain
  <2>2. CASE r.path \in Limited
    <3>1. r.path \notin Protected
      BY <1>0, <2>2
    <3>2. GoTo("limiter")
      BY <1>2, <2>2, <3>1, Zenon DEF Route
    <3> QED
      BY <2>1, <2>2, <3>1, <3>2, GoToKeeps
  <2>3. CASE r.path \in Protected
    <3>1. r.path \notin Limited
      BY <1>0, <2>3
    <3>2. GoTo("auth")
      BY <1>2, <2>3, <3>1, Zenon DEF Route
    <3> QED
      BY <2>1, <3>2, GoToKeeps
  <2>4. CASE r.path \notin Limited /\ r.path \notin Protected
    <3>1. GoTo("handler")
      BY <1>2, <2>4, Zenon DEF Route
    <3> QED
      BY <2>1, <2>4, <3>1, GoToKeeps
  <2> QED
    BY <2>2, <2>3, <2>4
<1>3. CASE LimitFailed
  <2>1. Refuse(500) /\ at # "end" /\ layer = 7
    BY <1>3 DEF LimitFailed, IInv, Shape
  <2> QED
    BY <2>1, RefuseKeeps
<1>4. CASE LimitReached
  <2>1. /\ at # "end" /\ at' = "end" /\ layer = 7 /\ result' = "none"
        /\ UNCHANGED <<env, r, layer, over>>
    BY <1>4 DEF LimitReached, IInv, Shape
  <2>2. Answer(429, JSON \cup {"Retry-After"}, "untouched")
    BY <1>4 DEF LimitReached
  <2>3. JSON \cup {"Retry-After"} \in SUBSET HeaderName
    BY DEF JSON, HeaderName
  <2>4. Tells(429, "untouched", result')
    BY <2>1 DEF Tells
  <2> QED
    BY <2>1, <2>2, <2>3, <2>4, AnswerKeeps
<1>5. CASE LimitPassed
  <2>1. GoTo("handler") /\ at # "end" /\ layer = 7 /\ r.path \in Limited
    BY <1>5 DEF LimitPassed, IInv, Shape
  <2> QED
    BY <1>0, <2>1, GoToKeeps
<1>6. CASE AuthRefused
  <2>1. Refuse(401) /\ at # "end" /\ layer = 7 /\ ~Identified
    BY <1>6 DEF AuthRefused, IInv, Shape
  <2> QED
    BY <2>1, RefuseKeeps
<1>7. CASE AuthPassed
  <2>1. GoTo("handler") /\ at # "end" /\ layer = 7 /\ Identified
    BY <1>7 DEF AuthPassed, IInv, Shape
  <2> QED
    BY <2>1, GoToKeeps
<1> QED
  BY <1>1, <1>2, <1>3, <1>4, <1>5, <1>6, <1>7

\* The handlers answer what needs no service without touching the cookie.
LEMMA HandlerKeeps ==
  ASSUME IInv, MethodNotAllowed \/ InputRefused \/ AnsweredLocally \/ CallService
  PROVE  IInv'
<1>1. at = "handler" /\ layer = 7 /\ result = "none"
  BY DEF MethodNotAllowed, InputRefused, AnsweredLocally, CallService, IInv, Shape
<1>2. CASE MethodNotAllowed
  BY <1>1, <1>2, RefuseKeeps DEF MethodNotAllowed
<1>3. CASE InputRefused
  <2>1. Refuse(Objection) /\ Objection # 0
    BY <1>3 DEF InputRefused
  <2>2. /\ Objection \in Nat /\ Objection \notin {200, 201}
        /\ ~(r.path \in Protected /\ Objection = 401)
    BY <2>1, Objections
  <2> QED
    BY <1>1, <2>1, <2>2, RefuseKeeps
<1>4. CASE AnsweredLocally
  <2>1. /\ at' = "end" /\ UNCHANGED <<env, r, layer, over, result>>
        /\ r.path \in Local /\ Answer(200, JSON, "untouched")
    BY <1>4 DEF AnsweredLocally
  <2>2. JSON \in SUBSET HeaderName
    BY DEF JSON, HeaderName
  <2>3. Tells(200, "untouched", result')
    BY <1>1, <2>1, Cookies DEF Tells
  <2> QED
    BY <1>1, <2>1, <2>2, <2>3, AnswerKeeps
<1>5. CASE CallService
  <2>1. GoTo("service") /\ r.path \notin Local
    BY <1>5 DEF CallService
  <2>2. r.path \in Protected => Identified
    BY <1>1 DEF IInv, Shape
  <2> QED
    BY <1>1, <2>1, <2>2, GoToKeeps
<1> QED
  BY <1>2, <1>3, <1>4, <1>5

\* Status, cookie and result of a service call are written in one step.
LEMMA ServiceKeeps ==
  ASSUME IInv, ServiceFailed \/ ServiceDone \/ Panic
  PROVE  IInv'
<1>1. at \in {"limiter", "service"} /\ at' = "end" /\ layer = 7
      /\ UNCHANGED <<env, r, layer, over>>
  BY DEF ServiceFailed, ServiceDone, Panic, IInv, Shape
<1>2. JSON \in SUBSET HeaderName
  BY DEF JSON, HeaderName
<1>3. CASE ServiceFailed
  <2>1. PICK e \in Errors(r.path) :
          result' = e /\ Answer(ErrorStatus(e), JSON, "untouched")
    BY <1>3 DEF ServiceFailed
  <2>2. /\ e \notin {"ok", "panic", "none"}
        /\ ErrorStatus(e) \in {401, 409, 500}
    BY ErrorsAreErrors
  <2>3. Tells(ErrorStatus(e), "untouched", result')
    BY <2>1, <2>2 DEF Tells
  <2> QED
    BY <1>1, <1>2, <2>1, <2>2, <2>3, AnswerKeeps
<1>4. CASE ServiceDone
  <2> DEFINE status == IF r.path = "register" THEN 201 ELSE 200
  <2>1. result' = "ok" /\ Answer(status, JSON, CookieOf(r.path))
    BY <1>4 DEF ServiceDone
  <2>2. r.path \notin Local
    BY <1>4 DEF ServiceDone, IInv, Shape
  <2>3. Tells(status, CookieOf(r.path), result')
    BY <2>1, <2>2, Cookies DEF Tells
  <2>4. status \in Nat
    OBVIOUS
  <2> HIDE DEF status
  <2> QED
    BY <1>1, <1>2, <2>1, <2>3, <2>4, Cookies, AnswerKeeps
<1>5. CASE Panic
  <2>1. Recovered
    <3>1. Chain[7] = "Recoverer" /\ Chain[6] = "Timeout"
      BY DEF Chain
    <3>2. 7 \in 1..layer /\ 6 \in 1..(7 - 1)
      BY <1>1
    <3> QED
      BY <3>1, <3>2 DEF Recovered
  <2>2. result' = "panic" /\ Answer(500, JSON, "untouched")
    BY <1>5, <2>1 DEF Panic
  <2>3. Tells(500, "untouched", result')
    BY <2>2 DEF Tells
  <2> QED
    BY <1>1, <1>2, <2>2, <2>3, AnswerKeeps
<1> QED
  BY <1>3, <1>4, <1>5

\* Timeout copies the worker's response as a whole or writes none of it.
LEMMA ConnectionKeeps ==
  ASSUME IInv, Connection
  PROVE  IInv'
<1>1. CASE ContextEnds
  <2>1. UNCHANGED <<env, r, layer, at, conn, worker, out, buf, result>>
    BY <1>1 DEF ContextEnds
  <2>2. Typed' /\ Shape'
    BY <2>1, SameRequest DEF IInv, Typed, Shape
  <2>3. Written' /\ Tags'
    BY <2>1, SameRequest DEF IInv, Written, Tags, Current
  <2> QED
    BY <2>2, <2>3 DEF IInv
<1>2. CASE AnswerOfWorker
  <2>1. /\ conn = "waiting" /\ worker = "done" /\ conn' = "answered"
        /\ out' = [buf EXCEPT !.headers = @ \cup out.headers]
        /\ UNCHANGED <<env, r, layer, at, worker, buf, result>>
    BY <1>2 DEF AnswerOfWorker
  <2>2. /\ out' \in Response /\ out'.headers = buf.headers \cup out.headers
        /\ out'.status = buf.status /\ out'.cookie = buf.cookie
    BY <2>1 DEF IInv, Typed, Response
  <2>3. at = "end" /\ Current = buf /\ Current' = buf
    BY <2>1 DEF IInv, Shape, Current
  <2>4. Typed'
    BY <2>1, <2>2 DEF IInv, Typed
  <2>5. Shape'
    BY <2>1, SameRequest DEF IInv, Shape
  <2>6. Written'
    BY <2>1, <2>2, <2>3, SameRequest DEF IInv, Written
  <2>7. Tags'
    BY <2>1, <2>2, SameRequest DEF IInv, Tags
  <2> QED
    BY <2>4, <2>5, <2>6, <2>7 DEF IInv
<1>3. CASE AnswerTimeout
  <2>1. /\ conn = "waiting" /\ conn' = "answered"
        /\ out' = [out EXCEPT !.status = 504, !.headers = @ \cup JSON]
        /\ UNCHANGED <<env, r, layer, at, worker, buf, result>>
    BY <1>3 DEF AnswerTimeout
  <2>0. JSON \in SUBSET HeaderName /\ 504 \in Nat /\ out \in Response
    BY DEF JSON, HeaderName, IInv, Typed
  <2>2. /\ out' \in Response /\ out'.headers = out.headers \cup JSON
        /\ out'.status = 504 /\ out'.cookie = out.cookie
    <3> DEFINE H == out.headers \cup JSON
    <3>1. H \in SUBSET HeaderName
      BY <2>0 DEF Response
    <3>2. out' = [out EXCEPT !.status = 504, !.headers = H]
      BY <2>0, <2>1 DEF Response
    <3> HIDE DEF H
    <3>3. out' = [status |-> 504, headers |-> H, cookie |-> out.cookie]
      BY <2>0, <3>2 DEF Response
    <3>4. out.cookie \in {"untouched", "set", "cleared"}
      BY <2>0 DEF Response
    <3>5. out' \in Response
      BY <2>0, <3>1, <3>3, <3>4 DEF Response
    <3> QED
      BY <3>3, <3>5 DEF H
  <2>3. worker # "none" /\ Current = buf /\ Current' = buf
    BY <2>1 DEF IInv, Shape, Current
  <2>4. Typed'
    BY <2>1, <2>2 DEF IInv, Typed
  <2>5. Shape'
    BY <2>1, <2>3, SameRequest DEF IInv, Shape
  <2>6. Written'
    BY <2>1, <2>2, <2>3, SameRequest DEF IInv, Written
  <2>7. Tags'
    BY <2>1, <2>2, SameRequest DEF IInv, Tags
  <2> QED
    BY <2>4, <2>5, <2>6, <2>7 DEF IInv
<1> QED
  BY <1>1, <1>2, <1>3 DEF Connection

\* A step that changes nothing keeps the invariant.
LEMMA StutterKeeps ==
  ASSUME IInv, UNCHANGED vars
  PROVE  IInv'
<1>1. UNCHANGED <<env, r, layer, at, conn, worker, out, buf, over, result>>
  BY DEF vars
<1>2. Typed' /\ Shape'
  BY <1>1, SameRequest DEF IInv, Typed, Shape
<1>3. Written' /\ Tags'
  BY <1>1, SameRequest DEF IInv, Written, Tags, Current
<1> QED
  BY <1>2, <1>3 DEF IInv

\* The inductive invariant of the exchange; the theorems below draw on it.
LEMMA InvariantHolds == Spec => []IInv
<1>1. IInv /\ [Next]_vars => IInv'
  BY MiddlewareKeeps, RoutingKeeps, HandlerKeeps, ServiceKeeps, ConnectionKeeps,
     StutterKeeps DEF Next, Below
<1> QED
  BY InitEstablishes, <1>1, PTL DEF Spec

-----------------------------------------------------------------------------
(* The properties.                                                         *)

\* No answer leaves without the headers of the middlewares, whoever wrote it.
THEOREM AnswersAreTagged == Spec => []EveryAnswerTagged
<1>1. IInv => EveryAnswerTagged
  <2> SUFFICES ASSUME IInv, Answered PROVE EveryAnswerTagged
    BY DEF EveryAnswerTagged
  <2>1. layer \in 4..7
    BY DEF IInv, Typed, Shape, Answered
  <2> QED
    BY <2>1 DEF IInv, Tags, EveryAnswerTagged
<1> QED
  BY <1>1, InvariantHolds, PTL

\* A panic below Timeout never ends the process and is answered with an error.
THEOREM PanicsAreContained == Spec => []PanicContained
<1>1. IInv => PanicContained
  BY DEF IInv, Typed, Shape, Written, Tells, Current, PanicContained, Answered
<1> QED
  BY <1>1, InvariantHolds, PTL

\* The cookie changes exactly with the answer that says so.
THEOREM CookieMatchesAnswer == Spec => []CookieAsTold
<1>1. IInv => CookieAsTold
  BY DEF IInv, Typed, Shape, Written, Tells, Current, CookieAsTold, Answered
<1> QED
  BY <1>1, InvariantHolds, PTL

\* The status is that of what the service did, but for a 504.
THEOREM OutcomeMatchesAnswer == Spec => []OutcomeAsTold
<1>1. IInv => OutcomeAsTold
  BY DEF IInv, Typed, Shape, Written, Tells, Current, OutcomeAsTold, Answered
<1> QED
  BY <1>1, InvariantHolds, PTL

\* An honest client is not sent to its login before expires_in is over.
THEOREM ServiceIsKeptUp == Spec => []ServedAsPromised
<1>1. IInv => ServedAsPromised
  <2> SUFFICES ASSUME IInv, at = "end", HasToken,
                      r.auth.elapsed <= r.auth.delay
                        + ExpiresIn(r.auth.signing) * TicksPerSecond,
                      -Leeway <= r.auth.ahead,
                      r.auth.ahead + r.auth.delay <= Leeway,
                      r.path \in Protected
               PROVE  Current.status # 401 \/ result # "none"
    BY Zenon DEF ServedAsPromised
  <2>1. /\ r.auth.issued \in Nat /\ r.auth.delay \in Nat
        /\ r.auth.elapsed \in Nat /\ r.auth.ahead \in Int
        /\ r.auth.signing \in 1..(AccessTTL * TicksPerSecond)
    BY ExchangeAssumption, Zenon DEF IInv, Typed, HasToken
  <2>2. r.auth.signing \in Nat /\ r.auth.signing > 0
    BY <2>1, ResolutionAssumption, AccessTTLAssumption
  <2>3. Identified
    BY <2>1, <2>2, ValidAsPromised DEF Identified
  <2> QED
    BY <2>3 DEF IInv, Written, Tells
<1> QED
  BY <1>1, InvariantHolds, PTL

\* Nobody is served after the ttl and the leeway are over.
THEOREM ServiceEndsInTime == Spec => []NotServedLater
<1>1. IInv => NotServedLater
  <2> SUFFICES ASSUME IInv, r.path \in Protected, at \in {"handler", "service"}
               PROVE  /\ HasToken
                      /\ r.auth.elapsed
                           < AccessTTL * TicksPerSecond + Leeway - r.auth.ahead
    BY DEF NotServedLater
  <2>1. Identified
    BY DEF IInv, Shape
  <2>2. HasToken
    BY <2>1 DEF Identified
  <2>3. /\ r.auth.issued \in Nat
        /\ r.auth.elapsed \in Nat /\ r.auth.ahead \in Int
    BY <2>2, ExchangeAssumption, Zenon DEF IInv, Typed, HasToken
  <2> QED
    BY <2>1, <2>2, <2>3, RefusedInTime DEF Identified
<1> QED
  BY <1>1, InvariantHolds, PTL

\* validate and parseSameSite agree about what they read: in every environment the
\* service starts in, its cookies are ones a browser keeps.
THEOREM CookiesAreKept == Spec => []CookieAcceptable
<1>1. IInv => CookieAcceptable
  <2> SUFFICES ASSUME IInv PROVE CookieAcceptable
    OBVIOUS
  <2>1. validate(cfg)
    BY DEF IInv, Typed, cfg
  <2>2. Attributes.SameSite = "None" => Attributes.Secure
    <3>1. ASSUME parseSameSite(cfg.CookieSameSite) = "None"
          PROVE  Normalized(cfg.CookieSameSite) = "none"
      <4>1. ASSUME Normalized(cfg.CookieSameSite) = "strict" PROVE FALSE
        <5>1. parseSameSite(cfg.CookieSameSite) = "Strict"
          BY <4>1, Zenon DEF parseSameSite
        <5> QED
          BY <3>1, <5>1
      <4>2. ASSUME Normalized(cfg.CookieSameSite) # "strict",
                   Normalized(cfg.CookieSameSite) # "none"
            PROVE  FALSE
        <5>1. parseSameSite(cfg.CookieSameSite) = "Lax"
          BY <4>2, Zenon DEF parseSameSite
        <5> QED
          BY <3>1, <5>1
      <4> QED
        BY <4>1, <4>2
    <3> QED
      BY <2>1, <3>1 DEF validate, Attributes
  <2>3. Attributes.MaxAge > 0
    <3>1. cfg.RefreshTokenTTLHours \in Nat \ {0}
      BY <2>1 DEF validate, Periods
    <3> QED
      BY <3>1 DEF Attributes
  <2>4. ASSUME env.APP_ENV # Unset, env.APP_ENV.word \in {"prod", "production"}
        PROVE  Attributes.Secure
    <3>1. Normalized(getEnv(env.APP_ENV, "development")) = env.APP_ENV.word
      BY <2>4 DEF Normalized, getEnv
    <3>2. normalizeAppEnv(getEnv(env.APP_ENV, "development")) = "production"
      <4>1. ASSUME env.APP_ENV.word = "prod"
            PROVE  normalizeAppEnv(getEnv(env.APP_ENV, "development")) = "production"
        BY <3>1, <4>1, Zenon DEF normalizeAppEnv
      <4>2. ASSUME env.APP_ENV.word = "production"
            PROVE  normalizeAppEnv(getEnv(env.APP_ENV, "development")) = "production"
        BY <3>1, <4>2, Zenon DEF normalizeAppEnv
      <4> QED
        BY <2>4, <4>1, <4>2
    <3>3. Read(env).AppEnv = "production"
      BY <3>2, Zenon DEF Read
    <3>4. cfg = [Read(env) EXCEPT !.CookieSecure = TRUE]
      BY <3>3 DEF cfg, Load, applySecureDefaults
    <3>5. cfg.CookieSecure
      BY <3>4 DEF Read
    <3> QED
      BY <3>5 DEF Attributes
  <2> QED
    BY <2>2, <2>3, <2>4 DEF CookieAcceptable
<1> QED
  BY <1>1, InvariantHolds, PTL
=============================================================================
