# A verification project for auth_login_load_balancing

The repository is a Go authentication service: several stateless instances
behind nginx share a PostgreSQL database (users, sessions, audit log) and a
Redis (refresh tokens, rate-limit counters). Its difficulties come from that
sharing. A request is a sequence of separate calls to two stores, with no
transaction around them; requests of all instances interleave between the
calls; any call may fail, be repeated by the client library, or be the last
one its process makes. This directory models that, checks it with TLC and
proves the central results with TLAPS.

## 1. Inventory

| part | source | state it keeps | operations |
|---|---|---|---|
| refresh-token store | `internal/repository/refresh_token_repository.go` | Redis: one JSON record per token with a ttl, one index set per user and one per session, without a ttl | `Create` (MULTI/EXEC), `FindByToken` (GET), `UpdateStatus` (GET then SET), `RevokeByToken`, `RevokeAllBySession`, `RevokeAllByUser` (SMEMBERS, then GET and GET/SET per token) |
| session store | `session_repository.go`, `db/schema.sql` | table `sessions` | INSERT, UPDATE of the status by id or by user, UPDATE of `last_used_at`, SELECT |
| AuthService | `internal/service/auth_service.go`, `token_service.go` | none | `Login`, `Register`, `RefreshAccessToken` with reuse detection, `Logout`, `LogoutAll`, `RevokeSession`, `ListSessions` |
| accounts | `user_repository.go`, `Register`, the credential check of `Login` | table `users`, unique index on the address | INSERT, SELECT by address or id |
| audit trail | `audit_service.go`, `audit_log_repository.go` | table `audit_logs` | INSERT, failures swallowed |
| rate limiter | `rate_limit_service.go`, `rate_limit_middleware.go` | Redis: a counter per scope and client address | INCR, EXPIRE by whoever read 1, TTL |
| timeouts, shutdown | `middleware.go` (`Timeout`, `Recoverer`), `cmd/server/main.go` | goroutines of a process | answer, give up, drain |
| HTTP layer | `internal/middleware/middleware.go`, `auth_middleware.go`, `internal/handler/handler.go` | the response of the connection, the buffered response of `Timeout`'s goroutine | seven middlewares in a chain, routes, limiter or `RequireAuth`, ten handlers, status and cookie of the answer |
| access tokens | `token_service.go` | none (the token carries its claims) | `GenerateAccessToken`, `ValidateAccessToken` with a leeway of 30 s |
| configuration | `internal/config/config.go` | read once at start | conversions, defaults, `applySecureDefaults`, `validate` |
| browser page | `docs/swagger-ui/swagger-initializer.js`, the cookie of `handler.go` | cookie jar, access token in `localStorage` | `requestInterceptor`, `responseInterceptor` |
| deployment | `docker-compose.yml` | Redis' snapshots on a volume | crash and restart |
| connections, health, nginx | `internal/database`, `health_service.go`, `infra/nginx` | | |

**How they interact.** nginx hands a request to an instance. The handler passes
the middlewares (the limiter asks Redis; `Timeout` moves the rest into a
goroutine of its own), then calls AuthService, which calls the two stores one
after the other and the audit trail last. The answer carries a refresh token in
a cookie and an access token that nothing can revoke.

**What is hard**, and therefore what the properties are about:

* `UpdateStatus` is a read followed by an unconditional write: concurrent
  status changes of one token overwrite one another.
* A refresh checks the token, marks it, creates the successor, in this order,
  as separate calls: it can race with another refresh, a logout or a
  revocation, and it can stop after any of them.
* A revocation walks an index it read once, token by token, then updates the
  session rows in the other store.
* A logout acts on the token the client holds, which may be out of date.
* Redis expires records but not index entries, and the ttl of a write is
  computed before the write is executed, so an expired record may come back.
* The limiter's counter gets its expiry by a second command of one of its users.
* The answer of a request and the work for it are two goroutines; three
  deadlines (request, connection, shutdown) have no fixed order. Which headers an
  answer has, and whether a panic ends the process, depends on the order of the
  middlewares around the point where the second goroutine starts.
* Redis is run with snapshots only: after a crash it has lost writes PostgreSQL
  and the requests in flight know of.
* The browser's cookie and the page's access token are stored by two parties at
  two moments, as answers arrive; an answer may be lost after the service acted.
* Access tokens are checked on another clock than the one that dated them, in
  whole seconds, against a promise (`expires_in`) counted by the client.

`PROJECT.json` lists each hazard with its line and the properties that cover it.

**What makes each part correct**

* token store: every record is in both indexes; it belongs to a session that
  exists and is the same user's.
* AuthService: a token out of use stays so; a revocation reaches every token
  that was there when it looked; users do not touch each other's records.
* accounts: one confirmed registration per address however it is spelled; who
  was confirmed can log in.
* limiter: never more than the limit per life of a counter; a client over the
  limit is let in again.
* HTTP layer: the answer tells what was done, whoever writes it, and the cookie
  changes with a success only.
* access tokens: accepted for as long as the client was told, and not much longer.
* configuration: what passes `validate` makes cookies browsers keep.
* browser: honest use is not taken for theft; cookie and access token stay in step.
* timeouts: every request is answered; the process stops when told, and a clean
  stop leaves nobody waiting.

## 2. Modules

| module | models | notes |
|---|---|---|
| `Model` | the data of `internal/model`, cut to what the service branches on | token *n* is the *n*-th generated |
| `RefreshTokenRepository` | Redis and the commands of the repository | one operator per atomic command |
| `SessionRepository` | table `sessions` | one operator per statement |
| `TokenLifecycle` | abstract specification: chains of tokens, granted and withdrawn once | knows no requests, stores or time |
| `AuthService` | the request handlers over both stores | composes the two repositories |
| `Accounts` | `Register` and the credential check, over table `users` | ends where `AuthService`'s `BeginLogin` begins |
| `RateLimit` | `Allow` and its middleware | |
| `RequestTimeout` | `Timeout`, the server's deadlines, `main`'s shutdown | |
| `RedisRestart` | Redis that goes back to a snapshot | composes with `AuthService` (EXTENDS, its steps and two more) |
| `Browser` | one browser's cookie and access token | composes with `AuthService`: sends its requests, receives its answers |
| `Configuration` | `config.Load` | functions only |
| `AccessTokens` | the dates of an access token | functions only |
| `HttpPipeline` | one exchange through middlewares, router and handlers | uses the two above |
| `MCAuthService`, `MCRedisRestart`, `MCBrowser`, `MCHttpPipeline`, `MCAccounts`, `MCRateLimit` | symmetry sets, addresses, limits, environments and requests for TLC | |
| `AuthServiceSafety` | theorems on types, the stores, rotation and the refinement | |
| `AuthServiceRevocation` | theorems on revocation, the audit trail and whose records a step changes | on `AuthServiceSafety` |
| `RedisRestartProofs` | theorems on what survives a crash of Redis | on the lemmas of `AuthServiceSafety` |
| `BrowserProofs` | theorems on an honest browser | on the invariant of `AuthServiceRevocation` |
| `AccountsProofs`, `RateLimitProofs`, `RequestTimeoutProofs` | theorems on these components | |
| `HttpPipelineProofs` | theorems on the dates of a token and on every answer | |

Definitions introduced by a comment "A slip: ..." are wrong variants of the
definition that follows them. No action uses them: they record which mistake in
the code each property would find, and `PROJECT.json` pairs them.

### AuthService and the code

`req[h]` is the state of one request goroutine: its program counter names the
call it is about to make, and a step is that call together with the local code
up to the next one. `Handler` is the pool of goroutines of *all* instances;
the instances keep no state, so it does not matter which one a handler runs on.

| action | code |
|---|---|
| `BeginLogin` ... `BeginRevokeSession` | the handlers up to the first call of the service |
| `InsertSession`, `CreateToken` | `Login`; `CreateToken` also the second half of a refresh |
| `RefreshUnknown`, `RefreshReused`, `RefreshRefused`, `RefreshAccepted` | GET and the four ways on from it in `RefreshAccessToken` |
| `LogoutFind`, `EndSession` | `Logout` |
| `UpdateGet`, `UpdateMissing`, `UpdateSet` | the two halves of `UpdateStatus`, for all its callers |
| `TouchSession` | `UpdateLastUsedAt`; the column is left out, the call and its failure are not |
| `FindSession` | ownership check of `RevokeSession` |
| `ListTokens`, `RevokeNext`, `RevokeSessions` | the revocation loops and the UPDATE that follows |
| `Finish` | audit row (or its loss), answer (or its loss) |
| `UpdateResent` | the client library repeats a SET |
| `Abort` | the last call failed after taking effect or before, the context is over, or the process died |
| `Tick` | a token passes its `ExpiresAt`; Redis drops a key |

Abstractions:

* **Time.** All refresh tokens have the same ttl and one clock is assumed, so
  they expire in the order they were generated in; the clock is the number
  `lapsed` of tokens past their `ExpiresAt`. Redis drops a key at or after that.
  `RefreshRefused` and `RefreshAccepted` test the clock in the same step as the
  GET, and `UpdateGet` likewise: a token that expires between the GET and the
  test has been read a moment earlier. The write that follows is a later step.
* **Access tokens.** `Authenticated(u)` holds of every user who ever received
  one. A JWT lives a quarter of an hour, so the model allows more than the code.
* **Users** are never deleted, so the `FindByID` inside a refresh finds its row
  and, as it changes nothing, is part of the step before it.
* **Failures.** `Abort` between two steps is both a call that failed without
  effect and a call that took effect and whose answer was lost. A command that
  is executed long after its request ended is not modelled, except that the
  client library may repeat a SET (`UpdateResent`); go-redis does not repeat a
  pipeline whose answer is lost. `NoFork` relies on this.
* **Identifiers** (`uuid.NewString`, 32 random bytes) are fresh by construction.
* A refresh without a cookie, input that is not JSON, and methods that are not
  allowed are answered before any call and change nothing.

### The other modules

`RateLimit`: the counter is compared with 1 and the limit only, so it saturates
two above the limit. `life`, `admitted` and `orphan` are history variables.
Limits and windows belong to the key, as each scope configures its own; windows
are counted in ticks, a window of 0 stands for every window below a second and a
limit of 0 for every limit below one, which `validate` lets through.

`RequestTimeout`: a request has a worker (below the middleware) and an answer
(written by the connection's goroutine). `heard` says whether the answer reached
the peer: not after the write deadline, not when the peer is gone. `Exit` kills
whatever still runs.

`RedisRestart`: `Save` keeps a copy of the three kinds of keys (a fork, so a
consistent image), `Restart` puts it back. Nothing else goes back: PostgreSQL,
the clock, the tokens the clients hold and the requests under way are what they
were. Only one snapshot is kept, as in the code's deployment.

`Browser`: a request of the page is a `fetch` with the handler that serves it.
`Reply` is the service's side (the answer is sent or lost), `ReceiveHeaders` is
the network layer storing the cookie, `ReadBody` the page's script storing the
access token, `LoseBody` the connection or the page gone between the two.
`unsettled`, `twice` and `smooth` are history variables. The browser follows the
rules for cookies; the access token is named by the refresh token it came with.

`Configuration`: a value is a word with the two things the conversions are
sensitive to, blanks around it and capital letters in it, so that what trims,
folds or does neither is told apart.

`AccessTokens`: clocks count ticks, of which there are `TicksPerSecond` in a
second; `Unix` cuts to seconds. `ahead` is how far the checking instance's clock
is ahead of the issuing one's.

`HttpPipeline`: `layer` counts the middlewares a request has entered; `Chain` is
their order, so a middleware is an action enabled at its place. From `Spawn` on
there are two goroutines, and what the running one writes goes to `buf`; the
connection's goroutine answers with it (`AnswerOfWorker`) or with 504
(`AnswerTimeout`), whichever it gets to. A header is a name, a path one of the
routes, a body one of the four kinds the handlers tell apart, and the service's
answer one of the errors each handler knows, another error, or success.
`RequestTimeout` looks at the same two goroutines from the other side: many
requests, deadlines, and the life of the process.

`Accounts`: addresses are a small set with a map `Canonical` to lower case; the
repository applies it on both INSERT and SELECT. A hash is the password it
verifies. `entitled` is a history field.

## 3. What the runs check

Passing runs:

| run | instance | shows |
|---|---|---|
| `Concurrent` | 2 handlers, 1 session, 3 tokens, 1 of them may lapse | `RotationOrder`, `RevocationComplete`, and that `AuthService` implements `TokenLifecycle` (`ImplementsLifecycle`) |
| `Sessions` | 2 handlers, 2 users, 2 sessions, 2 tokens, both may lapse | `TokenOwned`, `TokensIndexed`, `RevocationComplete` and the action property `OwnRecordsOnly` |
| `Restart` | 1 handler, 2 sessions, 3 tokens, 1 crash, every call may fail | `TokenOwned` and `LiveIndexed` whatever Redis lost; `NoFork`: with crashes between requests only (and so also without any), a session never has two usable tokens |
| `Audit` | 2 handlers, 1 session, 2 tokens, under fairness | `AuditTruthful` and the liveness property `RequestsEnd` |
| `Browser` | 2 requests at a time, 2 logins, 2 tokens, 1 of them may lapse | `NoFalseAlarm`, `StoragesAgree`, `RevokedForGood` |
| `Http` | environments of every spelling, every route with every method, origin and kind of input, tokens around each of their dates | `EveryAnswerTagged`, `PanicContained`, `CookieAsTold`, `OutcomeAsTold`, `CookieAcceptable`, `ServedAsPromised`, `NotServedLater` |
| `Limiter` | 2 handlers, 2 scopes (limit 2 and window 2; limit 1 and window 0), 2 lives | `AtMostLimit`, `WindowEnds` |
| `Timeout` | 2 requests, deadlines 3, 2, 2 ticks (15, 10, 10 s) | `CleanStop`, `EveryoneAnswered`, `StopsWhenTold` |
| `Accounts` | 2 handlers, 3 spellings of 2 addresses, 2 passwords, 2 ids | `RegisteredCanLogin`, `OneConfirmationPerAddress` |

Runs that end in a counterexample, each against a sentence of the repository:

| run | sentence | what happens |
|---|---|---|
| `RevokeAllAnswer` | "all active sessions have been revoked" (`auth_service.go:22`), "All sessions revoked" (`openapi.yaml:178`) | a rotation in flight writes USED over REVOKED and stores a successor after the index was read |
| `LimiterFailing` | "please try again later" (`rate_limit_middleware.go:25`) | a failure between INCR and EXPIRE, or an INCR counted twice, leaves a counter that never expires |
| `TimeoutAnswer` | "request timed out" (`middleware.go:143`) | by default that answer is written 5 s after the connection's write deadline |

`RevocationComplete` and `RevokeAllAnswer` are two sides of one matter. What the
code guarantees is about the tokens that were *stored when the revocation read
the index* (a logout: the token it was given); what the sentences say is about
the sessions. A logout has the same gap: it revokes the token it was given and
the session row, so when another request has just rotated that token, the
successor stays usable after the answer to "Logout current session"
(`openapi.yaml:152`), because a refresh does not look at the row.
`RevokedForGood` is the positive side: for a browser that does one thing at a
time, no token it received revives a revoked session. Likewise
`OneUsablePerSession` (inside `NoFork`) holds for one request at a time only: two
refreshes that present the same token both pass the check before either marks
it, both get a successor, and no reuse is detected.

A crash of Redis may make a token ACTIVE again that had been rotated or revoked;
nothing in the code could prevent that. `Restart` says what remains: a session
may go back but does not fork, and whatever can be refreshed with can also be
found and revoked. The stronger `TokensIndexed` does not survive: a request that
has read a record before the crash may write it back, USED or REVOKED, under a
key no index knows any more.

`NoFalseAlarm` says who is told "refresh token reuse detected": besides whoever
presents a token that is not the newest, only a browser that sent the same cookie
twice before the first answer's cookie had arrived. That does include a retry
after a lost answer, which costs an honest user all sessions.

`WindowEnds` and `LimiterFailing` differ in one excuse: the request
that created the counter failed, or was counted twice, before the expiry was set.
`CleanStop` says how far "server stopped cleanly" (`main.go:85`) is true: nobody
is left waiting, but a worker whose request was answered 504 may be killed
between two of its writes, which to the stores is an `Abort` of `AuthService`.

### Bounds

`MaxTokens`, `MaxLapsed`, `MaxRestarts`, `MaxLives` and the ages of
`RequestTimeout` are the only bounds. Two handlers suffice for every pairwise
race: a step of a third request looks to each of them like a step of the other.
Three tokens on one session are the least with which a token is rotated twice and
the first one presented again; one lapsed token among three lets expiry meet a
rotation. Two sessions of one user separate revocation by session from revocation
by user, two users separate owners, and `Sessions` has both. Three tokens in
`Restart` allow a rotation that is forgotten and done again, beside a second
session; one crash at any moment after any snapshot is what each of its
properties is about, and the theorems hold for any number. Two tokens in
`Browser` allow one rotation, or two logins, whose answers may cross; with two
sessions the second login can follow the end of the first.

`Http` enumerates one exchange. Its clocks have two ticks in a second, so that a
token may be issued in the middle of one, and its tokens are one tick before, at
and after each of the dates that matter. `MCEnvironment` has every spelling that
some conversion treats differently, for the settings the exchange depends on.

The theorems of section 4 hold without any of these bounds, so for them the small
instances are where they were found and debugged, not where their validity rests.

In `Limiter`, two lives let a request of a past window finish in the next one,
and the two scopes have the two kinds of window (one that EXPIRE starts, one with
which EXPIRE deletes the counter). `WindowEnds` excludes the last life of a key,
whose end the bound hides. In `RequestTimeout`, ages up to the sum of the
deadlines exceed every deadline. Deadlock is checked everywhere but in
`RequestTimeout`, whose process ends, and `HttpPipeline`, whose exchange does.

### Fairness

* `AuthService`: each handler's next call is made or fails (`WF` of `Serve \/
  Abort`): every call carries the request's context, which has a deadline.
  Nothing is assumed of clients or of the clock.
* `RateLimit`: the same, and the clock of Redis runs.
* `RequestTimeout`: the clock runs, and the runtime schedules a connection's
  goroutine and `main` when they can go on. Nothing is assumed of workers.

Only the runs with liveness properties use it (`Audit`, `Limiter`,
`LimiterFailing`, `Timeout`), and without symmetry; the others use `Spec`.

## 4. What is proved

With TLAPS, for all values of the constants. Every safety invariant and every
action property that a passing run checks is the statement of a theorem here. They
rest on the assumptions the modules name, which TLC evaluates on every run:

* `AuthService`: `BoundsAssumption` and `NoneAssumption`; `RedisRestart` also
  `RestartAssumption`; `Browser` no more than `AuthService`;
* `Accounts`: `AccountsAssumption` (lower case of lower case is itself);
* `RateLimit`: `RateLimitAssumption`, `RequestTimeout`: `TimeoutAssumption`
  (limits, windows and deadlines are numbers);
* access tokens: `ResolutionAssumption` and `AccessTTLAssumption` (the ttl is
  positive, which `validate` demands of the setting);
* exchanges: these two and `ExchangeAssumption`: dates are dates, and signing takes
  a positive time, at most the ttl. `Environment` and `Exchange` are otherwise
  arbitrary sets.

One theorem has a hypothesis of its own: `SessionsDoNotFork` assumes
`OneAtATime`, that no two handlers exist. It is the case its run checks; with two
handlers concurrent refreshes of one token do fork a session, which the code does
not prevent (`RotationOrder` says what it does promise then).

| theorem | states |
|---|---|
| `TypeCorrect` (`AuthServiceSafety`) | `Spec => []TypeOK` |
| `TokensAreOwned`, `TokensAreIndexed`, `RotationIsOrdered` (`AuthServiceSafety`) | `Spec => []TokenOwned`, `[]TokensIndexed`, `[]RotationOrder` |
| `LifecycleImplemented` (`AuthServiceSafety`) | `Spec => ImplementsLifecycle` |
| `RevocationIsComplete` (`AuthServiceRevocation`) | `Spec => []RevocationComplete` |
| `AuditIsTruthful`, `OwnRecords` (`AuthServiceRevocation`) | `Spec => []AuditTruthful`, `Spec => OwnRecordsOnly` (an action property) |
| `OwnedAfterRestart`, `LiveTokensAreIndexed` (`RedisRestartProofs`) | `RestartSpec => []TokenOwned`, `[]LiveIndexed` |
| `SessionsDoNotFork` (`RedisRestartProofs`) | `OneAtATime` implies `RestartSpec => []NoFork` |
| `AlarmsAreTrue`, `StoragesStayTogether`, `RevokedMeansOver` (`BrowserProofs`) | `BrowserSpec => []NoFalseAlarm`, `[]StoragesAgree`, `[]RevokedForGood` |
| `TypeCorrect`, `ConfirmedCanLogin`, `OneConfirmed` (`AccountsProofs`) | `Spec => []TypeOK`, `[]RegisteredCanLogin`, `[]OneConfirmationPerAddress` |
| `TypeCorrect`, `LimitHolds` (`RateLimitProofs`) | `Spec => []TypeOK`, `[]AtMostLimit` |
| `TypeCorrect`, `StopIsClean` (`RequestTimeoutProofs`) | `Spec => []TypeOK`, `[]CleanStop` |
| `AnswersAreTagged`, `PanicsAreContained`, `CookieMatchesAnswer`, `OutcomeMatchesAnswer`, `CookiesAreKept`, `ServiceIsKeptUp`, `ServiceEndsInTime` (`HttpPipelineProofs`) | `Spec => []P` for the seven invariants of `Http`, in this order: `EveryAnswerTagged`, `PanicContained`, `CookieAsTold`, `OutcomeAsTold`, `CookieAcceptable`, `ServedAsPromised`, `NotServedLater` |
| `ValidAsPromised`, `RefusedInTime` (`HttpPipelineProofs`) | a token passes `ValidNow` for as long as its `expires_in` promised, and one that passes is younger than ttl, leeway and difference of clocks allow |

**Type correctness.** `TypeOK` is not inductive: `InsertSession` builds a row
from `req[h].user`, which may be `None` for a record of type `Request`.
`TypeInv` adds `Shape`, which says what a request at each call has found out.

**The stores.** `SafeInv` adds to `TypeInv`

* `StoresAgree`: `TokenOwned`, `TokensIndexed`, and that the indexes hold
  generated tokens only and sessions that do not exist have none;
* `Knows`: what each request learnt from the stores and will act on: the owner
  of its session, the record it is about to write back, and, in the second half
  of a refresh, that its token is out of use;
* `SessionsFresh`: a login between its two writes has its session to itself,
  which is why its first token opens a chain.

The argument that the *other* requests do not disturb what one request knows is
one lemma per command: each is `Monotone` (rows and index entries stay, owners do
not change, a token out of use stays so, REVOKED rows stay REVOKED). `Knows` is
stable under any monotone step, so the proof for each action has two parts: the
command is monotone, and the one handler that moved knows what it should.
`LifecycleImplemented` uses the same invariant: `CreateToken` is a `Grant`,
the chain being new (`SessionsFresh`) or containing a token out of use (`Knows`);
`UpdateSet` and `Lapse` withdraw at most one token; everything else stutters.

**Revocation.** `RevocationInv` adds what each revoking request has achieved so
far: every token of the index it read is out of use or still in hand (`InHand`:
in `todo`, or being updated), and once it reaches its answer, the sessions too.
It is what the loop needs as an invariant; monotonicity again disposes of the
other requests. A rotation that overwrites REVOKED with USED does not matter to
it: both are out of use.

**Own records and the audit trail.** `HistoryInv` adds that the indexes of two
users, and of two sessions, have no token in common and that a key goes missing
only after its token expired (`IndexesFit`); that what a request is about to change
is its user's (`ActsOnOwn`); and what it has already done of what its audit row will
claim (`Claims`). `OwnRecordsOnly` does not follow from `ActsOnOwn` at once: a
logout reads the session out of a token record, and if that is gone it has no
user. It then goes through `UpdateStatus` all the same, and changes nothing
because the token has expired.

**Restart.** `SafeInv` does not survive a crash: what requests learnt from Redis
(that a token is out of use) may be untrue afterwards. `RestartInv` keeps what no
crash takes back, because it comes from PostgreSQL, where rows stay and keep their
owner: every record, now and in the snapshot, is owned by its session
(`Sound`), ACTIVE ones are indexed, and `KnowsOwner` says of a request between two
calls that the owner it knows is right and that the record it is about to write is
not ACTIVE. One lemma says that a step of the service changes no owner
(`OwnersStay`), another (`SnapshotStays`) that the snapshot therefore stays sound
while the service goes on. The steps that write no keys are handled together
(`QuietStep`, shared with the proof of `SafeInv`).

`ForkInv` adds, while no crash has interrupted a request, that no session has two
ACTIVE tokens, in the keys *and* in the snapshot (`OneActive`). This is why going
back is harmless: a snapshot in which an old token is in use again is one from
before its successor was stored. The one rotation under way is about the only
ACTIVE token, and where a token is to be stored there is none (`Sole`); all other
steps withdraw at most (`Withdrawing`).

**The browser.** A step of `Browser` is a step of `AuthService` or leaves the
service alone (`BrowserSteps`), so `HistoryInv` carries over whole. `BrowserInv`
adds to it the way of a token: a request carries it, then its answer, then it
becomes the cookie or is lost, and it never becomes the cookie twice (`Trace`).
Hence a token of which a refresh was sent comes back only by being sent again
before the successor arrived, which is `NoFalseAlarm` (`Alarm` says it of the
request that is about to find the token USED). As long as the page does one thing
at a time (`Smooth`), at most one handler is busy for it (`OneBusy`); what the
storages hold is then known at each stage of the exchange (`Storages`).
`RevokedForGood` would fail if a rotation stored its token after a revocation had
read the index, or if a logout withdrew one token of a session and left another in
use. With one busy handler the tokens of a session form a chain of which only the
youngest may be in use (`ChainOrder`), a rotation meets an ACTIVE session and
knows that there is no other live token (`Revival`), and the cookie, with which a
logout withdraws, is the youngest token the browser was given (`Newest`).

**Accounts.** `IInv` adds the unique index as PostgreSQL enforces it
(`UniqueIndex`); that what was confirmed, *or is about to be*, is on record
(`Recorded`), since nothing deletes a row; and that a request between its INSERT and
its 201 is alone with its address (`SoleConfirmer`): another would have met the
index. `StillPromised` ties the ghost a login carries to the promises.

**Limiter.** `AtMostLimit` bounds what was admitted in a life of a counter;
what is inductive is the sum of what was admitted and of the requests that will be
when their verdict is spoken (`Passed`), which is at most the limit, and at most
the counter while that life lasts (`Counted`). Each INCR raises both sides by one;
after a repeated INCR, a lost answer or a failed request the left one lags. A
request knows the life it was counted in, and none is counted in a life to come
(`NoFuture`), so a new counter starts from 0 on both sides.

**Shutdown.** `AllServed` is what the server checked when it stopped cleanly: for
every request that was accepted an answer exists and the worker is done, or was
killed when the process ended, after its timeout had answered. `AnswersFit` says what answers and workers tell about each
other.

**Exchanges.** The properties of `HttpPipeline` speak of answers; `IInv` says of
every moment what leads there. `Shape` relates the two goroutines (a worker
exists exactly below `Timeout`, it is done exactly when it is at the end, what is
behind `RequireAuth` was identified), `Written` says that a response in the making
and an answer given tell the result of the service call (or are a 504 without a
cookie), and `Tags` which headers the connection's response has at which layer.
That last one is what the order of `Chain` is needed for: the 504 and the answer
to a panic have the headers because the four middlewares that set them come before
`Timeout`. One lemma per group of actions shows that it is kept.

**Dates.** `UnixBounds` places a tick in its second; the rest is linear
arithmetic over ticks, with products abbreviated so that the solver sees none.
`ValidAsPromised` needs that signing took some time (`signing > 0`), so that
cutting `expires_in` to seconds makes up for cutting `exp`: a token of which the
full ttl was promised would be refused up to a second before that, where delay and
clocks have used up the leeway.

**Only model-checked:** all liveness (`RequestsEnd`, `WindowEnds`,
`EveryoneAnswered`, `StopsWhenTold`), which needs ENABLED and fairness and is out
of the prover's reach; and of the runs that expect a violation the property, which
is false. Neither RECURSIVE operators nor induction over data occur. The invariants
above were checked by TLC on the small instances before they were proved.

## 5. What is not modelled

* the pools of database connections (`internal/database`): opened and pinged at
  start, their calls are those of the repositories;
* nginx: which instance serves a request is not visible in the models, as the
  instances share all state; a request it sends twice is two requests; that it
  may use a connection an instance is just closing is not modelled;
* of the configuration, settings the code passes through unread (addresses, names,
  CORS methods and headers, log level) and `DBSSLMode`;
* of routing, the redirects by which `http.ServeMux` cleans paths, and the texts
  of errors; logging;
* clocks that differ between Redis and the instances, `last_used_at`, the value of Retry-After, how
  long a walk of an ever-growing index takes;
* audit rows of requests that are refused before their first call.

## 6. Plan

1. `Model`, `RefreshTokenRepository`, `SessionRepository`, `AuthService`,
   `TokenLifecycle`, their runs and theorems: done.
2. `RateLimit`, `RequestTimeout`, `Accounts`, their runs and theorems: done.
3. `Configuration`, `AccessTokens`, `HttpPipeline`, their run and theorems: done.
4. `Browser` over `AuthService`, its run and theorems: done.
5. `RedisRestart` over `AuthService`, its run and theorems: done.
6. A composition of `RequestTimeout` with `AuthService`: the worker that outlives
   its answer, and shutdown in the middle of a rotation.
7. More refinement: an abstract limiter and an abstract table of accounts, stated
   like `TokenLifecycle` and shown to be implemented; `TokenLifecycle` for
   `BrowserSpec`.
8. Shorter proofs where several actions are handled alike.

## 7. Running it

    tlasany AuthService.tla
    tlc -workers 2 -config Concurrent.cfg MCAuthService
    tlapm AuthServiceSafety.tla

Each `.cfg` has a run of the same name in `PROJECT.json`, which also maps every
definition to the lines it models.
