----------------------------- MODULE RateLimit ------------------------------
(***************************************************************************)
(* The fixed-window rate limiter: RateLimitService.Allow and the           *)
(* middleware that asks it.  Its counters live in Redis, one per scope     *)
(* (login, register, refresh) and client, and every application instance   *)
(* increments the same ones.  A step of a handler is one Redis command     *)
(* with the local code up to the next one: INCR, then EXPIRE by whoever    *)
(* read 1, then TTL and the verdict.                                       *)
(***************************************************************************)
EXTENDS Naturals

CONSTANTS
  Handler,    \* request goroutines, of all application instances
  Key,        \* auth:rate_limit:<scope>:<identifier>
  Limit,      \* key -> requests allowed per window (0: any limit below 1)
  Window,     \* key -> length of a window in ticks (0: any below a second)
  MaxLives    \* bound: how often a key is created

ASSUME RateLimitAssumption ==
  /\ Limit \in [Key -> Nat]
  /\ Window \in [Key -> Nat]
  /\ MaxLives \in Nat \ {0}

\* A counter is compared with 1 and with its limit only, so a larger value is
\* as good as this one.
Many(k) == Limit[k] + 2

VARIABLES
  count,      \* key -> its value; 0 when there is no such key
  left,       \* key -> ticks until it expires; 0 when it has no expiry
  call,       \* handler -> the request it checks
  life,       \* key -> how many times it expired (not in the code)
  admitted,   \* key, life -> requests passed on (not in the code)
  orphan      \* keys whose creator failed, or was executed twice, before it
              \* had set their expiry (not in the code)

vars == <<count, left, call, life, admitted, orphan>>

Lives == 0..(MaxLives - 1)

Request == [pc : {"idle", "incr", "expire", "ttl"}, key : Key,
            count : Nat, life : Lives]

Idle(k) == [pc |-> "idle", key |-> k, count |-> 0, life |-> 0]

\* The types of counters and requests; no counter is ever given more time than
\* its window.
TypeOK ==
  /\ count \in [Key -> Nat] /\ left \in [Key -> Nat]
  /\ \A k \in Key : count[k] <= Many(k) /\ left[k] <= Window[k]
  /\ call \in [Handler -> Request]
  /\ life \in [Key -> Lives]
  /\ admitted \in [Key \X Lives -> Nat]
  /\ orphan \subseteq Key

Init ==
  /\ count = [k \in Key |-> 0]
  /\ left = [k \in Key |-> 0]
  /\ call \in [Handler -> {Idle(k) : k \in Key}]
  /\ life = [k \in Key |-> 0]
  /\ admitted = [kl \in Key \X Lives |-> 0]
  /\ orphan = {}

-----------------------------------------------------------------------------
At(h, command) == call[h].pc = command

KeyOf(h) == call[h].key

Become(h, r) == call' = [call EXCEPT ![h] = r]

\* A request of client k comes in.
Arrive(h, k) ==
  /\ At(h, "idle")
  /\ Become(h, [Idle(k) EXCEPT !.pc = "incr"])
  /\ UNCHANGED <<count, left, life, admitted, orphan>>

\* INCR creates a missing key with value 1 and no expiry, and leaves the
\* expiry of a present one alone.
Successor(k) == IF count[k] = Many(k) THEN count[k] ELSE count[k] + 1

\* A slip: the expiry is set only once the limit is reached.
SetsExpiryAtLimit(k, n) == n = Limit[k]

\* Whoever read 1 created the counter of k, and sets its expiry.
SetsExpiry(k, n) == n = 1

Incr(h) ==
  LET n == Successor(KeyOf(h))
  IN  /\ At(h, "incr")
      /\ count' = [count EXCEPT ![KeyOf(h)] = n]
      /\ Become(h, [call[h] EXCEPT !.count = n, !.life = life[KeyOf(h)],
                                   !.pc = IF SetsExpiry(KeyOf(h), n)
                                          THEN "expire" ELSE "ttl"])
      /\ UNCHANGED <<left, life, admitted, orphan>>

\* The answer to INCR is lost and the client library sends it again: if the
\* first one created the key, nobody is going to read 1.
IncrResent(h) ==
  /\ At(h, "incr")
  /\ count' = [count EXCEPT ![KeyOf(h)] = Successor(KeyOf(h))]
  /\ orphan' = IF count[KeyOf(h)] = 0 THEN orphan \cup {KeyOf(h)} ELSE orphan
  /\ UNCHANGED <<left, call, life, admitted>>

\* The keys K are gone.
Remove(K) ==
  /\ \A k \in K : life[k] + 1 \in Lives
  /\ count' = [k \in Key |-> IF k \in K THEN 0 ELSE count[k]]
  /\ life' = [k \in Key |-> IF k \in K THEN life[k] + 1 ELSE life[k]]
  /\ orphan' = orphan \ K

\* EXPIRE does nothing to a missing key and removes one that is given no time.
SetExpiry(k) ==
  \/ /\ count[k] = 0
     /\ UNCHANGED <<count, left, life, orphan>>
  \/ /\ count[k] # 0 /\ Window[k] # 0
     /\ left' = [left EXCEPT ![k] = Window[k]]
     /\ UNCHANGED <<count, life, orphan>>
  \/ /\ count[k] # 0 /\ Window[k] = 0
     /\ Remove({k})
     /\ UNCHANGED left

\* A slip: seconds are taken for a smaller unit.
ExpireWrongUnit(h) ==
  /\ At(h, "expire")
  /\ left' = [left EXCEPT ![KeyOf(h)] = 60 * Window[KeyOf(h)]]
  /\ Become(h, [call[h] EXCEPT !.pc = "ttl"])
  /\ UNCHANGED <<count, life, admitted, orphan>>

Expire(h) ==
  /\ At(h, "expire")
  /\ SetExpiry(KeyOf(h))
  /\ Become(h, [call[h] EXCEPT !.pc = "ttl"])
  /\ UNCHANGED admitted

ExpireResent(h) ==
  /\ At(h, "expire")
  /\ SetExpiry(KeyOf(h))
  /\ UNCHANGED <<call, admitted>>

\* A slip: one request too many.
AllowedPlusOne(k, n) == n <= Limit[k] + 1

Allowed(k, n) == n <= Limit[k]

\* TTL, which only the Retry-After header shows, then the verdict: the request
\* is passed on, or answered 429.
Verdict(h) ==
  /\ At(h, "ttl")
  /\ admitted' = IF Allowed(KeyOf(h), call[h].count)
                 THEN [admitted EXCEPT ![<<KeyOf(h), call[h].life>>] = @ + 1]
                 ELSE admitted
  /\ Become(h, Idle(KeyOf(h)))
  /\ UNCHANGED <<count, left, life, orphan>>

\* A call to Redis fails, executed or not, or the instance dies: the request
\* is answered 500 or not at all.
Abort(h) ==
  /\ ~At(h, "idle")
  /\ Become(h, Idle(KeyOf(h)))
  /\ orphan' = IF At(h, "expire") /\ call[h].life = life[KeyOf(h)]
                                  /\ left[KeyOf(h)] = 0
               THEN orphan \cup {KeyOf(h)}
               ELSE orphan
  /\ UNCHANGED <<count, left, life, admitted>>

\* A tick of the clock; the keys whose time is up are gone.
Tick ==
  /\ \E k \in Key : left[k] > 0
  /\ Remove({k \in Key : left[k] = 1})
  /\ left' = [k \in Key |-> IF left[k] > 0 THEN left[k] - 1 ELSE 0]
  /\ UNCHANGED <<call, admitted>>

-----------------------------------------------------------------------------
Serve(h) == Incr(h) \/ Expire(h) \/ Verdict(h)

Next ==
  \/ \E h \in Handler :
       \/ \E k \in Key : Arrive(h, k)
       \/ Serve(h) \/ Abort(h)
       \/ IncrResent(h) \/ ExpireResent(h)
  \/ Tick

Spec == Init /\ [][Next]_vars

(* A call to Redis completes or fails within its deadline, and the clock of *)
(* Redis does not stop.                                                     *)
Fairness ==
  /\ \A h \in Handler : WF_vars(Serve(h) \/ Abort(h))
  /\ WF_vars(Tick)

FairSpec == Spec /\ Fairness

-----------------------------------------------------------------------------
\* Between the creation of a counter and its expiry at most Limit requests
\* pass, on however many instances they run and however their commands
\* interleave, fail or are repeated.
AtMostLimit ==
  \A k \in Key, n \in Lives : admitted[<<k, n>>] <= Limit[k]

\* The last life of a key within the bound is not seen to end.
Blocked(k) == count[k] > Limit[k] /\ life[k] + 1 \in Lives

\* A window ends: a counter over its limit is removed in the end, unless the
\* one request that is to set its expiry failed before it did or was counted
\* twice.  What happens to any other request changes nothing.
WindowEnds ==
  \A k \in Key : Blocked(k) ~> count[k] = 0 \/ k \in orphan

\* rate_limit_middleware.go:25: "too many requests, please try again later":
\* a client over the limit is let in again one day.
LaterIsAllowed ==
  \A k \in Key : Blocked(k) ~> count[k] = 0
=============================================================================
