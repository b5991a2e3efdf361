--------------------------- MODULE RateLimitProofs ---------------------------
(***************************************************************************)
(* The limiter lets no more than Limit requests of a client through between *)
(* the creation of its counter and the counter's expiry, for any number of  *)
(* handlers, clients and limits.                                           *)
(*                                                                         *)
(* The argument is a count: a request that may still pass and a request    *)
(* that has passed were counted by an INCR of their own, so together they  *)
(* are never more than the counter shows, nor more than the limit.  INCRs  *)
(* that were repeated, and requests that failed, only leave slack.         *)
(***************************************************************************)
EXTENDS RateLimit, FiniteSetTheorems, TLAPS

\* The requests counted within a life of a key that will pass when the verdict
\* is spoken.
Passing(k, n) ==
  {h \in Handler : /\ At(h, "expire") \/ At(h, "ttl")
                   /\ KeyOf(h) = k
                   /\ call[h].life = n
                   /\ call[h].count <= Limit[k]}

Passed(k, n) == admitted[<<k, n>>] + Cardinality(Passing(k, n))

\* A request was counted in this life of its key or in an earlier one.
NoFuture ==
  /\ \A h \in Handler : ~At(h, "idle") => call[h].life <= life[KeyOf(h)]
  /\ \A k \in Key, n \in Lives : n > life[k] => admitted[<<k, n>>] = 0

Counted ==
  \A k \in Key, n \in Lives :
    /\ IsFiniteSet(Passing(k, n))
    /\ Passed(k, n) <= Limit[k]
    /\ n = life[k] => Passed(k, n) <= count[k]

IInv == TypeOK /\ NoFuture /\ Counted

-----------------------------------------------------------------------------
\* A handler moves on: the others stay where they are.
LEMMA OneMoves ==
  ASSUME TypeOK, NEW h \in Handler, NEW r \in Request, Become(h, r)
  PROVE  /\ call' \in [Handler -> Request]
         /\ call'[h] = r
         /\ \A g \in Handler : g # h => call'[g] = call[g]
  BY DEF TypeOK, Become

\* The next value of a counter, which stops at the first value beyond any use.
LEMMA SuccessorBounds ==
  ASSUME TypeOK, NEW k \in Key
  PROVE  /\ Successor(k) \in Nat /\ Successor(k) <= Many(k)
         /\ count[k] <= Successor(k)
         /\ Successor(k) <= Limit[k] => Successor(k) = count[k] + 1
  BY RateLimitAssumption DEF TypeOK, Successor, Many

\* Keys that are gone begin another life with nothing counted; of the others
\* nothing changes.
LEMMA RemoveEffect ==
  ASSUME TypeOK, NEW K \in SUBSET Key, Remove(K)
  PROVE  /\ count' \in [Key -> Nat] /\ life' \in [Key -> Lives]
         /\ orphan' \subseteq Key
         /\ \A k \in Key : IF k \in K
                           THEN count'[k] = 0 /\ life'[k] = life[k] + 1
                           ELSE count'[k] = count[k] /\ life'[k] = life[k]
  BY DEF TypeOK, Remove

\* What EXPIRE may do to the counters.
LEMMA SetExpiryEffect ==
  ASSUME TypeOK, NEW e \in Key, SetExpiry(e)
  PROVE  /\ count' \in [Key -> Nat] /\ life' \in [Key -> Lives]
         /\ left' \in [Key -> Nat] /\ orphan' \subseteq Key
         /\ \A k \in Key : /\ count'[k] <= Many(k) /\ left'[k] <= Window[k]
                           /\ \/ count'[k] = count[k] /\ life'[k] = life[k]
                              \/ life'[k] = life[k] + 1
<1>1. CASE count[e] = 0 /\ UNCHANGED <<count, left, life, orphan>>
  BY <1>1 DEF TypeOK
<1>2. CASE left' = [left EXCEPT ![e] = Window[e]] /\ UNCHANGED <<count, life, orphan>>
  <2>1. left \in [Key -> Nat] /\ Window \in [Key -> Nat]
        /\ \A k \in Key : left[k] <= Window[k]
    BY RateLimitAssumption DEF TypeOK
  <2>2. left' \in [Key -> Nat] /\ \A k \in Key : left'[k] <= Window[k]
    <3>1. left' = [left EXCEPT ![e] = Window[e]]
      BY <1>2
    <3>2. Window[e] \in Nat
      BY <2>1
    <3>3. left' \in [Key -> Nat]
      BY <2>1, <3>1, <3>2
    <3>4. ASSUME NEW k \in Key PROVE left'[k] <= Window[k]
      BY <2>1, <3>1
    <3> QED
      BY <3>3, <3>4
  <2>3. count' = count /\ life' = life /\ orphan' = orphan
    BY <1>2
  <2> QED
    BY <2>2, <2>3 DEF TypeOK
<1>3. CASE Remove({e}) /\ UNCHANGED left
  <2>1. \A k \in Key : Many(k) \in Nat
    BY RateLimitAssumption DEF Many
  <2> QED
    BY <1>3, <2>1, RemoveEffect DEF TypeOK
<1> QED
  BY <1>1, <1>2, <1>3 DEF SetExpiry

\* What Incr makes of its handler.
LEMMA IncrEffect ==
  ASSUME TypeOK, NEW h \in Handler, Incr(h)
  PROVE  /\ At(h, "incr") /\ KeyOf(h) \in Key
         /\ call' \in [Handler -> Request]
         /\ call'[h].key = KeyOf(h) /\ call'[h].count = Successor(KeyOf(h))
         /\ call'[h].life = life[KeyOf(h)]
         /\ call'[h].pc \in {"expire", "ttl"}
         /\ \A g \in Handler : g # h => call'[g] = call[g]
<1> DEFINE k == KeyOf(h)
           r == [call[h] EXCEPT !.count = Successor(k), !.life = life[k],
                                !.pc = IF SetsExpiry(k, Successor(k))
                                       THEN "expire" ELSE "ttl"]
<1>1. call[h] \in Request /\ k \in Key /\ life[k] \in Lives
  BY DEF TypeOK, KeyOf, Request
<1>2. Successor(k) \in Nat
  BY <1>1, SuccessorBounds
<1>3. /\ r \in Request /\ r.key = k /\ r.count = Successor(k)
      /\ r.life = life[k] /\ r.pc \in {"expire", "ttl"}
  BY <1>1, <1>2 DEF Request, KeyOf
<1>4. Become(h, r) /\ At(h, "incr")
  BY DEF Incr
<1> HIDE DEF r, k
<1> QED
  BY <1>1, <1>3, <1>4, OneMoves DEF k

\* A step to "ttl" changes nothing else of a request.
LEMMA ExpireEffect ==
  ASSUME TypeOK, NEW h \in Handler, Expire(h)
  PROVE  /\ At(h, "expire") /\ KeyOf(h) \in Key /\ SetExpiry(KeyOf(h))
         /\ call' \in [Handler -> Request]
         /\ call'[h].key = KeyOf(h) /\ call'[h].count = call[h].count
         /\ call'[h].life = call[h].life /\ call'[h].pc = "ttl"
         /\ \A g \in Handler : g # h => call'[g] = call[g]
<1> DEFINE r == [call[h] EXCEPT !.pc = "ttl"]
<1>1. call[h] \in Request
  BY DEF TypeOK
<1>2. /\ r \in Request /\ r.key = KeyOf(h) /\ r.count = call[h].count
      /\ r.life = call[h].life /\ r.pc = "ttl"
  BY <1>1 DEF Request, KeyOf
<1>3. Become(h, r) /\ At(h, "expire") /\ SetExpiry(KeyOf(h))
  BY DEF Expire
<1>4. KeyOf(h) \in Key
  BY <1>1 DEF Request, KeyOf
<1> HIDE DEF r
<1> QED
  BY <1>2, <1>3, <1>4, OneMoves

\* A handler that has answered, or whose request just came in, has no count.
LEMMA NotCounted ==
  ASSUME TypeOK, NEW h \in Handler, NEW k \in Key,
         \/ Become(h, Idle(k))
         \/ Become(h, [Idle(k) EXCEPT !.pc = "incr"])
  PROVE  /\ call' \in [Handler -> Request]
         /\ call'[h].key = k /\ call'[h].life = 0
         /\ call'[h].pc \in {"idle", "incr"}
         /\ \A g \in Handler : g # h => call'[g] = call[g]
<1>1. 0 \in Lives
  BY RateLimitAssumption DEF Lives
<1>2. Idle(k) \in Request /\ [Idle(k) EXCEPT !.pc = "incr"] \in Request
  BY <1>1 DEF Idle, Request
<1> QED
  BY <1>2, OneMoves DEF Idle

-----------------------------------------------------------------------------
\* Every step keeps the types, and no counter gets more time than its window.
LEMMA NextType == TypeOK /\ [Next]_vars => TypeOK'
<1> SUFFICES ASSUME TypeOK, [Next]_vars PROVE TypeOK'
  OBVIOUS
<1>1. CASE UNCHANGED vars
  BY <1>1 DEF vars, TypeOK
<1>2. ASSUME NEW h \in Handler, NEW k \in Key, Arrive(h, k) PROVE TypeOK'
  BY <1>2, NotCounted DEF TypeOK, Arrive
<1>3. ASSUME NEW h \in Handler PROVE KeyOf(h) \in Key /\ call[h].life \in Lives
  BY DEF TypeOK, KeyOf, Request
<1>4. ASSUME NEW h \in Handler,
             count' = [count EXCEPT ![KeyOf(h)] = Successor(KeyOf(h))]
      PROVE  count' \in [Key -> Nat] /\ \A k \in Key : count'[k] <= Many(k)
  BY <1>3, <1>4, SuccessorBounds DEF TypeOK
<1>5. ASSUME NEW h \in Handler, Incr(h) PROVE TypeOK'
  BY <1>4, <1>5, IncrEffect DEF TypeOK, Incr
<1>6. ASSUME NEW h \in Handler, IncrResent(h) PROVE TypeOK'
  BY <1>3, <1>4, <1>6 DEF TypeOK, IncrResent
<1>7. ASSUME NEW h \in Handler, Expire(h) PROVE TypeOK'
  BY <1>3, <1>7, ExpireEffect, SetExpiryEffect DEF TypeOK, Expire
<1>8. ASSUME NEW h \in Handler, ExpireResent(h) PROVE TypeOK'
  BY <1>3, <1>8, SetExpiryEffect DEF TypeOK, ExpireResent
<1>9. ASSUME NEW h \in Handler, Verdict(h) PROVE TypeOK'
  <2>1. admitted' \in [Key \X Lives -> Nat]
    BY <1>3, <1>9 DEF TypeOK, Verdict
  <2>2. call' \in [Handler -> Request]
    BY <1>3, <1>9, NotCounted DEF Verdict
  <2> QED
    BY <1>9, <2>1, <2>2 DEF TypeOK, Verdict
<1>10. ASSUME NEW h \in Handler, Abort(h) PROVE TypeOK'
  BY <1>3, <1>10, NotCounted DEF TypeOK, Abort
<1>11. CASE Tick
  <2> DEFINE K == {k \in Key : left[k] = 1}
  <2>1. Remove(K) /\ left' = [k \in Key |-> IF left[k] > 0 THEN left[k] - 1 ELSE 0]
    BY <1>11 DEF Tick
  <2>2. \A k \in Key : count'[k] = 0 \/ count'[k] = count[k]
    BY <2>1, RemoveEffect
  <2>3. \A k \in Key : count'[k] <= Many(k)
    BY <2>2, RateLimitAssumption DEF TypeOK, Many
  <2>4. left' \in [Key -> Nat] /\ \A k \in Key : left'[k] <= Window[k]
    BY <2>1, RateLimitAssumption DEF TypeOK
  <2>5. /\ count' \in [Key -> Nat] /\ life' \in [Key -> Lives]
        /\ orphan' \subseteq Key
    BY <2>1, RemoveEffect
  <2> QED
    BY <1>11, <2>3, <2>4, <2>5 DEF TypeOK, Tick
<1> QED
  BY <1>1, <1>2, <1>5, <1>6, <1>7, <1>8, <1>9, <1>10, <1>11 DEF Next, Serve

\* A life number never goes back, and a counter is only ever made smaller by
\* the end of a life.
LEMMA NextClock ==
  ASSUME TypeOK, [Next]_vars
  PROVE  \A k \in Key : \/ life'[k] = life[k] /\ count'[k] >= count[k]
                        \/ life'[k] = life[k] + 1
<1>1. ASSUME NEW h \in Handler PROVE KeyOf(h) \in Key
  BY DEF TypeOK, KeyOf, Request
<1> DEFINE Clock == \A k \in Key : \/ life'[k] = life[k] /\ count'[k] >= count[k]
                                   \/ life'[k] = life[k] + 1
<1> SUFFICES Clock
  OBVIOUS
<1>2. ASSUME UNCHANGED <<count, life>> PROVE Clock
  BY <1>2 DEF TypeOK
<1>3. ASSUME NEW h \in Handler, UNCHANGED life,
             count' = [count EXCEPT ![KeyOf(h)] = Successor(KeyOf(h))]
      PROVE  Clock
  BY <1>1, <1>3, SuccessorBounds DEF TypeOK
<1>4. ASSUME NEW h \in Handler, SetExpiry(KeyOf(h)) PROVE Clock
  BY <1>1, <1>4, SetExpiryEffect DEF TypeOK
<1>5. CASE Tick
  BY <1>5, RemoveEffect DEF TypeOK, Tick
<1> HIDE DEF Clock
<1>6. ASSUME NEW h \in Handler, NEW k \in Key, Arrive(h, k) PROVE Clock
  BY <1>2, <1>6 DEF Arrive
<1>7. ASSUME NEW h \in Handler, Incr(h) \/ IncrResent(h) PROVE Clock
  BY <1>3, <1>7 DEF Incr, IncrResent
<1>8. ASSUME NEW h \in Handler, Expire(h) \/ ExpireResent(h) PROVE Clock
  BY <1>4, <1>8 DEF Expire, ExpireResent
<1>9. ASSUME NEW h \in Handler, Verdict(h) \/ Abort(h) PROVE Clock
  BY <1>2, <1>9 DEF Verdict, Abort
<1>10. CASE UNCHANGED vars
  BY <1>2, <1>10 DEF vars
<1> QED
  BY <1>5, <1>6, <1>7, <1>8, <1>9, <1>10 DEF Next, Serve

-----------------------------------------------------------------------------
\* Passing(k, n), one handler at a time.
LEMMA PassingMember ==
  ASSUME NEW k, NEW n, NEW h
  PROVE  h \in Passing(k, n) <=>
           /\ h \in Handler
           /\ call[h].pc \in {"expire", "ttl"}
           /\ call[h].key = k /\ call[h].life = n /\ call[h].count <= Limit[k]
  BY DEF Passing, At, KeyOf

\* When no request joins those that will pass, and none is let through, no more
\* have passed or will.
LEMMA NoneJoins ==
  ASSUME IInv, NEW k \in Key, NEW n \in Lives,
         Passing(k, n)' \subseteq Passing(k, n),
         admitted'[<<k, n>>] = admitted[<<k, n>>]
  PROVE  IsFiniteSet(Passing(k, n)') /\ Passed(k, n)' <= Passed(k, n)
<1>1. IsFiniteSet(Passing(k, n))
  BY DEF IInv, Counted
<1>2. /\ IsFiniteSet(Passing(k, n)')
      /\ Cardinality(Passing(k, n)') <= Cardinality(Passing(k, n))
      /\ Cardinality(Passing(k, n)) \in Nat /\ Cardinality(Passing(k, n)') \in Nat
  BY <1>1, FS_Subset, FS_CardinalityType
<1>3. admitted[<<k, n>>] \in Nat
  BY DEF IInv, TypeOK
<1> QED
  BY <1>2, <1>3 DEF Passed

\* Nothing has passed, or will, in a life that has not begun.
LEMMA NothingYet ==
  ASSUME IInv, NEW k \in Key, NEW n \in Lives, n > life[k]
  PROVE  Passed(k, n) = 0
<1>1. \A h \in Handler : ~At(h, "idle") => call[h].life <= life[KeyOf(h)]
  BY DEF IInv, NoFuture
<1>2. \A h \in Handler : KeyOf(h) = k /\ ~At(h, "idle") => call[h].life # n
  <2>1. life[k] \in Nat /\ n \in Nat
    BY DEF IInv, TypeOK, Lives
  <2>2. \A h \in Handler : call[h].life \in Nat
    BY DEF IInv, TypeOK, Request, Lives
  <2> QED
    BY <1>1, <2>1, <2>2
<1>3. Passing(k, n) = {}
  BY <1>2 DEF Passing, At
<1>4. admitted[<<k, n>>] = 0
  BY DEF IInv, NoFuture
<1> QED
  BY <1>3, <1>4, FS_EmptySet DEF Passed

\* When nowhere more have passed or will, the count goes on bounding them: a
\* counter only gets smaller when a life begins, and then nothing has passed.
LEMMA NobodyCounted ==
  ASSUME IInv, TypeOK',
         \A k \in Key : \/ life'[k] = life[k] /\ count'[k] >= count[k]
                        \/ life'[k] = life[k] + 1,
         \A k \in Key, n \in Lives :
           IsFiniteSet(Passing(k, n)') /\ Passed(k, n)' <= Passed(k, n)
  PROVE  Counted'
<1> SUFFICES ASSUME NEW k \in Key, NEW n \in Lives
             PROVE  /\ IsFiniteSet(Passing(k, n)')
                    /\ Passed(k, n)' <= Limit[k]
                    /\ n = life'[k] => Passed(k, n)' <= count'[k]
  BY DEF Counted
<1>1. /\ IsFiniteSet(Passing(k, n)') /\ IsFiniteSet(Passing(k, n))
      /\ Passed(k, n)' <= Passed(k, n)
      /\ Passed(k, n) <= Limit[k]
      /\ n = life[k] => Passed(k, n) <= count[k]
  BY DEF IInv, Counted
<1>2. Passed(k, n) \in Nat /\ Passed(k, n)' \in Nat
  BY <1>1, FS_CardinalityType DEF IInv, TypeOK, Passed
<1>3. /\ Limit[k] \in Nat /\ count[k] \in Nat /\ count'[k] \in Nat
      /\ life[k] \in Nat /\ life'[k] \in Nat
  BY RateLimitAssumption DEF IInv, TypeOK, Lives
<1>4. ASSUME n = life'[k] PROVE Passed(k, n)' <= count'[k]
  <2>1. CASE life'[k] = life[k] /\ count'[k] >= count[k]
    BY <1>1, <1>2, <1>3, <1>4, <2>1
  <2>2. CASE life'[k] = life[k] + 1
    <3>1. Passed(k, n) = 0
      BY <1>3, <1>4, <2>2, NothingYet
    <3> QED
      BY <1>1, <1>2, <1>3, <3>1
  <2> QED
    BY <2>1, <2>2
<1>5. Passed(k, n)' <= Limit[k]
  BY <1>1, <1>2, <1>3
<1> QED
  BY <1>1, <1>4, <1>5

-----------------------------------------------------------------------------
\* Every INCR whose answer is within the limit adds a request that will pass, and
\* one to the counter.
LEMMA IncrCounts ==
  ASSUME IInv, NEW h \in Handler, Incr(h)
  PROVE  Counted'
<1> DEFINE e == KeyOf(h)
<1>1. TypeOK
  BY DEF IInv
<1>2. /\ At(h, "incr") /\ e \in Key
      /\ call' \in [Handler -> Request]
      /\ call'[h].key = e /\ call'[h].count = Successor(e)
      /\ call'[h].life = life[e]
      /\ call'[h].pc \in {"expire", "ttl"}
      /\ \A g \in Handler : g # h => call'[g] = call[g]
  BY <1>1, IncrEffect
<1>3. /\ count' = [count EXCEPT ![e] = Successor(e)]
      /\ UNCHANGED <<life, admitted>>
  BY DEF Incr
<1>4. /\ Successor(e) \in Nat
      /\ count[e] <= Successor(e)
      /\ Successor(e) <= Limit[e] => Successor(e) = count[e] + 1
  BY <1>1, <1>2, SuccessorBounds
<1> HIDE DEF e
<1> SUFFICES ASSUME NEW k \in Key, NEW n \in Lives
             PROVE  /\ IsFiniteSet(Passing(k, n)')
                    /\ Passed(k, n)' <= Limit[k]
                    /\ n = life'[k] => Passed(k, n)' <= count'[k]
  BY DEF Counted
<1>5. /\ IsFiniteSet(Passing(k, n))
      /\ Passed(k, n) <= Limit[k]
      /\ n = life[k] => Passed(k, n) <= count[k]
  BY DEF IInv, Counted
<1>6. /\ Limit[k] \in Nat /\ count[k] \in Nat /\ Limit[e] \in Nat
      /\ admitted[<<k, n>>] \in Nat
  BY <1>1, <1>2, RateLimitAssumption DEF TypeOK
<1>7. /\ Cardinality(Passing(k, n)) \in Nat
      /\ Passed(k, n) = admitted[<<k, n>>] + Cardinality(Passing(k, n))
      /\ Passed(k, n)' = admitted[<<k, n>>] + Cardinality(Passing(k, n)')
  BY <1>3, <1>5, FS_CardinalityType DEF Passed
<1>8. count'[k] = IF k = e THEN Successor(e) ELSE count[k]
  BY <1>1, <1>2, <1>3 DEF TypeOK
<1>9. h \notin Passing(k, n)
  BY <1>2, PassingMember DEF At
<1>10. \A g : g # h => (g \in Passing(k, n)' <=> g \in Passing(k, n))
  <2>1. ASSUME NEW g, g # h PROVE g \in Passing(k, n)' <=> g \in Passing(k, n)
    BY <1>2, <2>1 DEF Passing, At, KeyOf
  <2> QED
    BY <2>1
<1>11. h \in Passing(k, n)' <=> k = e /\ n = life[e] /\ Successor(e) <= Limit[e]
  BY <1>2 DEF Passing, At, KeyOf
<1>12. CASE k = e /\ n = life[e] /\ Successor(e) <= Limit[e]
  <2>1. Passing(k, n)' = Passing(k, n) \cup {h}
    BY <1>10, <1>11, <1>12
  <2>2. /\ IsFiniteSet(Passing(k, n)')
        /\ Cardinality(Passing(k, n)') = Cardinality(Passing(k, n)) + 1
    BY <1>5, <1>9, <2>1, FS_AddElement
  <2>3. Passed(k, n)' = Passed(k, n) + 1 /\ Passed(k, n) \in Nat
    BY <1>6, <1>7, <2>2
  <2>4. Passed(k, n)' <= count[e] + 1
    BY <1>5, <1>6, <1>12, <2>3
  <2>5. Successor(e) = count[e] + 1
    BY <1>4, <1>12
  <2> QED
    BY <1>4, <1>6, <1>8, <1>12, <2>2, <2>3, <2>4, <2>5
<1>13. CASE ~(k = e /\ n = life[e] /\ Successor(e) <= Limit[e])
  <2>1. Passing(k, n)' \subseteq Passing(k, n)
    BY <1>10, <1>11, <1>13
  <2>2. IsFiniteSet(Passing(k, n)') /\ Passed(k, n)' <= Passed(k, n)
    BY <1>3, <2>1, NoneJoins
  <2>3. Passed(k, n) \in Nat /\ Passed(k, n)' \in Nat
    BY <1>6, <1>7, <2>2, FS_CardinalityType
  <2>4. count[k] <= count'[k] /\ count'[k] \in Nat
    BY <1>4, <1>6, <1>8
  <2>5. n = life'[k] => Passed(k, n)' <= count'[k]
    BY <1>3, <1>5, <1>6, <2>2, <2>3, <2>4
  <2>6. Passed(k, n)' <= Limit[k]
    BY <1>5, <1>6, <2>2, <2>3
  <2> QED
    BY <2>2, <2>5, <2>6
<1> QED
  BY <1>12, <1>13

\* A verdict takes its request out of those that will pass and, when it was one of
\* them, adds it to those that have.
LEMMA VerdictCounts ==
  ASSUME IInv, NEW h \in Handler, Verdict(h), NEW k \in Key, NEW n \in Lives
  PROVE  IsFiniteSet(Passing(k, n)') /\ Passed(k, n)' <= Passed(k, n)
<1> DEFINE e == KeyOf(h)
           passes == e = k /\ call[h].life = n /\ call[h].count <= Limit[e]
<1>1. TypeOK /\ IsFiniteSet(Passing(k, n))
  BY DEF IInv, Counted
<1>2. call[h] \in Request /\ e \in Key
  BY <1>1 DEF TypeOK, KeyOf, Request
<1>3. /\ At(h, "ttl")
      /\ call'[h].pc \in {"idle", "incr"}
      /\ \A g \in Handler : g # h => call'[g] = call[g]
  BY <1>1, <1>2, NotCounted DEF Verdict
<1>4. Passing(k, n)' = Passing(k, n) \ {h}
  <2>1. ASSUME NEW g, g # h PROVE g \in Passing(k, n)' <=> g \in Passing(k, n)
    BY <1>3, <2>1 DEF Passing, At, KeyOf
  <2>2. h \notin Passing(k, n)'
    BY <1>3 DEF Passing, At
  <2> QED
    BY <2>1, <2>2
<1>5. h \in Passing(k, n) <=> passes
  BY <1>3 DEF Passing, At, KeyOf
<1>6. admitted[<<k, n>>] \in Nat
  BY <1>1 DEF TypeOK
<1>7. CASE passes
  <2>1. /\ IsFiniteSet(Passing(k, n)') /\ Cardinality(Passing(k, n)) \in Nat
        /\ Cardinality(Passing(k, n)') = Cardinality(Passing(k, n)) - 1
    BY <1>1, <1>4, <1>5, <1>7, FS_RemoveElement, FS_CardinalityType
  <2>2. admitted' = [admitted EXCEPT ![<<k, n>>] = @ + 1]
    BY <1>7 DEF Verdict, Allowed
  <2>3. admitted'[<<k, n>>] = admitted[<<k, n>>] + 1
    BY <1>1, <2>2 DEF TypeOK
  <2> QED
    BY <1>6, <2>1, <2>3 DEF Passed
<1>8. CASE ~passes
  <2>1. admitted'[<<k, n>>] = admitted[<<k, n>>]
    <3>1. CASE ~Allowed(e, call[h].count)
      BY <3>1 DEF Verdict
    <3>2. CASE Allowed(e, call[h].count)
      <4>1. <<e, call[h].life>> # <<k, n>>
        BY <1>8, <3>2 DEF Allowed
      <4>2. admitted' = [admitted EXCEPT ![<<e, call[h].life>>] = @ + 1]
        BY <3>2 DEF Verdict
      <4> QED
        BY <1>1, <4>1, <4>2 DEF TypeOK
    <3> QED
      BY <3>1, <3>2
  <2> QED
    BY <1>4, <2>1, NoneJoins
<1> QED
  BY <1>7, <1>8

\* The steps of the limiter keep the count.
LEMMA NextCounted == IInv /\ [Next]_vars => Counted'
<1> SUFFICES ASSUME IInv, [Next]_vars PROVE Counted'
  OBVIOUS
<1>1. TypeOK /\ TypeOK'
  BY NextType DEF IInv
<1>2. \A k \in Key : \/ life'[k] = life[k] /\ count'[k] >= count[k]
                     \/ life'[k] = life[k] + 1
  BY <1>1, NextClock
<1> DEFINE Fewer == \A k \in Key, n \in Lives :
             IsFiniteSet(Passing(k, n)') /\ Passed(k, n)' <= Passed(k, n)
<1>3. ASSUME Fewer PROVE Counted'
  BY <1>1, <1>2, <1>3, NobodyCounted
<1>4. ASSUME UNCHANGED admitted,
             \A k \in Key, n \in Lives : Passing(k, n)' \subseteq Passing(k, n)
      PROVE  Fewer
  BY <1>4, NoneJoins
<1> HIDE DEF Fewer
<1>5. ASSUME NEW h \in Handler PROVE KeyOf(h) \in Key
  BY <1>1 DEF TypeOK, KeyOf, Request
<1>6. ASSUME UNCHANGED <<call, admitted>> PROVE Fewer
  BY <1>4, <1>6 DEF Passing, At, KeyOf
<1>7. ASSUME NEW h \in Handler, NEW k \in Key, UNCHANGED admitted,
             \/ Become(h, Idle(k))
             \/ Become(h, [Idle(k) EXCEPT !.pc = "incr"])
      PROVE  Fewer
  <2>1. /\ call'[h].pc \in {"idle", "incr"}
        /\ \A g \in Handler : g # h => call'[g] = call[g]
    BY <1>1, <1>7, NotCounted
  <2> QED
    BY <1>4, <1>7, <2>1 DEF Passing, At, KeyOf
<1>8. ASSUME NEW h \in Handler, NEW k \in Key, Arrive(h, k) PROVE Counted'
  BY <1>3, <1>7, <1>8 DEF Arrive
<1>9. ASSUME NEW h \in Handler, Incr(h) PROVE Counted'
  BY <1>9, IncrCounts
<1>10. ASSUME NEW h \in Handler, IncrResent(h) PROVE Counted'
  BY <1>3, <1>6, <1>10 DEF IncrResent
<1>11. ASSUME NEW h \in Handler, Expire(h) PROVE Counted'
  <2>1. /\ At(h, "expire") /\ call'[h].key = KeyOf(h)
        /\ call'[h].count = call[h].count /\ call'[h].life = call[h].life
        /\ \A g \in Handler : g # h => call'[g] = call[g]
    BY <1>1, <1>11, ExpireEffect
  <2>2. \A k \in Key, n \in Lives : Passing(k, n)' \subseteq Passing(k, n)
    BY <2>1 DEF Passing, At, KeyOf
  <2> QED
    BY <1>3, <1>4, <1>11, <2>2 DEF Expire
<1>12. ASSUME NEW h \in Handler, ExpireResent(h) PROVE Counted'
  BY <1>3, <1>6, <1>12 DEF ExpireResent
<1>13. ASSUME NEW h \in Handler, Verdict(h) PROVE Counted'
  BY <1>3, <1>13, VerdictCounts DEF Fewer
<1>14. ASSUME NEW h \in Handler, Abort(h) PROVE Counted'
  BY <1>3, <1>5, <1>7, <1>14 DEF Abort
<1>15. CASE Tick
  BY <1>3, <1>6, <1>15 DEF Tick
<1>16. CASE UNCHANGED vars
  BY <1>3, <1>6, <1>16 DEF vars
<1> QED
  BY <1>8, <1>9, <1>10, <1>11, <1>12, <1>13, <1>14, <1>15, <1>16 DEF Next, Serve

\* No request is counted, and none let through, in a life before it has begun.
LEMMA NextNoFuture == IInv /\ [Next]_vars => NoFuture'
<1> SUFFICES ASSUME IInv, [Next]_vars PROVE NoFuture'
  OBVIOUS
<1>1. TypeOK /\ TypeOK' /\ NoFuture
  BY NextType DEF IInv
<1>2. /\ \A k \in Key : /\ life[k] \in Nat /\ life'[k] \in Nat
                        /\ life'[k] = life[k] \/ life'[k] = life[k] + 1
      /\ \A n \in Lives : n \in Nat
  BY <1>1, NextClock DEF TypeOK, Lives
<1>3. \A h \in Handler : /\ KeyOf(h) \in Key /\ KeyOf(h)' \in Key
                         /\ call[h].life \in Lives /\ call'[h].life \in Lives
  BY <1>1 DEF TypeOK, KeyOf, Request
<1> DEFINE Kept(h) == call'[h].key = call[h].key /\ call'[h].life = call[h].life
                      /\ call[h].pc # "idle"
           Fresh(h) == call'[h].life = 0
           Now(h) == call'[h].life = life[call'[h].key]
           Some(h) == call'[h] = call[h] \/ Kept(h) \/ Fresh(h) \/ Now(h)
           Calls == \A h \in Handler : Some(h)
<1>4. ASSUME Calls
      PROVE  \A h \in Handler : ~At(h, "idle")' => call'[h].life <= life'[KeyOf(h)']
  <2> SUFFICES ASSUME NEW h \in Handler, call'[h].pc # "idle"
               PROVE  call'[h].life <= life'[call'[h].key]
    BY DEF At, KeyOf
  <2>1. call'[h].key \in Key /\ call'[h].life \in Nat
    BY <1>2, <1>3 DEF KeyOf
  <2>2. CASE call'[h] = call[h] \/ Kept(h)
    <3>1. call[h].pc # "idle" /\ call[h].life <= life[call[h].key]
      BY <1>1, <2>2 DEF NoFuture, At, KeyOf
    <3>2. call[h].life = call'[h].life /\ call[h].key = call'[h].key
      BY <2>2
    <3> QED
      BY <1>2, <2>1, <3>1, <3>2
  <2>3. CASE Fresh(h)
    BY <1>2, <2>1, <2>3
  <2>4. CASE Now(h)
    BY <1>2, <2>1, <2>4
  <2> QED
    BY <1>4, <2>2, <2>3, <2>4
<1>5. ASSUME UNCHANGED admitted
      PROVE  \A k \in Key, n \in Lives : n > life'[k] => admitted'[<<k, n>>] = 0
  BY <1>1, <1>2, <1>5 DEF NoFuture
<1>6. ASSUME Calls, UNCHANGED admitted PROVE NoFuture'
  BY <1>4, <1>5, <1>6 DEF NoFuture
<1>7. ASSUME UNCHANGED call PROVE Calls
  BY <1>7
<1>8. ASSUME NEW h \in Handler, NEW k \in Key,
             \/ Become(h, Idle(k))
             \/ Become(h, [Idle(k) EXCEPT !.pc = "incr"])
      PROVE  Calls
  BY <1>1, <1>8, NotCounted
<1>9. ASSUME NEW h \in Handler, Incr(h) PROVE Calls
  BY <1>1, <1>9, IncrEffect
<1>10. ASSUME NEW h \in Handler, Expire(h) PROVE Calls
  BY <1>1, <1>10, ExpireEffect DEF At, KeyOf
<1> HIDE DEF Calls
<1>11. ASSUME NEW h \in Handler, NEW k \in Key, Arrive(h, k) PROVE NoFuture'
  BY <1>6, <1>8, <1>11 DEF Arrive
<1>12. ASSUME NEW h \in Handler, Incr(h) PROVE NoFuture'
  BY <1>6, <1>9, <1>12 DEF Incr
<1>13. ASSUME NEW h \in Handler, Expire(h) PROVE NoFuture'
  BY <1>6, <1>10, <1>13 DEF Expire
<1>14. ASSUME NEW h \in Handler, IncrResent(h) \/ ExpireResent(h) PROVE NoFuture'
  BY <1>6, <1>7, <1>14 DEF IncrResent, ExpireResent
<1>15. ASSUME NEW h \in Handler, Abort(h) PROVE NoFuture'
  BY <1>3, <1>6, <1>8, <1>15 DEF Abort
<1>16. ASSUME NEW h \in Handler, Verdict(h) PROVE NoFuture'
  <2> DEFINE e == KeyOf(h)
             n0 == call[h].life
  <2>1. Calls
    BY <1>3, <1>8, <1>16 DEF Verdict
  <2>2. n0 <= life[e] /\ UNCHANGED life
    BY <1>1, <1>16 DEF Verdict, NoFuture, At
  <2>3. ASSUME NEW k \in Key, NEW n \in Lives, n > life[k]
        PROVE  admitted'[<<k, n>>] = 0
    <3>1. <<k, n>> # <<e, n0>>
      BY <1>2, <1>3, <2>2, <2>3
    <3>2. admitted'[<<k, n>>] = admitted[<<k, n>>]
      BY <1>1, <1>16, <3>1 DEF Verdict, TypeOK
    <3> QED
      BY <1>1, <2>3, <3>2 DEF NoFuture
  <2> QED
    BY <1>4, <2>1, <2>2, <2>3 DEF NoFuture
<1>17. CASE Tick
  BY <1>6, <1>7, <1>17 DEF Tick
<1>18. CASE UNCHANGED vars
  BY <1>6, <1>7, <1>18 DEF vars
<1> QED
  BY <1>11, <1>12, <1>13, <1>14, <1>15, <1>16, <1>17, <1>18 DEF Next, Serve

\* Every script call, tick and expiry keeps the counts right.
LEMMA Inductive == IInv /\ [Next]_vars => IInv'
  BY NextType, NextNoFuture, NextCounted DEF IInv

\* Nothing is counted before the first request.
LEMMA Initial == Init => IInv
<1> SUFFICES ASSUME Init PROVE IInv
  OBVIOUS
<1>1. 0 \in Lives
  BY RateLimitAssumption DEF Lives
<1>2. \A k \in Key : Many(k) \in Nat /\ Window[k] \in Nat /\ Limit[k] \in Nat
  BY RateLimitAssumption DEF Many
<1>3. \A k \in Key : Idle(k) \in Request /\ Idle(k).pc = "idle"
  BY <1>1 DEF Idle, Request
<1>4. \A h \in Handler : call[h] \in Request /\ At(h, "idle")
  BY <1>3 DEF Init, At
<1>5. call \in [Handler -> Request]
  BY <1>3 DEF Init
<1>6. TypeOK
  BY <1>1, <1>2, <1>5 DEF Init, TypeOK
<1>7. NoFuture
  BY <1>4 DEF Init, NoFuture
<1>8. ASSUME NEW k \in Key, NEW n \in Lives
      PROVE  IsFiniteSet(Passing(k, n)) /\ Passed(k, n) = 0
  <2>1. Passing(k, n) = {}
    BY <1>4 DEF Passing, At
  <2>2. admitted[<<k, n>>] = 0
    BY DEF Init
  <2> QED
    BY <2>1, <2>2, FS_EmptySet DEF Passed
<1>9. Counted
  BY <1>2, <1>6, <1>8 DEF Counted, TypeOK
<1> QED
  BY <1>6, <1>7, <1>9 DEF IInv

-----------------------------------------------------------------------------
\* Counters and requests have the types TypeOK gives them, and no counter is ever
\* given more time than its window.
THEOREM TypeCorrect == Spec => []TypeOK
<1>1. IInv => TypeOK
  BY DEF IInv
<1> QED
  BY Initial, Inductive, <1>1, PTL DEF Spec

\* No more requests than the limit are let through within one life of a counter,
\* whichever instances count them, fail or repeat a command.
THEOREM LimitHolds == Spec => []AtMostLimit
<1>1. IInv => AtMostLimit
  <2> SUFFICES ASSUME IInv, NEW k \in Key, NEW n \in Lives
               PROVE  admitted[<<k, n>>] <= Limit[k]
    BY DEF AtMostLimit
  <2>1. IsFiniteSet(Passing(k, n)) /\ Passed(k, n) <= Limit[k]
    BY DEF IInv, Counted
  <2>2. Cardinality(Passing(k, n)) \in Nat /\ admitted[<<k, n>>] \in Nat
    BY <2>1, FS_CardinalityType DEF IInv, TypeOK
  <2> QED
    BY <2>1, <2>2, RateLimitAssumption DEF Passed
<1> QED
  BY Initial, Inductive, <1>1, PTL DEF Spec
=============================================================================
