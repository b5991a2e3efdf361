------------------------ MODULE RequestTimeoutProofs -------------------------
(***************************************************************************)
(* What a clean stop of an instance leaves behind, for any number of       *)
(* requests and any deadlines.                                             *)
(*                                                                         *)
(* The argument: an answer is written by the goroutine that waited for it, *)
(* so an answer of the handler means the worker is done; hence a worker    *)
(* that is still running when nobody waits was given up by a timeout.      *)
(***************************************************************************)
EXTENDS RequestTimeout, TLAPS

\* What an answer tells about the worker, and the worker about the instance.
AnswersFit ==
  \A r \in Request :
    /\ answer[r] = "handler" => worker[r] = "done"
    /\ answer[r] = "timeout" => worker[r] \in {"running", "done", "killed"}
    /\ worker[r] = "killed" => ~Up

\* The connections a clean stop waited for.
AllServed ==
  server = "stopped" =>
    \A r \in Request :
      \/ worker[r] = "none"
      \/ worker[r] \in {"done", "killed"} /\ answer[r] # "none"

IInv == TypeOK /\ AnswersFit /\ AllServed

-----------------------------------------------------------------------------
\* The constants are deadlines.
LEMMA Deadlines ==
  /\ RequestTimeout \in Nat /\ WriteTimeout \in Nat /\ ShutdownTimeout \in Nat
  /\ Old \in Nat
  BY TimeoutAssumption DEF Old

\* Every step keeps the types.
LEMMA NextType == TypeOK /\ [Next]_vars => TypeOK'
<1> SUFFICES ASSUME TypeOK, [Next]_vars PROVE TypeOK'
  OBVIOUS
<1>1. ASSUME NEW r \in Request,
             Connect(r) \/ Accept(r) \/ CloseNew(r) \/ WorkerEnds(r) \/ Disconnect(r)
      PROVE  TypeOK'
  BY <1>1 DEF TypeOK, Connect, Accept, CloseNew, WorkerEnds, Disconnect
<1>2. ASSUME NEW r \in Request, AnswerOfHandler(r) \/ AnswerTimeout(r)
      PROVE  TypeOK'
  <2>1. (age[r] < WriteTimeout /\ ~gone[r]) \in BOOLEAN
    OBVIOUS
  <2> QED
    BY <1>2, <2>1 DEF TypeOK, AnswerOfHandler, AnswerTimeout, Answer
<1>3. CASE Signal
  BY <1>3 DEF TypeOK, Signal
<1>4. CASE Stop \/ GiveUp
  BY <1>4 DEF TypeOK, Stop, GiveUp, Exit
<1>5. CASE Tick
  <2>1. age' \in [Request -> 0..Old]
    BY <1>5, Deadlines DEF TypeOK, Tick
  <2>2. drained' \in 0..ShutdownTimeout
    BY <1>5, Deadlines DEF TypeOK, Tick
  <2> QED
    BY <1>5, <2>1, <2>2 DEF TypeOK, Tick
<1>6. CASE UNCHANGED vars
  BY <1>6 DEF TypeOK, vars
<1> QED
  BY <1>1, <1>2, <1>3, <1>4, <1>5, <1>6 DEF Next

\* A step of one connection happens while the instance is up, and touches no
\* other.
LEMMA OneConnection ==
  ASSUME TypeOK, AnswersFit, NEW r \in Request,
         Up, UNCHANGED server,
         \A q \in Request : q # r => worker'[q] = worker[q] /\ answer'[q] = answer[q],
         answer'[r] = "handler" => worker'[r] = "done",
         answer'[r] = "timeout" => worker'[r] \in {"running", "done"},
         worker'[r] # "killed"
  PROVE  AnswersFit' /\ AllServed'
<1>1. Up' /\ server' # "stopped"
  BY DEF Up
<1>2. AnswersFit'
  BY <1>1 DEF AnswersFit
<1> QED
  BY <1>1, <1>2 DEF AllServed

\* No step of the timeout handler, a handler or the shutdown breaks the invariant.
LEMMA Inductive == IInv /\ [Next]_vars => IInv'
<1> SUFFICES ASSUME IInv, [Next]_vars PROVE AnswersFit' /\ AllServed'
  BY NextType DEF IInv
<1>1. TypeOK /\ AnswersFit
  BY DEF IInv
<1>2. ASSUME NEW r \in Request,
             Connect(r) \/ Accept(r) \/ CloseNew(r) \/ WorkerEnds(r)
      PROVE  AnswersFit' /\ AllServed'
  <2>1. /\ Up /\ UNCHANGED <<server, answer>>
        /\ worker'[r] \in {"opening", "running", "none", "done"}
        /\ \A q \in Request : q # r => worker'[q] = worker[q]
    BY <1>1, <1>2 DEF TypeOK, Up, Connect, Accept, CloseNew, WorkerEnds
  <2>2. answer[r] = "none" \/ (worker[r] = "running" /\ worker'[r] = "done")
    BY <1>1, <1>2 DEF TypeOK, AnswersFit, Connect, Accept, CloseNew, WorkerEnds
  <2> QED
    BY <1>1, <2>1, <2>2, OneConnection
<1>3. ASSUME NEW r \in Request, Disconnect(r)
      PROVE  AnswersFit' /\ AllServed'
  BY <1>1, <1>3 DEF Disconnect, AnswersFit, AllServed, Up
<1>4. ASSUME NEW r \in Request, AnswerOfHandler(r) \/ AnswerTimeout(r)
      PROVE  AnswersFit' /\ AllServed'
  <2>1. /\ Up /\ UNCHANGED <<server, worker>>
        /\ worker[r] \in {"running", "done"}
        /\ answer'[r] = "timeout" \/ (answer'[r] = "handler" /\ worker[r] = "done")
        /\ \A q \in Request : q # r => answer'[q] = answer[q]
    BY <1>1, <1>4 DEF TypeOK, AnswerOfHandler, AnswerTimeout, Answer, Waiting
  <2> QED
    BY <1>1, <2>1, OneConnection
<1>5. CASE Signal
  BY <1>1, <1>5 DEF Signal, AnswersFit, AllServed, Up
<1>6. ASSUME NEW state \in {"stopped", "failed"}, Exit(state), Up PROVE AnswersFit'
  <2>1. ~Up'
    BY <1>6 DEF Exit, Up
  <2>2. ASSUME NEW r \in Request
        PROVE  /\ answer'[r] = answer[r]
               /\ worker'[r] = IF worker[r] = "running" THEN "killed" ELSE worker[r]
    BY <1>6 DEF Exit
  <2> QED
    BY <1>1, <2>1, <2>2 DEF AnswersFit
<1>7. CASE Stop
  <2>1. server = "draining" /\ Exit("stopped")
        /\ \A r \in Request : ~Waiting(r) /\ worker[r] # "opening"
    BY <1>7 DEF Stop
  <2>2. ASSUME NEW r \in Request
        PROVE  \/ worker'[r] = "none"
               \/ worker'[r] \in {"done", "killed"} /\ answer'[r] # "none"
    <3>1. /\ answer'[r] = answer[r]
          /\ worker'[r] = IF worker[r] = "running" THEN "killed" ELSE worker[r]
      BY <2>1 DEF Exit
    <3>2. worker[r] \in {"none", "running", "done"}
      BY <1>1, <2>1 DEF TypeOK, AnswersFit, Up
    <3> QED
      BY <2>1, <3>1, <3>2 DEF Waiting
  <2> QED
    BY <1>6, <2>1, <2>2 DEF AllServed, Up
<1>8. CASE GiveUp
  BY <1>6, <1>8 DEF GiveUp, Exit, AllServed, Up
<1>9. CASE Tick
  BY <1>1, <1>9 DEF Tick, AnswersFit, AllServed, Up
<1>10. CASE UNCHANGED vars
  BY <1>10 DEF IInv, vars, AnswersFit, AllServed, Up
<1> QED
  BY <1>2, <1>3, <1>4, <1>5, <1>7, <1>8, <1>9, <1>10 DEF Next

\* The server starts without requests.
LEMMA Initial == Init => IInv
  BY Deadlines DEF Init, IInv, TypeOK, AnswersFit, AllServed

-----------------------------------------------------------------------------
\* Goroutines, answers and clocks have the types TypeOK gives them.
THEOREM TypeCorrect == Spec => []TypeOK
<1>1. IInv => TypeOK
  BY DEF IInv
<1> QED
  BY Initial, Inductive, <1>1, PTL DEF Spec

\* A clean stop leaves nobody waiting, and cuts off no worker but of requests
\* that were told they timed out.
THEOREM StopIsClean == Spec => []CleanStop
<1>1. IInv => CleanStop
  BY DEF IInv, TypeOK, AnswersFit, AllServed, CleanStop, Waiting
<1> QED
  BY Initial, Inductive, <1>1, PTL DEF Spec
=============================================================================
