--------------------------- MODULE RequestTimeout ----------------------------
(***************************************************************************)
(* How one application instance answers a request in time and how it       *)
(* stops: the Timeout middleware, the deadlines of http.Server and the     *)
(* shutdown sequence of main.                                              *)
(*                                                                         *)
(* The middleware runs the rest of the chain in a goroutine of its own     *)
(* (the worker), which writes to a buffer.  The goroutine of the           *)
(* connection waits for the worker or for the end of the context,          *)
(* whichever its select picks, and answers; the worker it no longer waits  *)
(* for goes on.  Time is counted in ticks.                                 *)
(***************************************************************************)
EXTENDS Naturals

CONSTANTS
  Request,          \* requests that may reach the instance
  RequestTimeout,   \* REQUEST_TIMEOUT_SECONDS: deadline of the context
  WriteTimeout,     \* http.Server.WriteTimeout
  ShutdownTimeout   \* SHUTDOWN_TIMEOUT_SECONDS

ASSUME TimeoutAssumption ==
  {RequestTimeout, WriteTimeout, ShutdownTimeout} \subseteq Nat \ {0}

VARIABLES
  worker,   \* request -> its goroutine below the Timeout middleware
  answer,   \* request -> what the connection's goroutine wrote
  heard,    \* request -> whether the peer got the answer
  gone,     \* request -> whether the peer closed the connection first
  age,      \* request -> ticks since its header was read
  server,   \* the instance
  drained   \* ticks since Shutdown was called

vars == <<worker, answer, heard, gone, age, server, drained>>

\* No deadline lies beyond this age.
Old == RequestTimeout + WriteTimeout

\* The types of goroutines, answers and clocks.
TypeOK ==
  /\ worker \in [Request -> {"none", "opening", "running", "done", "killed"}]
  /\ answer \in [Request -> {"none", "handler", "timeout"}]
  /\ heard \in [Request -> BOOLEAN]
  /\ gone \in [Request -> BOOLEAN]
  /\ age \in [Request -> 0..Old]
  /\ server \in {"listening", "draining", "stopped", "failed"}
  /\ drained \in 0..ShutdownTimeout

Init ==
  /\ worker = [r \in Request |-> "none"]
  /\ answer = [r \in Request |-> "none"]
  /\ heard = [r \in Request |-> FALSE]
  /\ gone = [r \in Request |-> FALSE]
  /\ age = [r \in Request |-> 0]
  /\ server = "listening"
  /\ drained = 0

-----------------------------------------------------------------------------
Up == server \in {"listening", "draining"}

\* The connection's goroutine waits in the middleware.
Waiting(r) == worker[r] \in {"running", "done"} /\ answer[r] = "none"

\* The context is over: its deadline, or its parent ended with the connection.
ContextDone(r) == age[r] >= RequestTimeout \/ gone[r]

\* A connection is opened; its request has not been read yet.
Connect(r) ==
  /\ server = "listening"
  /\ worker[r] = "none"
  /\ worker' = [worker EXCEPT ![r] = "opening"]
  /\ UNCHANGED <<answer, heard, gone, age, server, drained>>

\* The request is read, maybe after the listener was closed: the middleware
\* starts the worker and waits.
Accept(r) ==
  /\ Up
  /\ worker[r] = "opening"
  /\ worker' = [worker EXCEPT ![r] = "running"]
  /\ UNCHANGED <<answer, heard, gone, age, server, drained>>

\* The chain returns, or Recoverer turned its panic into an answer.
WorkerEnds(r) ==
  /\ Up
  /\ worker[r] = "running"
  /\ worker' = [worker EXCEPT ![r] = "done"]
  /\ UNCHANGED <<answer, heard, gone, age, server, drained>>

\* A slip: what the worker is doing is written, not what it wrote.
AnswerWithState(r, what) ==
  /\ Up
  /\ Waiting(r)
  /\ answer' = [answer EXCEPT ![r] = worker[r]]
  /\ heard' = [heard EXCEPT ![r] = age[r] < WriteTimeout /\ ~gone[r]]
  /\ UNCHANGED <<worker, gone, age, server, drained>>

\* Writes after the deadline of the connection go nowhere.
Answer(r, what) ==
  /\ Up
  /\ Waiting(r)
  /\ answer' = [answer EXCEPT ![r] = what]
  /\ heard' = [heard EXCEPT ![r] = age[r] < WriteTimeout /\ ~gone[r]]
  /\ UNCHANGED <<worker, gone, age, server, drained>>

AnswerOfHandler(r) == worker[r] = "done" /\ Answer(r, "handler")

\* A slip: the timeout is looked at only when the worker is done.
AnswerTimeoutLate(r) ==
  ContextDone(r) /\ worker[r] = "done" /\ Answer(r, "timeout")

AnswerTimeout(r) == ContextDone(r) /\ Answer(r, "timeout")

\* The peer closes the connection without waiting for the answer.
Disconnect(r) ==
  /\ Up
  /\ Waiting(r)
  /\ ~gone[r]
  /\ gone' = [gone EXCEPT ![r] = TRUE]
  /\ UNCHANGED <<worker, answer, heard, age, server, drained>>

-----------------------------------------------------------------------------
\* SIGINT or SIGTERM: the listener is closed.
Signal ==
  /\ server = "listening"
  /\ server' = "draining"
  /\ UNCHANGED <<worker, answer, heard, gone, age, drained>>

\* Shutdown closes a connection that sends no request for a while.
CloseNew(r) ==
  /\ server = "draining"
  /\ worker[r] = "opening"
  /\ worker' = [worker EXCEPT ![r] = "none"]
  /\ UNCHANGED <<answer, heard, gone, age, server, drained>>

\* The process is gone, and every goroutine with it.
Exit(state) ==
  /\ server' = state
  /\ worker' = [r \in Request |->
                  IF worker[r] = "running" THEN "killed" ELSE worker[r]]
  /\ UNCHANGED <<answer, heard, gone, age, drained>>

\* A slip: Close instead of Shutdown.
StopAtOnce == server = "draining" /\ Exit("stopped")

\* Shutdown returns once no connection is serving a request.
Stop ==
  /\ server = "draining"
  /\ \A r \in Request : ~Waiting(r) /\ worker[r] # "opening"
  /\ Exit("stopped")

\* A slip: the shutdown has no deadline.
StopNever == FALSE /\ UNCHANGED vars

\* Its deadline comes first: exit status 1.
GiveUp ==
  /\ server = "draining"
  /\ drained = ShutdownTimeout
  /\ Exit("failed")

Tick ==
  /\ Up
  /\ age' = [r \in Request |->
               IF Waiting(r) /\ age[r] < Old THEN age[r] + 1 ELSE age[r]]
  /\ drained' = IF server = "draining" /\ drained < ShutdownTimeout
                THEN drained + 1 ELSE drained
  /\ UNCHANGED <<worker, answer, heard, gone, server>>

-----------------------------------------------------------------------------
Next ==
  \/ \E r \in Request :
       \/ Connect(r) \/ Accept(r) \/ CloseNew(r)
       \/ WorkerEnds(r) \/ Disconnect(r)
       \/ AnswerOfHandler(r) \/ AnswerTimeout(r)
  \/ Signal \/ Stop \/ GiveUp \/ Tick

Spec == Init /\ [][Next]_vars

(* The clock runs and the runtime schedules the goroutine of a connection   *)
(* and main when they can go on.  Nothing is assumed of the worker: a call  *)
(* it makes may hang.                                                       *)
Fairness ==
  /\ WF_vars(Tick)
  /\ \A r \in Request : WF_vars(AnswerOfHandler(r) \/ AnswerTimeout(r))
  /\ WF_vars(Stop \/ GiveUp)

FairSpec == Spec /\ Fairness

-----------------------------------------------------------------------------
\* A clean stop leaves no accepted request without an answer, and the only
\* workers it cuts off are those whose request was told it timed out: Shutdown
\* waits for the middleware even when the middleware waits for a deadline.
CleanStop ==
  server = "stopped" =>
    \A r \in Request : /\ ~Waiting(r)
                       /\ worker[r] = "killed" => answer[r] = "timeout"

\* Every request is answered while the instance is up, even if its worker
\* hangs for ever.
EveryoneAnswered ==
  \A r \in Request : Waiting(r) ~> ~Waiting(r) \/ ~Up

\* The instance stops once it was told to, whatever its requests do.
StopsWhenTold == server = "draining" ~> ~Up

-----------------------------------------------------------------------------
(* What the code says and does not do.                                     *)

\* middleware.go:143 "request timed out": a peer that still waits when the
\* deadline passes is told so.
TimeoutIsTold ==
  \A r \in Request : answer[r] = "timeout" /\ ~gone[r] => heard[r]
=============================================================================
