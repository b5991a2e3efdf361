\* Deadlines in the proportion of the defaults: 15, 10 and 10 seconds.
CONSTANTS
  r1 = r1
  r2 = r2
  Request = {r1, r2}
  RequestTimeout = 3
  WriteTimeout = 2
  ShutdownTimeout = 2
SPECIFICATION Spec
CHECK_DEADLOCK FALSE
INVARIANT TimeoutIsTold
