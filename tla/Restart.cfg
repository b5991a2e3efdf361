\* One request at a time, each call of which may fail, and a Redis that loses
\* its latest writes.
CONSTANTS
  None = None
  u1 = u1
  User = {u1}
  s1 = s1
  s2 = s2
  Session = {s1, s2}
  h1 = h1
  Handler = {h1}
  MaxTokens = 3
  MaxLapsed = 1
  MaxRestarts = 1
  AuditEvents = {}
SPECIFICATION RestartSpec
SYMMETRY Symmetry
INVARIANTS
  TokenOwned
  LiveIndexed
  NoFork
