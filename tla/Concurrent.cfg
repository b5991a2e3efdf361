\* Two requests at a time on one session, long enough for a token to be
\* rotated twice and the first one to be presented again.
CONSTANTS
  None = None
  u1 = u1
  User = {u1}
  s1 = s1
  Session = {s1}
  h1 = h1
  h2 = h2
  Handler = {h1, h2}
  MaxTokens = 3
  MaxLapsed = 1
  AuditEvents = {}
SPECIFICATION Spec
SYMMETRY Symmetry
INVARIANTS
  TypeOK
  RotationOrder
  RevocationComplete
PROPERTIES
  ImplementsLifecycle
