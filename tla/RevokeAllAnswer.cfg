\* A logout-all or a detected reuse runs beside a refresh.
CONSTANTS
  None = None
  u1 = u1
  User = {u1}
  s1 = s1
  Session = {s1}
  h1 = h1
  h2 = h2
  Handler = {h1, h2}
  MaxTokens = 3
  MaxLapsed = 0
  AuditEvents = {}
SPECIFICATION Spec
SYMMETRY Symmetry
INVARIANTS
  RevokeAllIsFinal
