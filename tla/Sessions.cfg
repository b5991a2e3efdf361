\* Two requests at a time, two users, two sessions, every token may expire.
CONSTANTS
  None = None
  u1 = u1
  u2 = u2
  User = {u1, u2}
  s1 = s1
  s2 = s2
  Session = {s1, s2}
  h1 = h1
  h2 = h2
  Handler = {h1, h2}
  MaxTokens = 2
  MaxLapsed = 2
  AuditEvents = {}
SPECIFICATION Spec
SYMMETRY Symmetry
INVARIANTS
  TokenOwned
  TokensIndexed
  RevocationComplete
PROPERTIES
  OwnRecordsOnly
