\* The audit trail and the end of every request, with two requests at a time:
\* every call completes or fails.
CONSTANTS
  None = None
  u1 = u1
  User = {u1}
  s1 = s1
  Session = {s1}
  h1 = h1
  h2 = h2
  Handler = {h1, h2}
  MaxTokens = 2
  MaxLapsed = 1
  AuditEvents = {"refresh_success", "token_reuse_detected"}
SPECIFICATION FairSpec
INVARIANTS
  AuditTruthful
PROPERTIES
  RequestsEnd
