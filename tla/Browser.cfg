\* One browser with two requests at a time and two logins.
CONSTANTS
  None = None
  u1 = u1
  User = {u1}
  s1 = s1
  s2 = s2
  Session = {s1, s2}
  h1 = h1
  h2 = h2
  Handler = {h1, h2}
  MaxTokens = 2
  MaxLapsed = 1
  AuditEvents = {}
SPECIFICATION BrowserSpec
SYMMETRY Symmetry
INVARIANTS
  NoFalseAlarm
  StoragesAgree
  
