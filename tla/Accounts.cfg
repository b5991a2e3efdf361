\* Two requests at a time, two addresses in three spellings, two passwords.
CONSTANTS
  None = None
  h1 = h1
  h2 = h2
  p1 = p1
  p2 = p2
  i1 = i1
  i2 = i2
  Handler = {h1, h2}
  Password = {p1, p2}
  UserId = {i1, i2}
  Email <- MCEmail
  Canonical <- MCCanonical
SPECIFICATION Spec
SYMMETRY Symmetry
INVARIANTS
  TypeOK
  RegisteredCanLogin
  
