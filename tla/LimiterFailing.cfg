\* Requests of two scopes on several handlers; any call may fail or be repeated.
CONSTANTS
  h1 = h1
  h2 = h2
  Handler = {h1, h2}
  Key <- MCKey
  Limit <- MCLimit
  Window <- MCWindow
  MaxLives = 2
SPECIFICATION FairSpec
PROPERTY LaterIsAllowed
