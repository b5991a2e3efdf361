\* One exchange, for every accepted configuration and every kind of request.
CONSTANTS
  Unset = Unset
  Numeral <- MCNumeral
  Environment <- MCEnvironment
  Exchange <- MCExchange
  TicksPerSecond = 2
  AccessTTL = 900
SPECIFICATION Spec
CHECK_DEADLOCK FALSE
INVARIANTS
  EveryAnswerTagged
  PanicContained
  CookieAsTold
  OutcomeAsTold
  CookieAcceptable
  ServedAsPromised
  NotServedLater
