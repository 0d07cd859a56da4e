\* API requests only: Xero refuses one access token.
CONSTANTS
  r1 = r1
  r2 = r2
  s1 = s1
  NoOwner = NoOwner
  Request <- One
  Retries = 1
  MaxIssued = 3
  Faults <- NoFault
  StateId <- NoState
  Jobs <- ApiOnly
  Refusals = TRUE
SPECIFICATION CSpec
INVARIANTS RetryRefreshes
