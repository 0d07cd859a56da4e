\* An API request and a revocation, nothing fails.
CONSTANTS
  r1 = r1
  r2 = r2
  s1 = s1
  NoOwner = NoOwner
  Request <- Two
  Retries = 1
  MaxIssued = 3
  Faults <- NoFault
  StateId <- NoState
  Jobs <- ApiRevoke
  Refusals = FALSE
SPECIFICATION CSpec
PROPERTIES RevokedStaysRevoked
