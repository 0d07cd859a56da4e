\* Two requests: API calls and revocations; refusals, outages, lapsed leases, and tasks that die.
CONSTANTS
  r1 = r1
  r2 = r2
  s1 = s1
  NoOwner = NoOwner
  Request <- Two
  Retries = 1
  MaxIssued = 2
  Faults <- LiveFaults
  StateId <- NoState
  Jobs <- ApiRevoke
  Refusals = TRUE
SPECIFICATION CFairSpec
PROPERTIES NewerSetSpared ApiAnswered
