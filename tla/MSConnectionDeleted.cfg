\* A Teams send and a deletion, nothing fails.
CONSTANTS
  r1 = r1
  r2 = r2
  c1 = c1
  NoOwner = NoOwner
  Request <- One
  Retries = 1
  MaxIssued = 3
  DeviceCode <- NoCode
  Jobs <- SendRevoke
  Faults <- NoFault
SPECIFICATION Spec
INVARIANTS ReacquiredAfterDeletion
