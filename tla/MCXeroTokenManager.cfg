\* Three requests under every fault: lapsed leases, dead tasks, outages and
\* replies lost after the provider rotated the refresh token.
CONSTANTS
  r1 = r1
  r2 = r2
  r3 = r3
  NoOwner = NoOwner
  Request <- Three
  Retries = 2
  MaxIssued = 3
  Faults <- AllFaults
SPECIFICATION Spec
PROPERTIES LeaseContract RotationContract
