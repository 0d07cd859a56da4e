\* Two tasks of every kind, one device code, every fault.
CONSTANTS
  r1 = r1
  r2 = r2
  c1 = c1
  NoOwner = NoOwner
  Request <- Two
  Retries = 2
  MaxIssued = 2
  DeviceCode <- OneCode
  Jobs <- AllJobs
  Faults <- AllFaults
SPECIFICATION FairSpec
INVARIANTS TypeOK OneRefresher RetryIsFresh AuthorizationSticks
PROPERTIES NoOlderSet DeletionSettles StoreContract Answered
