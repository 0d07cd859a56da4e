\* Two requests of every kind, every fault, one authorization.
CONSTANTS
  r1 = r1
  r2 = r2
  s1 = s1
  NoOwner = NoOwner
  Request <- Two
  Retries = 1
  MaxIssued = 2
  Faults <- AllFaults
  StateId <- OneState
  Jobs <- AllJobs
  Refusals = TRUE
SPECIFICATION CSpec
SYMMETRY Symmetry
INVARIANTS CTypeOK CallsUsePersisted NoSpentRefresh ConnectionSurvives
PROPERTIES DeletionSettles StoreContract
