\* Three requests that may overlap, two keys, every fault, people at work in Xero.
CONSTANTS
  t1 = t1
  t2 = t2
  t3 = t3
  k1 = k1
  k2 = k2
  NoEntry = NoEntry
  Failed = Failed
  Task <- Three
  Key <- TwoKeys
  Faults <- AllFaults
SPECIFICATION Spec
SYMMETRY Symmetry
INVARIANTS TypeOK RepliesHappened SerialOneUsable SerialOneWrite
\* Each task is one request, so the system stops when all are answered.
CHECK_DEADLOCK FALSE
