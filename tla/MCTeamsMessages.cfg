\* Three requests that may overlap, two keys or none, every fault.
CONSTANTS
  t1 = t1
  t2 = t2
  t3 = t3
  k1 = k1
  k2 = k2
  NoKey = NoKey
  NoEntry = NoEntry
  Failed = Failed
  Task <- Three
  Key <- TwoKeys
  Faults <- AllFaults
SPECIFICATION Spec
SYMMETRY Symmetry
INVARIANTS TypeOK RepliesPosted OnePostEach SerialOneMessage
\* Each task is one request, so the system stops when all are answered.
CHECK_DEADLOCK FALSE
