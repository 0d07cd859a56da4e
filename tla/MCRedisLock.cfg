\* Three contexts, each able to crash at every point or to lose a reply,
\* with the time to live of the key running out at any time.
CONSTANTS
  c1 = c1
  c2 = c2
  c3 = c3
  NoOwner = NoOwner
  Context <- MCContext
SPECIFICATION FairSpec
INVARIANTS TypeOK LeaseHonoured
PROPERTIES LeaseContract KeyFreed
\* Contexts are entered once, so the system stops when all of them are over.
CHECK_DEADLOCK FALSE
