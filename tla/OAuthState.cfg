\* Four callbacks that carry one state, each able to die at every command.
CONSTANT Callback = {c1, c2, c3, c4}
SPECIFICATION Spec
INVARIANTS TypeOK ConsumedOnce
PROPERTIES PopContract
\* Each callback pops once, so the system stops when all have returned.
CHECK_DEADLOCK FALSE
