SPECIFICATION Spec
CONSTANTS
  Worker = {w1, w2, w3}
  Issue = {i1}
  GlobalCap = 2
  StateCap <- TodoCap
  MaxAttempts = 1
  Daemon = FALSE
  Faults = TRUE
  Rivals = TRUE
  MaxStarts = 1
  None = None
SYMMETRY Callers
INVARIANTS
  CapHolds
CHECK_DEADLOCK FALSE
