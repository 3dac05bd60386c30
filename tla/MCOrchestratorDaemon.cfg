SPECIFICATION Spec
CONSTANTS
  Worker = {w1}
  Issue = {i1, i2}
  GlobalCap = 1
  StateCap <- MCStateCap
  MaxAttempts = 2
  Daemon = TRUE
  Faults = TRUE
  Rivals = TRUE
  MaxStarts = 2
  None = None
INVARIANTS
  SlotsExact
  NoForgottenClaim
PROPERTIES
  RunEnds
  ShutdownEnds
CHECK_DEADLOCK FALSE
