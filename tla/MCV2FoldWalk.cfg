SPECIFICATION Spec
CONSTANTS
  Agent = {1, 2}
  Hash = {1, 2, 3, 4, 5, 6, 7, 8, 9, 10, 11, 12, 13, 14, 15, 16, 17, 18}
  Issue = {"i", "j"}
  Nonce = {1, 2}
  None = None
  Inputs <- MCInputs
INVARIANTS
  LeaseLog
  RejectedForCause
  StatusIsLastApplied
  SpentUnderLease
  ExactlyOneOutcome
  HandoffUnderLease
PROPERTY ImplementsLedger
CHECK_DEADLOCK FALSE
