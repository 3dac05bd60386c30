SPECIFICATION Spec
CONSTANTS
  a1 = a1
  a2 = a2
  Agent = {a1, a2}
  Proc <- MCProc
  ApiOps <- MCApiOps
  Policies = {"disabled", "required"}
  View <- MCView
  MaxClaims = 3
  MaxFaults = 1
  None = None
INVARIANTS
  ExclusiveUnlessRaced
  HolderOnRecordUnlessRaced
  StrandedNeedsFault
PROPERTY HandoffKeptUnlessRaced
CHECK_DEADLOCK FALSE
CONSTRAINT NotYetRaced
