SPECIFICATION Spec
CONSTANTS
  Agent = {1, 2}
  Hash <- MCHash
  Issue = {"i"}
  Nonce <- MCNonce
  None = None
  Skew = 2
  c1 = c1
  c2 = c2
  api = api
  Caller = {c1, c2}
  Owner <- MCOwner
  Scenarios <- DispatchingOrParking
INVARIANTS
  NoForkEvidence
  DoneCarriesHandoff
  DoubleDispatchNeedsUnseenClaim
  ProceedIsSpent
PROPERTY AdmittedOnlyGrows
CHECK_DEADLOCK FALSE
