SPECIFICATION Spec
CONSTANTS
  Agent = {1, 2}
  Hash <- MCHash
  Issue = {"i"}
  Nonce <- MCNonce
  None = None
  Skew = 2
  c1 = c1
  c2 = c2
  api = api
  Caller = {c1, api}
  Owner <- MCOwner
  Scenarios <- JustSharing
INVARIANT NoForkEvidence
CHECK_DEADLOCK FALSE
