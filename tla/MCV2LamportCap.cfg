SPECIFICATION Spec
CONSTANTS
  Agent = {1, 2, 3}
  Hash <- MCHash
  Issue = {"i"}
  Nonce = {1}
  None = None
  Skew = 1
  MaxLamport = 4
  ChainLengths <- MCChainLengths
  Inputs <- MCInputs
INVARIANTS
  OnlySurvivorsWidenTheHorizon
  NoSustainedRecordIsRejected
PROPERTY CapTerminates
CHECK_DEADLOCK FALSE
