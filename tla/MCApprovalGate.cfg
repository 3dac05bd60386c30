SPECIFICATION Spec
CONSTANTS
  a1 = a1
  a2 = a2
  remote = remote
  None = None
  Agent = {a1, a2}
  Remote = remote
  Req <- Twice
  Knows <- KnowsApprover
  Workflows <- MCWorkflows
  Trusts = {"known", "trusted"}
  Content = {1, 2}
  MaxVerdicts = 2
  MaxFaults = 1
CONSTRAINT NotYetRaced
INVARIANTS
  NetworkRunIsConsented
  DenialHoldsUnlessRaced
  SpentOnceUnlessRaced
  ParkedThoughApproved
CHECK_DEADLOCK FALSE
