SPECIFICATION FairSpec
CONSTANTS
  a1 = a1
  a2 = a2
  remote = remote
  None = None
  Agent = {a1}
  Remote = remote
  Req <- Once
  Knows <- KnowsApprover
  Workflows <- MCWorkflows
  Trusts = {"trusted"}
  Content = {1}
  MaxVerdicts = 2
  MaxFaults = 0
PROPERTY
  ReapprovalRuns
CHECK_DEADLOCK FALSE
