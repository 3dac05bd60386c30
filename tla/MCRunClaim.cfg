SPECIFICATION FairSpec
CONSTANTS
  Specs <- SomeSpecs
  Hosts <- SomeHosts
  EventCapacity = 1
  Hooks = {"after_create", "before_remove"}
  Terminal = {"review", "done"}
  MaxAttempts = 2
  MaxRuns = 2
  Crashes = TRUE
  MaxStarts = 2
  MaxMoves = 1
INVARIANTS NetworkWorkIsConfined SandboxIsShut RunKeepsItsFiles
PROPERTIES ClaimOutlivesAgent RunEndsUnlessHeldUp
CHECK_DEADLOCK FALSE
