SPECIFICATION FairSpec
CONSTANTS
  c = c
  m = m
  old = old
  Agent = {c, m, old}
  Creator = c
  OldDaemon = {old}
  Author = {m}
  FirstRosters <- WithOther
  Rosters <- AddAndRemove
  MaxEpoch = 2
  MaxPublishes = 2
  MaxRosterMembers = 2
  MaxJoinPasses = 1
  MaxFaults = 1
INVARIANTS
  RostersAgree
PROPERTIES
  ServedStays
  ViewsConverge
CHECK_DEADLOCK FALSE
