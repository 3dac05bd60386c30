CONSTANTS
  Worker = {1, 2}
  Me = 1
  Knows = {1, 2}
  Ttl = 5
  Lag = 1
  Delay = 1
  MaxBackoff = 4
  Factor = 1
  Distances <- EitherCloser
  PublishEnabled = TRUE
  MaxFaults = 1
SPECIFICATION Spec
INVARIANTS VisibleUnlessDisturbed SlateIsClosestAndLive
PROPERTY EpochNamesOneSet
