CONSTANTS
  c1 = c1
  c2 = c2
  Calls <- MCCalls
  Fires <- MCFires
  Probe = probe
  NoOne = none
  Deadline = 2
  Timeout = 3
SPECIFICATION FairSpec
INVARIANTS
  ActsAtMostOnce
  ActsOnlyAsDecided
  WithinTwoDeadlines
PROPERTIES
  StaleTwiceOnlyIfForgotten
  EveryCallEnds
  ImplementsCallLog
CHECK_DEADLOCK FALSE
