SPECIFICATION FairSpec
CONSTANTS
  c1 = c1
  c2 = c2
  k1 = k1
  Calls = {c1, c2}
  Keys = {k1}
  KeyOf <- SamePair
  ByHand = {c2}
  MaxFaults = 1
INVARIANTS AllowedOnlyOnOwnCard NoOrphanCard
PROPERTIES EveryHoldEnds ImplementsHumanGate
CHECK_DEADLOCK FALSE
