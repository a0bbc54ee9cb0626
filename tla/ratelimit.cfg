SPECIFICATION FairSpec
CONSTANTS
  a = a
  b = b
  d = d
  e = e
  Callers = {a, b, d, e}
  PerHour = 2
  Spacing = 2
  Window = 5
  NoOne = NoOne
INVARIANT CapKept
PROPERTIES EveryCallerEnds SpacingBeforeAct
