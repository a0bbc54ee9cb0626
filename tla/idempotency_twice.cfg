SPECIFICATION Spec
CONSTANTS
  c1 = c1
  c2 = c2
  c3 = c3
  c4 = c4
  k1 = k1
  w1 = w1
  w2 = w2
  Calls = {c1, c2, c3, c4}
  Keys = {k1}
  KeyOf <- OneKey
  WantOf <- Reused
  Wants = {w1, w2}
  Legacy = Legacy
  NoCall = NoCall
  MaxFaults = 0
INVARIANT ActsOncePerKey
CHECK_DEADLOCK FALSE
