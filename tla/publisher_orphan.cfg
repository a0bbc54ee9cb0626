CONSTANT MaxRuns = 1
SPECIFICATION Spec
INVARIANT NeverOrphaned
CHECK_DEADLOCK FALSE
