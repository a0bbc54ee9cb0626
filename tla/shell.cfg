CONSTANTS
  MaxRuns = 2
  s1 = s1
  s2 = s2
  c1 = c1
  m1 = m1
  m2 = m2
  Servers = {s1, s2}
  Calls = {c1}
  Commands = {m1, m2}
  NoServer = NoServer
  Window = Window
  Desktop = TRUE
SPECIFICATION MCSpec
INVARIANTS SecondFactorOrWarned ToldLoopbackIsTrue QuitUnpublishes PauseCutsNothing
PROPERTIES DeathIsTold PauseTakesEffect StatusHeals
CHECK_DEADLOCK FALSE
