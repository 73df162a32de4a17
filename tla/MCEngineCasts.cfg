SPECIFICATION CastSpec
CONSTANTS
  a = a
  b = b
  c = c
  Clients = {a, b, c}
  May <- Mixed
  MaxCalls = 2
  YieldEvery = 2
  TypingFrames = 2
  MaxIntervals = 2
INVARIANTS
  CallerOutlivesJob
  DriversOutermost
  QuiescentStopped
  RunIsTold
PROPERTIES
  OrdinaryInOrder
  PauseEndsRun
  OrdinaryAnswered
  ShutdownCompletes
CHECK_DEADLOCK FALSE
