SPECIFICATION Spec
CONSTANTS
  a = a
  b = b
  c = c
  Clients = {a, b, c}
  May <- RunnerAndTape
  MaxCalls = 1
  YieldEvery = 2
  TypingFrames = 2
  MaxIntervals = 2
INVARIANTS
  OneEmulationLoop
CHECK_DEADLOCK FALSE
