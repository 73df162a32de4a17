SPECIFICATION FairSpec
CONSTANTS
  a = a
  b = b
  c = c
  Clients = {a, b}
  May <- TwoRunners
  MaxCalls = 2
  YieldEvery = 2
  TypingFrames = 2
  MaxIntervals = 2
PROPERTY
  PauseEndsLoop
CHECK_DEADLOCK FALSE
