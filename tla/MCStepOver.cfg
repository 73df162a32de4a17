SPECIFICATION Spec
CONSTANTS
  d1 = d1
  d2 = d2
  m1 = m1
  k1 = k1
  k2 = k2
  source = source
  instruction = instruction
  None = None
  Conns = {d1}
  Agents = {}
  Keys = {k1}
  Categories = {source, instruction}
  May <- EditAndRun
  Audience = {}
  Drivers = {d1}
  MaxRequests = 2
CHECK_DEADLOCK FALSE
INVARIANT StepKeepsBreakpoints
