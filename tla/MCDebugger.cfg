SPECIFICATION Spec
CONSTANTS
  d1 = d1
  d2 = d2
  m1 = m1
  k1 = k1
  k2 = k2
  source = source
  instruction = instruction
  None = None
  Conns = {d1, d2}
  Agents = {m1}
  Keys = {k1, k2}
  Categories = {source, instruction}
  Drivers <- Everybody
  May <- EditAndRun
  Audience = {}
  MaxRequests = 4
SYMMETRY Interchangeable
CHECK_DEADLOCK FALSE
INVARIANT
  ArmedAsAsked
