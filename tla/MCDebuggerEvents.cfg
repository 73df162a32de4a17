SPECIFICATION FairSpec
CONSTANTS
  d1 = d1
  d2 = d2
  m1 = m1
  k1 = k1
  k2 = k2
  source = source
  instruction = instruction
  None = None
  Conns = {d1, d2}
  Agents = {}
  Keys = {k1}
  Categories = {source, instruction}
  Drivers <- OneDriver
  May <- RunAndTell
  Audience = {d1, d2}
  MaxRequests = 4
CHECK_DEADLOCK FALSE
PROPERTY
  StopsAreTold
