SPECIFICATION OutputsSpec
CONSTANTS
  Clients = {c1, c2}
  MaxRequests = 3
  Callers = {c1, c2}
  Limits = {0, 2}
  MaxQueue = 2
  MaxFrames = 4
  MaxRecordings = 2
  Buffer = 1
  DeviceCap = 3
  ListenerCap = 1
  Target = 1
  Blocks = {1, 2}
  MaxTimeouts = 2
  MaxStalls = 1
  MaxSamples = 5
  MaxStreams = 2
INVARIANTS
  CapturesKept
  RecordingIsWhole
  SoundKept
PROPERTIES
  HandedOver
  WaitsEnd
CHECK_DEADLOCK FALSE
