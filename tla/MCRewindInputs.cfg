SPECIFICATION SpecInputs
CONSTANTS
  Inputs = {"k0", "k1", "f0", "f1"}
  RawSpans = {3}
  InstrHc = 2
  FrameHc = 3
  CheckpointFrames = 1
  Window = 6
  MaxBytes = 2
  MaxHc = 9
  MaxInputs = 3
  MaxChanges = 2
INVARIANTS
  ReplaysAgree
  TimelineKept
  SearchSeesAll
PROPERTIES
  KeysAreNoNews
CHECK_DEADLOCK FALSE
