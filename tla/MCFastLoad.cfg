SPECIFICATION SpecInputs
CONSTANTS
  Inputs = {"k0", "k1", "f0", "f1"}
  RawSpans = {}
  InstrHc = 2
  FrameHc = 3
  CheckpointFrames = 1
  Window = 4
  MaxBytes = 3
  MaxHc = 6
  MaxInputs = 4
  MaxChanges = 3
INVARIANT
  FastLoadFollows
CHECK_DEADLOCK FALSE
