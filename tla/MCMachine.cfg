SPECIFICATION MachineSpec
CONSTANTS
  Images <- Tapes
  MaxHc = 6
  MaxSaved = 1
  MaxOps = 4
  Space = 3
  Lengths = {1, 2}
  Values = {0, 1}
  Interests <- Some
  Banks = {5, 7}
  AnyBank = AnyBank
  Conns = {c1}
  MaxId = 2
  MaxPrefixes = 2
  StackSpace = 6
  Sites = {"a"}
  MAX_DEPTH = 1
  MAX_NODES = 3
  MaxCalls = 2
  WORST_PERIODS = 1
  Marker = 1
  MaxInstructions = 5
  MaxPeriods = 3
  Loaders = {"d", "m"}
  Programs = {"p", "q"}
  none = none
  RAM_BANKS = {0, 2, 5, 7}
  PagingValues <- Written7FFD
  nothing = nothing
  MaxMarked = 1
  Groups = 2
  Border = 6
INVARIANTS
  CursorFits
  WatchesStandApart
  TakesItsTime
  GoesBackThere
  ProfileTells
  TakesPublishedTime
  AdvertTells
  MapFollowsPaging
  SnapshotsComeBack
  InsertedIsTape
  SoundIsExact
  AluIsArithmetic
  LookupsAgree
PROPERTIES
  PlaysSignal
  TapeGetsOn
  BusKept
CHECK_DEADLOCK FALSE
