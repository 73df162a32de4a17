SPECIFICATION MailboxesSpec
CONSTANTS
  Clients = {c1, c2}
  Commands = {play, stop}
  NoCommand = none
  MaxCalls = 3
  Conns = {a}
  Sources = {source}
  Groups = {source, group}
  Console = Console
  MaxIds = 2
  MaxHits = 3
  MaxLives = 2
  MaxPending = 1
  McpKeep = 2
  Page = 1
  All = All
  Mcp = Mcp
  Run = Run
  None = None
  Callers = {c1, c2}
  Asked <- Asks
  MaxFrame = 5
  MaxCaptures = 2
  NoCaller = NoCaller
INVARIANTS
  RequestsReach
  ReportsArrive
  NothingOfTheGone
  CaptureKept
PROPERTY
  InsertSeen
CHECK_DEADLOCK FALSE
