SPECIFICATION Spec
CONSTANTS
  r = r
  w = w
  m = m
  l = l
  Nanny = Nanny
  Main = Main
  Signal = Signal
  None = None
  Thread = {r}
  LateThread = {r}
  Name <- DistinctName
  Kind <- MCKind
  Grace = 1
  MaxSignals = 2
  MonitorConfig = "key_and_env"
  Lingerers = FALSE
INVARIANTS
  TypeOK
  WokenSeesShutdown
  SocketsUsableUntilGrace
  HandledDeathLeavesNoSocket
PROPERTIES
  KeepsPromise
  ShutdownCompletes
  DeathIsNoticed
