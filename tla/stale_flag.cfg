SPECIFICATION SafeSpec
CONSTANTS
  r = r
  w = w
  m = m
  l = l
  Nanny = Nanny
  Main = Main
  Signal = Signal
  None = None
  Thread = {w}
  LateThread = {}
  Name <- DistinctName
  Kind <- MCKind
  Grace = 0
  MaxSignals = 1
  MonitorConfig = "key_and_env"
  Lingerers = FALSE
PROPERTY
  LoopStopsOnShutdown
