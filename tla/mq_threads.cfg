SPECIFICATION CooperativeSpec
CONSTANTS
  r = r
  w = w
  m = m
  l = l
  Nanny = Nanny
  Main = Main
  Signal = Signal
  None = None
  Thread = {m, l}
  LateThread = {}
  Name <- DistinctName
  Kind <- MCKind
  Grace = 0
  MaxSignals = 0
  MonitorConfig = "key_and_creds"
  Lingerers = TRUE
INVARIANT
  FailureExitsNonZero
PROPERTIES
  AlarmMeansDeath
  ThreadsEndShutdown
