SPECIFICATION Spec
CONSTANTS
  None = None
  Raise = Raise
  FAKE = "FAKESECTION"
  Section = {"FAKESECTION", "s", "t"}
  Option = {"a", "b", "c"}
  Text = {"base", "overlay", "default", "env"}
  Depth = 3
  Bases <- MCBases
  Overlays <- MCOverlays
  Environs <- MCEnvirons
INVARIANTS
  TypeOK
  OutputComplete
  ValuesResolve
  FailsForAReason
CHECK_DEADLOCK FALSE
