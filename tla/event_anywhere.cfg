SPECIFICATION Spec
CONSTANTS
  MaxSignals = 2
  Interruptible <- Label
  Worker = {w1}
PROPERTY
  InterruptsSleepers
CHECK_DEADLOCK FALSE
