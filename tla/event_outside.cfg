SPECIFICATION Spec
CONSTANTS
  MaxSignals = 2
  Interruptible <- Outside
  Worker = {w1}
INVARIANT
  TypeOK
  NoLostWakeup
  FlagReachesEvent
PROPERTY
  InterruptsSleepers
  IsAtomic
