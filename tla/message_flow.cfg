SPECIFICATION Spec
CONSTANTS
  Events <- MCEvents
  MaxMessages = 2
  MaxForeign = 1
  HWM = 1
INVARIANTS
  TypeOK
  OrderKept
  EventsKeepTheirTime
  NothingLostInHealth
PROPERTIES
  KeepsOrder
  Arrives
CHECK_DEADLOCK FALSE
