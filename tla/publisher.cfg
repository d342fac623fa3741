SPECIFICATION Spec
CONSTANTS
  PUBLISH_RETRIES = 3
  MaxCalls = 3
INVARIANTS
  TypeOK
  NoMoreCopiesThanTries
  ReusedChannelIsClean
  NeverFallsThrough
PROPERTY
  CallEnds
