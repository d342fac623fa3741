SPECIFICATION Spec
CONSTANTS
  None = None
  Caller = {p1}
  Poster = {p1}
  Life = 2
  CallTime = 1
  MaxTime = 4
  SessionFails = FALSE
INVARIANT
  MetricsUseLiveCredentials
