SPECIFICATION Spec
CONSTANTS
  None = None
  Caller = {c1, p1}
  Poster = {p1}
  Life = 2
  CallTime = 1
  MaxTime = 4
  SessionFails = TRUE
INVARIANTS
  TypeOK
  FreshUnlessTorn
  ExpiryFitsSession
  ExpiryBeforeSession
