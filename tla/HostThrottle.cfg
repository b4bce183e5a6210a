SPECIFICATION Spec
CONSTANTS
  Requests = {"a", "b", "c"}
  PaceFloor = 1
  PaceCap = 3
  CutWindow = 1
  QuietInterval = 3
  RetryDelay = 2
  MaxRetryAfter = 2
  RetryAfters = {0, 3}
  None = None
  MaxTime = 7
INVARIANTS
  TypeOK
PROPERTIES
  
  PacedSinceAnswer
  QuietHostUnpaced
