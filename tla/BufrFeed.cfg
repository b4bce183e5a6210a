SPECIFICATION Spec
CONSTANTS
  Engines = {e1, e2}
  Ids = {a, b, c}
  Rows = {r}
  MaxRemembered = 2
  None = None
SYMMETRY Symmetry
INVARIANTS
  IndexAgrees
  NothingLost
  
