SPECIFICATION Spec
CONSTANTS
  Requests = {"r1", "r2", "r3", "r4"}
  Configured = 3
  MaxQuiet = 1
PROPERTIES
  NewSeeTheLimit
