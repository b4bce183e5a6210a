SPECIFICATION FairSpec
CONSTANTS
  Requests = {"r1", "r2", "r3", "r4"}
  Configured = 3
  MaxQuiet = 2
INVARIANTS
  TypeOK
  PermitsBalance
  WithinConfigured
PROPERTIES
  EveryRequestServed
