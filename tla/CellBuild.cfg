SPECIFICATION CellSpec
CONSTANTS
  Jobs = {"t1", "t2", "t3"}
  Bytes <- NoBytes
  Slots = 2
  QueueCapacity = 1
  Capacities = {0}
  MaxResizes = 0
  MaxWaits = 0
  Window <- TwoScans
  Nobody = Nobody
  MaxFailures = 1
  MaxEvictions = 1
INVARIANTS
  CellTypeOK
  NoHoldAndWait
  NoOrphanWaiter
  SharedBuilds
  ServedWhole
