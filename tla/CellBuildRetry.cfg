SPECIFICATION PatientSpec
CONSTANTS
  Jobs = {"t1", "t2", "t3"}
  Bytes <- NoBytes
  Slots = 3
  QueueCapacity = 2
  Capacities = {0}
  MaxResizes = 0
  MaxWaits = 0
  Window <- OneScan
  Nobody = Nobody
  MaxFailures = 1
  MaxEvictions = 0
PROPERTIES
  EveryTileEnds
