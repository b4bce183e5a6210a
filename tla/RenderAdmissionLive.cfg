SPECIFICATION FairSpec
CONSTANTS
  Jobs = {"large", "small"}
  Bytes <- MixedBytes
  Slots = 1
  QueueCapacity = 1
  Capacities = {1, 2}
  MaxResizes = 2
  MaxWaits = 2
PROPERTIES
  RefinesBoundedAdmission
  EveryJobEnds
