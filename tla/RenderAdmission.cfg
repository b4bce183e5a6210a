SPECIFICATION Spec
CONSTANTS
  Jobs = {"large", "small", "mesh"}
  Bytes <- MixedBytes
  Slots = 1
  QueueCapacity = 1
  Capacities = {1, 2}
  MaxResizes = 1
  MaxWaits = 1
INVARIANTS
  TypeOK
  SlotsAccounted
  LineAccounted
  PlacesAccounted
  MemoryAccounted
  NoLostWakeup
  

  
