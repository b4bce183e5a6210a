SPECIFICATION FairSpec
CONSTANTS
  Collections = {"radar", "nowcast"}
  Source <- TheSource
  Slots = {1, 2}
  Configs <- TheConfigs
  Boot <- Both
  Malformed = Malformed
  Clients = {"admin"}
  MaxEdits = 2
  None = None
INVARIANTS
  TypeOK
  OneLoadAtATime
  NoLostShutdown
  
  DerivedReadLive
PROPERTIES
  OnlyReviewedEdits
  EditsAreConsidered
