SPECIFICATION CapSpec
CONSTANTS
  Notes <- Warnings
  MaxEntries = 1
  Concurrency = 2
  MaxAccepted = 2
  MaxAlerts = 2
  MaxFaults = 1
INVARIANTS
  CapTypeOK
  CopiesRefused
  IndexExact
  WithdrawnStaysOut
  OrderIndependent
  
