CONSTANTS
  t1 = t1
  t2 = t2
  r1 = r1
  r2 = r2
  d1 = d1
  d2 = d2
  Torn = Torn
  Nobody = Nobody
  Threads <- TwoThreads
  Routes <- TwoRoutes
  Devices <- TwoDevices
  Crons <- OneCron
  Mounts = {TRUE, FALSE}
  MaxEdits = 2
  MaxSaveFaults = 1
  MaxRestarts = 1
SPECIFICATION FairSpec
CHECK_DEADLOCK FALSE
INVARIANTS
  ConfigIsValid
  InStep
  AckedEditStays
PROPERTIES
  OnlyTheNamedItemChanges
