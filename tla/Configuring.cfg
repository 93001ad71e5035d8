CONSTANTS
  Tab = {a, b}
  DevId = {"d1", "d2", "d3"}
  MaxActs = 3
  Wizards = {w1, w2}
  Datastore = {"nas 1", "nas-1", "tank"}
  NoStore = NoStore
  TokenName <- MCTokenName
  MaxSecret = 4
  MaxFaults = 1
  MovesOn = FALSE
  OverlapKeygen = FALSE
  Fields <- MCFields
  Seeded = {TRUE}
SPECIFICATION ConfiguringSpec
SYMMETRY MCSymmetry
INVARIANTS
  SecretsAreTheirs
  
  OriginalIsKept
  ScheduleIsKept
PROPERTIES
  ReplacedWithConsent
  FormsSayWhatTheyChange
CHECK_DEADLOCK FALSE
