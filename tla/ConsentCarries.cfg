CONSTANTS
  Wizards = {w1, w2}
  Datastore = {"nas 1", "nas-1", "tank"}
  NoStore = NoStore
  TokenName <- MCTokenName
  MaxSecret = 5
  MaxFaults = 1
  MovesOn = TRUE
  OverlapKeygen = FALSE
SPECIFICATION WizardSpec
PROPERTIES
  ReplacedWithConsent
CHECK_DEADLOCK FALSE
