CONSTANTS
  r1 = r1
  r2 = r2
  RouteId = {r1, r2}
  Schedule <- MCSchedule
  Interval = 2
  Retention = 3
  Horizon = 5
  MaxActs = 1
  MaxBoots = 3
  LateClock = FALSE
  TouchFails = FALSE
  Device = {d1, d2}
  NoLabel = NoLabel
  NoReason = NoReason
  ntfy = ntfy
  email = email
  Channels <- TwoChannels
  Unresolved = {ntfy}
  MaxWarn = 2
  MaxTests = 1
SPECIFICATION StartUpSpec
SYMMETRY MCStartUpSymmetry
INVARIANTS
  NoFalseAlarm
  EachChannelOnItsOwn
  LeftOnIsTold
PROPERTIES
  MissedIsReported
CHECK_DEADLOCK FALSE
