CONSTANTS
  r1 = r1  r2 = r2  gc = gc
  d1 = d1  d2 = d2  d3 = d3  m1 = m1  m2 = m2
  NoKey = NoKey  NoDevice = NoDevice  Nobody = Nobody  User = User
  Worker = w
  Threads = {w}
  Devices = {d1, d2, d3}
  LeaseKeys = {m1, m2}
  LeaseKey <- TwoBoxesKey
  Managed = {d1, d3}
  IdleWaited = {d3}
  WolRetries = 1
  Routes = {r1, r2}
  Maints = {gc}
  MaintDevice <- TheMaintDevice
  RouteNeeds <- TwoBoxesNeeds
  FirstNeeds <- TwoBoxes
  Stoppers = {}
  Clickers = {}
  UserActs = {"edit"}
  MaxRuns = 2
  MaxFaults = 0
  LingerAnswers = FALSE
SPECIFICATION Spec
INVARIANTS LeasedBoxIsUp  NoLeaseLeft  EveryEndIsNotified
CHECK_DEADLOCK FALSE
