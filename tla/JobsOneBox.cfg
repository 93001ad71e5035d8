CONSTANTS
  r1 = r1  r2 = r2  gc = gc
  d1 = d1  d2 = d2  d3 = d3  m1 = m1  m2 = m2
  NoKey = NoKey  NoDevice = NoDevice  Nobody = Nobody  User = User
  Worker = w
  Threads = {w}
  Devices = {d1, d2}
  LeaseKeys = {m1}
  LeaseKey <- OneBoxKey
  Managed = {d1, d2}
  IdleWaited = {d1}
  WolRetries = 0
  Routes = {r1, r2}
  Maints = {gc}
  MaintDevice <- TheMaintDevice
  RouteNeeds <- OneBoxNeeds
  FirstNeeds <- OneBox
  Stoppers = {u1}
  Clickers = {c1}
  UserActs = {"wake"}
  MaxRuns = 2
  MaxFaults = 0
  LingerAnswers = FALSE
SPECIFICATION Spec
INVARIANTS
  NothingLeftOnSilently
  NoStaleStop
PROPERTIES
  NoPowerOffUnderEarlyRun
  StopChoiceHonoured
CHECK_DEADLOCK FALSE
