CONSTANTS
  r1 = r1  r2 = r2  gc = gc
  d1 = d1  d2 = d2  d3 = d3  m1 = m1  m2 = m2
  NoKey = NoKey  NoDevice = NoDevice  Nobody = Nobody  User = User
  Worker = w
  Threads = {w}
  Devices = {d1}
  LeaseKeys = {m1}
  LeaseKey <- OneDeviceKey
  Managed = {d1}
  IdleWaited = {d1}
  WolRetries = 0
  Routes = {r1, r2}
  Maints = {gc}
  MaintDevice <- OneDeviceMaint
  RouteNeeds <- OneDeviceNeeds
  FirstNeeds <- OneDevice
  Stoppers = {}
  Clickers = {c1}
  UserActs = {"dequeue", "restart"}
  MaxRuns = 2
  MaxFaults = 2
  LingerAnswers = TRUE
SPECIFICATION FairSpec
INVARIANTS
  TypeOK
  QueueIsSound
  LockDiscipline
  NoOrphanRow
PROPERTIES
  FinalRowsStay
  ImplementsBroker
  EveryRunEnds
CHECK_DEADLOCK FALSE
