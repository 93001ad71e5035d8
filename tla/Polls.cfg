CONSTANTS
  Timeout = 4
  Grace = 3
  MaxCall = 2
  Batch = 2
  MaxLines = 3
  WatchedTask = {t1, t2}
  FirstTaskWait = 3
  IdleWait = 3
  WatchCall = 1
SPECIFICATION PollsSpec
INVARIANTS
  LinesInOrder
  OutcomeIsTrue
  WatchIsTrue
PROPERTIES
  WaitEnds
  WatchEnds
CHECK_DEADLOCK FALSE
