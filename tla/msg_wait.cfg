SPECIFICATION Spec
CONSTANTS
  N = 3
  m = m
  e = e
  cs = cs
  s = s
  Mutexes = {m}
  CritSecs = {}
  AutoEvents = {}
  ManualEvents = {}
  Semaphores = {}
  Requests <- MsgRequests
  Amounts = {1}
  MinCount = 0
  MaxCount = 2
  MaxSuspend = 1
  Callbacks = {}
  Closable = {}
  Killable = {}
  Jit = TRUE
  NoThread = NoThread
  NoWait = NoWait
  NoResult = NoResult
  NoObject = NoObject
INVARIANTS FlaggedForEveryWait
CHECK_DEADLOCK FALSE
