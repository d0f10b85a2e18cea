SPECIFICATION FairSpec
CONSTANTS
  N = 3
  m = m
  e = e
  cs = cs
  s = s
  Mutexes = {m}
  CritSecs = {cs}
  AutoEvents = {}
  ManualEvents = {}
  Semaphores = {}
  Requests <- LivenessRequests
  Amounts = {1}
  MinCount = 0
  MaxCount = 1
  MaxSuspend = 1
  Callbacks = {1}
  Closable = {}
  Killable = {}
  Jit = TRUE
  NoThread = NoThread
  NoWait = NoWait
  NoResult = NoResult
  NoObject = NoObject
PROPERTIES TimedWaitEnds ReadyRuns MutexGranted
CHECK_DEADLOCK FALSE
