SPECIFICATION Spec
CONSTANTS
  N = 3
  m = m
  e = e
  cs = cs
  s = s
  Mutexes = {}
  CritSecs = {cs}
  AutoEvents = {e}
  ManualEvents = {}
  Semaphores = {}
  Requests <- CritSecRequests
  Amounts = {1}
  MinCount = 0
  MaxCount = 2
  MaxSuspend = 1
  Callbacks = {}
  Closable = {}
  Killable = {}
  Jit = TRUE
  NoThread = NoThread
  NoWait = NoWait
  NoResult = NoResult
  NoObject = NoObject
PROPERTIES CritSecNotRetaken
CHECK_DEADLOCK FALSE
