SPECIFICATION Spec
CONSTANTS
  N = 3
  m = m
  e = e
  cs = cs
  s = s
  Mutexes = {m}
  CritSecs = {}
  AutoEvents = {e}
  ManualEvents = {}
  Semaphores = {}
  Requests <- CloseRequests
  Amounts = {1}
  MinCount = 0
  MaxCount = 2
  MaxSuspend = 1
  Callbacks = {}
  Closable = {m}
  Killable = {}
  Jit = TRUE
  NoThread = NoThread
  NoWait = NoWait
  NoResult = NoResult
  NoObject = NoObject
PROPERTIES RecordedOutcomeReturned
CHECK_DEADLOCK FALSE
