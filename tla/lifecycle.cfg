SPECIFICATION Spec
CONSTANTS
  N = 3
  m = m
  e = e
  cs = cs
  s = s
  Mutexes = {m}
  CritSecs = {cs}
  AutoEvents = {}
  ManualEvents = {}
  Semaphores = {}
  Requests <- LifecycleRequests
  Amounts = {1}
  MinCount = 0
  MaxCount = 2
  MaxSuspend = 1
  Callbacks = {1}
  Closable = {m}
  Killable = {2}
  Jit = FALSE
  NoThread = NoThread
  NoWait = NoWait
  NoResult = NoResult
  NoObject = NoObject
INVARIANTS HandOff CritSecHandOff LevelsAccounted NoDeadOwner StackDiscipline
CHECK_DEADLOCK FALSE
