SPECIFICATION Spec
CONSTANTS
  N = 3
  m = m
  e = e
  cs = cs
  s = s
  Mutexes = {m}
  CritSecs = {}
  AutoEvents = {e}
  ManualEvents = {}
  Semaphores = {s}
  Requests <- SyncRequests
  Amounts <- SignedAmounts
  MinCount <- BelowZero
  MaxCount = 2
  MaxSuspend = 1
  Callbacks = {}
  Closable = {}
  Killable = {}
  Jit = TRUE
  NoThread = NoThread
  NoWait = NoWait
  NoResult = NoResult
  NoObject = NoObject
INVARIANTS TypeOK HandOff FlaggedWhileWaited ClaimKept LevelsAccounted
PROPERTIES MutexHandsOff
CHECK_DEADLOCK FALSE
