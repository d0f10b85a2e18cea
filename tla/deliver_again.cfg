SPECIFICATION PartsSpec
CONSTANTS
  pa = pa
  pb = pb
  pc = pc
  k1 = k1
  k2 = k2
  f1 = f1
  f2 = f2
  o1 = o1
  o2 = o2
  o3 = o3
  l1 = l1
  l2 = l2
  r1 = r1
  j1 = j1
  j2 = j2
  j3 = j3
  Garbage = Garbage
  Damaged = Damaged
  NoLog = NoLog
  NoFile = NoFile
  NoFlush = NoFlush
  NoPiece = NoPiece
  Pieces = {pa, pb}
  Budget = 1
  MaxCalls = 3
  MaxEntries = 1
  LongStalls = FALSE
  ta = ta
  tb = tb
  w1 = w1
  w2 = w2
  NoThread = NoThread
  NoWindow = NoWindow
  WindowCalls = 2
  WindowEvents = 3
  WindowProcsWait = TRUE
  Parts = {"windows"}
INVARIANTS SentInOrder
CHECK_DEADLOCK FALSE
