SPECIFICATION MCSpec
CONSTANTS
  pa = pa
  pb = pb
  pc = pc
  k1 = k1
  k2 = k2
  f1 = f1
  f2 = f2
  o1 = o1
  o2 = o2
  o3 = o3
  l1 = l1
  l2 = l2
  r1 = r1
  j1 = j1
  j2 = j2
  j3 = j3
  Garbage = Garbage
  Damaged = Damaged
  NoLog = NoLog
  NoFile = NoFile
  NoFlush = NoFlush
  NoPiece = NoPiece
  Pieces = {pa, pb}
  Budget = 1
  MaxCalls = 3
  MaxEntries = 0
  LongStalls = TRUE
  Parts = {"link"}
INVARIANTS PiecesAreTheirs
CHECK_DEADLOCK FALSE
