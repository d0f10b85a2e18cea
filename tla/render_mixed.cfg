SPECIFICATION Spec
CONSTANTS
  t = t
  v = v
  b1 = b1
  b2 = b2
  b3 = b3
  b4 = b4
  s1 = s1
  Surfaces = {t}
  Buffers = {v}
  Dynamic = {}
  Large = {}
  Parts = {1}
  Blocks = {b1, b2}
  Slots = {s1}
  Size = 2
  MaxCommands = 4
  MaxFrames = 1
  MaxPresents = 1
  NoBlock = NoBlock
  NoSlot = NoSlot
  NoBytes = NoBytes
  NoRec = NoRec
  NoWait = NoWait
SYMMETRY SomeBlocks
INVARIANTS TypeOK AckMeansUploaded MemoryAccounted
PROPERTIES DrawsAsRecorded
CHECK_DEADLOCK FALSE
