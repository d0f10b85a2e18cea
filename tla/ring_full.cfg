SPECIFICATION Spec
CONSTANTS
  t = t
  v = v
  b1 = b1
  b2 = b2
  b3 = b3
  b4 = b4
  s1 = s1
  Surfaces = {t}
  Buffers = {}
  Dynamic = {}
  Large = {}
  Parts = {1}
  Blocks = {b1, b2}
  Slots = {s1}
  Size = 2
  MaxCommands = 3
  MaxFrames = 1
  MaxPresents = 1
  NoBlock = NoBlock
  NoSlot = NoSlot
  NoBytes = NoBytes
  NoRec = NoRec
  NoWait = NoWait
INVARIANTS StaysUp
CHECK_DEADLOCK FALSE
