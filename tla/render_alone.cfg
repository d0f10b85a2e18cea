SPECIFICATION MCSpec
CONSTANTS
  t = t
  v = v
  b1 = b1
  b2 = b2
  b3 = b3
  b4 = b4
  s1 = s1
  Surfaces = {t}
  Buffers = {}
  Dynamic = {}
  Large = {}
  Parts = {1}
  Blocks = {b1, b2}
  Slots = {s1}
  Size = 3
  MaxCommands = 5
  MaxFrames = 1
  MaxPresents = 2
  NoBlock = NoBlock
  NoSlot = NoSlot
  NoBytes = NoBytes
  NoRec = NoRec
  NoWait = NoWait
INVARIANTS FramesBounded
PROPERTIES StepsAsRecorded CallsEnd
CHECK_DEADLOCK FALSE
