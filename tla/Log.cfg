SPECIFICATION LiveSpec
CONSTANTS
  Procs = {p1, p2}
  Blocks = {b1, b2}
  Values = {0, 1, 2}
  Zero = 0
  NoBlock = NoBlock
  LOGSIZE = 3
  LogBlocks = 3
  MAXOPBLOCKS = 1
  OpBlocks = 2
  AfterLog = b1
INVARIANT QuiescentDurable
PROPERTIES ImplementsAtomicDisk SleepersWake
