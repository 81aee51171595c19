SPECIFICATION Spec
CONSTANTS
  Procs = {1, 2}
  NINODES = 4
  BSIZE = 2
  NDIRECT = 1
  FirstData = 3
  FSSIZE = 12
  NFILE = 2
  NOFILE = 2
  LOGSIZE = 6
  Image <- MCImage
  Boot <- MkfsImage
  Lengths = {1, 4}
  MaxCalls = 6
INVARIANTS DurableConsistent ReadsBack OffsetExact ClosedIsFreed ChunkFitsLog
CHECK_DEADLOCK FALSE
