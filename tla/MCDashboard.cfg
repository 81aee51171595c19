SPECIFICATION Spec
CONSTANTS
  Argvs <- MCArgvs
  Types = {1, 2}
  SyscallType = 1
  Other = {2}
  Self = 1
  Capacity = 3
  Rows = 2
  DefaultRows = 1
  Width = 2
  Wait = 1
  Newlines = 1
  MaxEvents = 4
  MaxTicks = 4
INVARIANTS GraphCounts  OneshotDrains
CHECK_DEADLOCK FALSE
