SPECIFICATION LiveSpec
CONSTANTS
  NPROC = 4
  Cpus = {c0}
  Cpu0 = c0
  None = None
  Ticks = Ticks
  KillPids = {2}
  Nap = 1
  MaxPid = 4
INVARIANT NoMissedExit
PROPERTIES RunnableRuns 
