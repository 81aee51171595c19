SPECIFICATION Spec
CONSTANTS
  NPROC = 3
  Cpus = {c0, c1}
  Cpu0 = c0
  None = None
  Ticks = Ticks
  KillPids = {1, 2, 3}
  Nap = 1
  MaxPid = 4
INVARIANTS OneCpuPerProcess NoMissedTick LivesTraced
