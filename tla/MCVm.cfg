SPECIFICATION Spec
CONSTANTS
  Cpus = {c1, c2}
  Procs = {1, 2}
  NPAGES = 29
  PGSIZE = 2
  NENTRIES = 4
  Programs <- MCPrograms
  Deltas <- MCDeltas
  MaxSz = 18
  MaxCalls = 4
SYMMETRY CpuSymmetry
INVARIANTS PagesPartitioned DirectoryLive SizeIsMapped PagesAreOwn
CHECK_DEADLOCK FALSE
