SPECIFICATION Spec
CONSTANTS
  BufSize = 2
  SeqMod = 4
  Args = {a1}
  Procs = {p1}
  NoProc = NoProc
  NoArgs = NoArgs
  MaxReq = 2
  MaxEvents = 5
  MaxTicks = 1
INVARIANTS KeepsMostRecent LossesReported
PROPERTY ImplementsStream
