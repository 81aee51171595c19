SPECIFICATION LiveSpec
CONSTANTS
  Procs = {p1, p2}
  Blocks = {k1, k2, k3}
  Values = {0, 1}
  Zero = 0
  NBUF = 2
  Nobody = Nobody
  NoBlock = NoBlock
  MaxPinned = 1
  MaxErrors = 1
INVARIANTS OneBufferPerBlock Coherent NobodyForgotten OutOnlyWhenFull
PROPERTY RequestsAnswered
