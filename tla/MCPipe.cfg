SPECIFICATION Spec
CONSTANTS
  PIPESIZE = 2
  CountMod = 4
  Readers = {r1, r2}
  Writers = {w1, w2}
  Nobody = Nobody
  Bytes = {0, 1}
  Messages <- MCMessages
  MaxRead = 2
  Killable = {w1, r1}
  MaxBytes = 5
INVARIANTS Fifo SleepersJustified EofIsFinal
CHECK_DEADLOCK FALSE
