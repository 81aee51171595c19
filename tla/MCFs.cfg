SPECIFICATION Spec
CONSTANTS
  Procs = {1, 2}
  NINODES = 5
  NINODE = 4
  MaxCalls = 4
  Calls <- MCCalls
CONSTRAINT TypedWhenLocked
INVARIANTS RefsExact  LinkCounts NobodyStuck
CHECK_DEADLOCK FALSE
