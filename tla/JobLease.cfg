CONSTANTS
  j1 = j1  j2 = j2  p1 = p1  p2 = p2
  s1 = s1  s2 = s2
  t1 = 1  t2 = 2  t3 = 3  t4 = 4
  Null = Null
  Job <- MCJobs
  Proc <- MCProc
  Slot <- MCSlots
  ProcOf <- MCProcOf
  Token <- MCToken
  Priority <- MCPriority
  UnknownOp <- MCUnknown
  ApplyOp <- MCApply
  Observer <- MCObserver
  MaxAttempts = 3
  MaxFaults = 2
SPECIFICATION Spec
INVARIANTS TypeOK RowMatchesLog OneHolder BackOffIsRecorded
PROPERTIES KeepsPromise
CHECK_DEADLOCK FALSE
