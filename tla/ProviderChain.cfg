CONSTANTS
  c1 = c1  c2 = c2  c3 = c3  p1 = p1  p2 = p2
  Null = Null
  Caller <- MCTwoCallers
  Chain <- MCTwoProfiles
  Stale <- MCSecond
  Capped <- MCFirst
  Latency <- MCSecondCaller
  Onward <- MCTwoCallers
  Limited <- MCTwoCallers
  CallCap = 2
  Threshold = 2
  BaseWindow = 1
  MaxWindow = 2
  CutCount = 2
  CutWindow = 0
  MaxTransient = 2
SPECIFICATION Spec
INVARIANTS TypeOK BookedOnce OneTrial CallCeiling
PROPERTIES EveryCallEnds
