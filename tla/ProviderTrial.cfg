CONSTANTS
  c1 = c1  c2 = c2  c3 = c3  p1 = p1  p2 = p2
  Null = Null
  Caller <- MCOneCaller
  Chain <- MCOneProfile
  Stale <- MCNothing
  Capped <- MCNothing
  Latency <- MCNobody
  Onward <- MCNobody
  Limited <- MCNobody
  CallCap = 1
  Threshold = 1
  BaseWindow = 1
  MaxWindow = 1
  CutCount = 1
  CutWindow = 0
  MaxTransient = 1
SPECIFICATION Spec
PROPERTIES RefusalEnds
