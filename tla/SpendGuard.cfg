CONSTANTS
  c1 = c1  c2 = c2  w1 = w1
  h0 = h0  h1 = h1  d0 = d0  m0 = m0
  Null = Null
  Call <- MCCalls
  Sweeper <- MCSweepers
  Rank <- MCRank
  Worst <- MCWorst
  Actual <- MCActual
  Caps <- MCCaps
  Window <- MCWindows
  StartOf <- MCStartOf
  TheRow <- MCTheRow
  Ttl = 0
  MaxTime = 1
  MaxFaults = 1
SPECIFICATION Spec
INVARIANTS ReservedIsOpen SpentIsBilled WithinCap
PROPERTIES KeepsPromise EveryCallBilled
CHECK_DEADLOCK FALSE
