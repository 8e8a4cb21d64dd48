CONSTANTS
  q1 = q1  q2 = q2  q3 = q3  b1 = b1  b2 = b2  i1 = i1  i2 = i2
  home = home  other = other  w1 = w1  w2 = w2  o1 = o1  o2 = o2  all = all
  Null = Null
  Question <- MCTwo
  Batch = {b1}
  Item = {i1}
  Project = {home}
  Worker = {w1}
  Owner = {o1}
  Subjects <- MCBoth
  Closes <- MCBoth
  Recorded <- MCHome
  Clash <- MCNone
  Rank <- MCRank
  Widening = {q2}
  AutoClass = {q1}
  Scope <- MCOneScope
  Configured = 2
  Decision <- MCLiveDecisions
  Deployment = all
  BatchMax = 2
  MaxRound = 0
  MaxUpset = 1
SPECIFICATION Spec
PROPERTIES AcceptedEnds
CHECK_DEADLOCK FALSE
