CONSTANTS
  q1 = q1  q2 = q2  q3 = q3  b1 = b1  b2 = b2  i1 = i1  i2 = i2
  home = home  other = other  w1 = w1  w2 = w2  o1 = o1  o2 = o2  all = all
  Null = Null
  Question <- MCTwo
  Batch = {b1}
  Item <- MCItems
  Project <- MCProjects
  Worker = {w1}
  Owner = {o1, o2}
  Subjects <- MCSubjects
  Closes <- MCCloses
  Recorded <- MCRecorded
  Clash <- MCClash
  Rank <- MCRank
  Widening <- MCNone
  AutoClass <- MCNone
  Scope <- MCScopes
  Configured = 2
  Decision <- MCAllDecisions
  Deployment = all
  BatchMax = 2
  MaxRound = 0
  MaxUpset = 0
SPECIFICATION SafeSpec
INVARIANTS ApprovedHasAJob
CHECK_DEADLOCK FALSE
