CONSTANTS
  Handlers = {h1, h2}
  Asks <- Crossing
  MaxItem = 2
  Given = 2
  Stored = {1, 2}
  Cards = {}
  Forever = 6
  Slack = 1
  StepBacks = 1
  Readings = 1
SPECIFICATION FairSpec
INVARIANTS RebuildGivesTheFacts
PROPERTIES ImplementsHistory EveryAskEnds
CHECK_DEADLOCK FALSE
