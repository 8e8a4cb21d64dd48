CONSTANTS
  Handlers = {h1, h2}
  Asks <- LibrarianAsks
  MaxItem = 2
  Given = 2
  Stored = {1, 2}
  Cards = {}
  Forever = 6
  Slack = 1
  StepBacks = 0
  Readings = 0
SPECIFICATION Spec
SYMMETRY Both
PROPERTIES HeadGrows
CHECK_DEADLOCK FALSE
