CONSTANTS
  Handlers = {h1, h2, h3}
  Asks <- Writers
  MaxItem = 4
  Given = 2
  Stored = {1, 2}
  Cards = {}
  Forever = 7
  Slack = 1
  StepBacks = 0
  Readings = 0
SPECIFICATION Spec
SYMMETRY Both
INVARIANTS TypeOK NothingLeftToConstraints AnswersAreTrue
PROPERTIES CommitsOnTheHeadNamed HeadGrows NothingFallsOut ReversalUndoes
CHECK_DEADLOCK FALSE
