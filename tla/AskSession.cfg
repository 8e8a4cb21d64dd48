CONSTANTS
  v1 = v1  v2 = v2  home = home  other = other
  Version <- MCVersions
  Project <- MCProjects
  Home = home
  ProjectsOf <- MCProjectsOf
  Setting <- MCSettings
  Worst <- MCWorst
  Cost <- MCCost
  MaxSpend = 2
  MaxAttempts = 5
  MaxTries = 2
  MaxUpsets = 2
  MaxMissed = 1
SPECIFICATION Spec
INVARIANTS TypeOK SentWasPermitted WithinBudget
PROPERTIES AnswerStands
