CONSTANTS
  Runs = {p, q}
  Clients = {c, d}
  Sizes = {1}
  Missing = missing
  NoAnswer = noanswer
  NoRun = norun
  NoClient = noclient
  RelativePath = FALSE
  LongName = FALSE
  Backlog = 0
  AcceptFailures = 1
SPECIFICATION FairSpec
INVARIANTS
  AnswerIsCurrent
  NameServed
PROPERTIES
  LetGo
CHECK_DEADLOCK FALSE
