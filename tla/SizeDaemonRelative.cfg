CONSTANTS
  Runs = {p}
  Clients = {c}
  Sizes = {1}
  Missing = missing
  NoAnswer = noanswer
  NoRun = norun
  NoClient = noclient
  RelativePath = TRUE
  LongName = FALSE
  Backlog = 0
  AcceptFailures = 1
SPECIFICATION Spec
INVARIANT
  AnswerIsCurrent
CHECK_DEADLOCK FALSE
