CONSTANTS
  BUFFER_SIZE = 40
  MAX_PATH_LEN = 13
  PATH_MAX = 12
  RootLen = 7
  IndexLen = 1
  HeaderLen = 8
  TextLen = 4
  PrefixLen = 6
  RowLen = 3
  FooterLen = 3
  Cases <- ManyCases
SPECIFICATION RequestSpec
INVARIANTS
  AnswerInBounds
  StatusAsPromised
CHECK_DEADLOCK FALSE
