CONSTANTS
  a = a
  b = b
  c = c
  d = d
  Files = {a, b, c, d}
  Content <- Lines
  Skipped = skipped
  NoReferer = noreferer
  NoThread = nothread
  num_threads = 3
  limit = 2
  Word = 16
SPECIFICATION FairSpec
INVARIANTS
  SlotsHoldUnjoined
  ReadyToPrint
  CountedExactly
PROPERTY
  Finishes
CHECK_DEADLOCK FALSE
