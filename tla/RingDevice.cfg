CONSTANTS
  Bytes = {x, y}
  Sizes = {1, 2}
  Junk = junk
  Procs = {p, q}
  NoOne = noone
  MaxLen = 2
  NewSizes = {0, 1, 2}
SPECIFICATION FairSpec
INVARIANTS
  RingOK
PROPERTIES
  ImplementsFifo
  ImplementsCalls
  CallsReturn
CHECK_DEADLOCK FALSE
