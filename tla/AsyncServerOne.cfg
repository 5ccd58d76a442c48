CONSTANTS
  Conns = {c1}
  Listener = listener
  MaxEvents = 2
  ReqCap = 2
  ReqEnds = {1, 2, 3}
  MaxSend = 3
  Chunk = 2
  SndCap = 2
  Outcomes <- LiveOutcomes
  FileSizes = {0, 1, 2, 3, 5}
  MayShrink = TRUE
  MayGrow = TRUE
SPECIFICATION FairSpec
INVARIANTS
  TypeOK
  DoneMeansWhole
  InputNotStranded
PROPERTIES
  ImplementsExchange
  RequestReleased
  SigintStops
CHECK_DEADLOCK FALSE
