CONSTANTS
  Conns = {c1, c2}
  Listener = listener
  MaxEvents = 2
  ReqCap = 1
  ReqEnds = {1, 2}
  MaxSend = 2
  Chunk = 2
  SndCap = 1
  Outcomes <- TwoOutcomes
  FileSizes = {}
  MayShrink = FALSE
  MayGrow = FALSE
SYMMETRY Symmetry
SPECIFICATION Spec
INVARIANTS
  NoEventOfFreedClient
  OutputNotStranded
  BacklogNotStranded
CHECK_DEADLOCK FALSE
