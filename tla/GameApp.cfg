CONSTANTS
  GRID_SIZE = 2
  MAX_RECORDS = 2
  MAX_NAME_LEN = 4
  Letters = {"A"}
  NUL = nul
  NoFile = nofile
  OldFiles <- Files
  MaxScore = 8
  MaxStarts = 3
SPECIFICATION Spec
VIEW Shown
INVARIANTS
  TypeOK
  TilesConserved
  ScoreBalanced
  OverWhenStuck
  BestInOrder
CHECK_DEADLOCK FALSE
