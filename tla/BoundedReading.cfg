\* Every small message in every cut into chunks. A reader stops at its verdict.
SPECIFICATION FairSpec
CONSTANTS
  Messages <- Everything
  MaxSize = 5
  MaxGrowth = 7
  MaxBody = 3
  MaxImportBody = 4
  MaxDecompressed = 6
  MaxRatio = 2
  OutputChunk = 3
  RatioFloor = 4
CHECK_DEADLOCK FALSE
INVARIANTS
  AcceptedFits
  
  OvershootBounded
  RecordsSurviveTheCut
PROPERTIES
  ChunksEnd
