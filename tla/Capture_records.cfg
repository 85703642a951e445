SPECIFICATION FairSpec
CONSTANTS
  MaxRecords = 3
  Sizes = {2, 3}
  MinRecord = 2
  Base = 1
  Word = 8
INVARIANTS RecordsKept RecordsListed
PROPERTY WalkEnds
CHECK_DEADLOCK FALSE
