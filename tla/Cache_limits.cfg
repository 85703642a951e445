SPECIFICATION FairSpec
CONSTANTS
  Cids = {c1, c2, c3}
  Buffers = {m1, m2, m3}
  NULL = NULL
  ItemLimits = {0, 2}
  SizeLimits = {0, 4, 5}
  Lengths = {0, 1, 2, 3, 6}
  WordSize = 16
  MaxTime = 2
INVARIANTS TypeOK ItemsCounted SizeCounted LimitsKept BuffersOwned VictimExists
PROPERTY CallsReturn
CHECK_DEADLOCK FALSE
