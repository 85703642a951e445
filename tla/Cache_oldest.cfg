SPECIFICATION Spec
CONSTANTS
  Cids = {c1, c2, c3}
  Buffers = {m1, m2, m3}
  NULL = NULL
  ItemLimits = {2}
  SizeLimits = {4}
  Lengths = {1}
  WordSize = 16
  MaxTime = 2
PROPERTY OldestEjected
CHECK_DEADLOCK FALSE
