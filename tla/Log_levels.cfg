SPECIFICATION Spec
CONSTANTS
  Threads = {t1, t2}
  MaxMessages = 2
  MaxFailures = 1
  IntBits = 6
SYMMETRY Interchangeable
INVARIANTS LevelsIndependent LinesKept FewHandles
CHECK_DEADLOCK FALSE
